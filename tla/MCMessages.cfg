SPECIFICATION Spec
CHECK_DEADLOCK FALSE
CONSTANT PassphraseCiphers = {2, 3, 7, 8, 9}
INVARIANTS OtrAgree OtrDelivers SmpExact CodecReadBack RingSound MessagesReach MessagesTrue TextsReadBack
