----------------------------- MODULE MCBatchRun -----------------------------
(* Small instances of BatchRun.                                            *)
EXTENDS BatchRun

MCHosts == {"a", "b", "c"}

\* The lists of 0 to 2 different hosts, up to renaming, and the one of 3.
UpToTwo == {<<>>, <<"a">>, <<"a", "b">>}
Three == {<<"a", "b", "c">>}

MCHostLists == UpToTwo \cup Three

\* A host listed twice (parseHostsFromString keeps duplicates).
Duplicated == {<<"a", "a">>}

\* No degree, a negative one, every degree up to a list of 2, and one beyond.
UpToThree == {-1, 0, 1, 2, 3}

\* Every invocation for up to two hosts; three hosts in batches of two.
MCCalls == (UpToTwo \X BOOLEAN \X BOOLEAN \X UpToThree) \cup (Three \X BOOLEAN \X BOOLEAN \X {2})
LiveCalls == UpToTwo \X BOOLEAN \X BOOLEAN \X {0, 1}
TwiceCalls == Duplicated \X BOOLEAN \X BOOLEAN \X UpToThree

\* Two batches are alive at most (the current one and a goroutine of an older one).
MCDirNames == {"t1", "t2"}

=============================================================================
