------------------------------ MODULE MCMirror ------------------------------
(***************************************************************************)
(* Mirror with constants TLC can enumerate.                                *)
(***************************************************************************)
EXTENDS Mirror, TLC

CONSTANTS t1, t2, k1, f1, f2, f3, f4

OneThread == {t1}

TwoThreads == {t1, t2}

OneInvalidator == {k1}

ThreeFrames == {f1, f2, f3}

FourFrames == {f1, f2, f3, f4}

\* Frames differ in nothing but their contents.
FrameSymmetry == Permutations(Frame)

\* Everything that does not migrate.
Accesses == [t \in Thread |-> {"read", "write", "excl", "check", "snapshot"}]

\* The commands that go through the retry loops.
Loops == [t \in Thread |-> {"read", "write", "snapshot"}]

\* One thread runs every command while the other takes snapshots.
Migrations == [t \in Thread |->
    IF t = t2 THEN {"snapshot"}
              ELSE {"read", "write", "todev", "tosys", "fault", "excl", "check"}]

ReadsAndMigrations == [t \in Thread |-> {"read", "todev"}]
=============================================================================
