----------------------------- MODULE TestBench -----------------------------
(***************************************************************************)
(* The test benches test-csim.c and test-se.c: a bench runs the reference  *)
(* and the student's program one after the other, each of which leaves its *)
(* results in a file, and compares.  Programs hang, exit with an error,    *)
(* are killed, and outlive a bench that its alarm has ended; the next      *)
(* session of the bench finds the files, and the processes, of the last.   *)
(*                                                                         *)
(* The results of a test are one value, the number of the test if they are *)
(* right: test-csim gives a point for each of four numbers, and here all   *)
(* four or none are right.                                                 *)
(***************************************************************************)
EXTENDS Naturals

CONSTANTS TESTS,        \* number of tests of a session
          CACHES,       \* number of tests test-se makes of one test file
          SESSIONS      \* number of sessions in the same directory

ASSUME TestAssumption == /\ TESTS \in Nat \ {0} /\ CACHES \in Nat \ {0}
                         /\ SESSIONS \in Nat \ {0}

Tests   == 1 .. TESTS
Wrong   == 0
Results == Tests \cup {Wrong}
Absent  == TESTS + 1    \* there is no such file
Empty   == TESTS + 2    \* the file has been opened and nothing written
NoValue == TESTS + 3

VARIABLES
    bench,          \* "csim" or "se"
    session, test,
    pc,             \* what the bench does next
    file,           \* the contents of each file
    process,        \* the running programs
    status,         \* of the last program: "ok" if the bench goes on
    ref,            \* the reference's result, as test-csim has read it
    passed,         \* the outcome of the current test
    earned,         \* auxiliary: has the student's program written right results?
    killed,         \* auxiliary: has a signal ended it unnoticed, and its file
                    \* is not what it has left?
    disturbed       \* auxiliary: may a process of an earlier session write to
                    \* the files of this test?

control == <<bench, session, test>>
aux     == <<earned, killed, disturbed>>
vars    == <<control, pc, file, process, status, ref, passed, aux>>

\* .csim_results; checkpoints/checkpoint_ref_<name>.out and
\* checkpoints/checkpoint_student_<name>.out, whatever the cache.
FileOf(who, t) ==
    IF bench = "csim" THEN <<"results", 0>> ELSE <<who, (t - 1) \div CACHES>>

Files == {FileOf(who, t) : who \in {"ref", "student"}, t \in Tests}

Orphans == {p \in process : p.session # session}
Current == process \ Orphans

Init ==
    /\ bench \in {"csim", "se"}
    /\ session = 1 /\ test = 1
    /\ pc = "rm ref"
    /\ file = [f \in Files |-> Absent]
    /\ process = {}
    /\ status = "ok"
    /\ ref = NoValue
    /\ passed = FALSE
    /\ earned = FALSE /\ killed = FALSE /\ disturbed = FALSE

----------------------------------------------------------------------------
(* The programs, which are external: csim opens its file when it has       *)
(* finished its trace, se when it reads its arguments, and both write when *)
(* they end.                                                               *)

\* The process of the current test, if it is the one that ends, lets system
\* return.
Ends(p, how) ==
    /\ process' = process \ {p}
    /\ status' = IF p \in Current THEN how ELSE status

Open(p) ==
    /\ ~p.opened
    /\ process' = (process \ {p}) \cup {[p EXCEPT !.opened = TRUE]}
    /\ file' = [file EXCEPT ![FileOf(p.who, p.test)] = Empty]
    /\ UNCHANGED <<status, aux>>

Write(p) ==
    /\ p.opened
    /\ file' = [file EXCEPT ![FileOf(p.who, p.test)] = p.result]
    /\ earned' = (earned \/ (p \in Current /\ p.who = "student" /\ p.result = test))
    /\ Ends(p, "ok")
    /\ UNCHANGED <<killed, disturbed>>

\* A student's csim that does not call printSummary.
Silent(p) ==
    /\ bench = "csim" /\ p.who = "student" /\ ~p.opened
    /\ Ends(p, "ok")
    /\ UNCHANGED <<file, aux>>

\* An exit with an error, before the results are complete.
Fail(p) ==
    /\ Ends(p, "failed")
    /\ UNCHANGED <<file, aux>>

\* WIFEXITED is false if the shell has replaced itself by the program, and the
\* bench goes on; otherwise the shell's own status is not 0.  Then the bench may
\* read numbers csim has not written, or a checkpoint se has not opened.
Kill(p) ==
    /\ p.who = "student"
    /\ \E how \in {"ok", "failed"} :
          /\ Ends(p, how)
          /\ killed' = (killed \/ (p \in Current /\ how = "ok" /\ p.opened = (bench = "csim")))
    /\ UNCHANGED <<file, earned, disturbed>>

Program ==
    /\ \E p \in process : Open(p) \/ Write(p) \/ Silent(p) \/ Fail(p) \/ Kill(p)
    /\ UNCHANGED <<control, pc, ref, passed>>

----------------------------------------------------------------------------
(* runtrace and run_test                                                   *)

Step(from, to) == pc = from /\ pc' = to

Fails == pc' = "next" /\ passed' = FALSE

\* A mutant: the old results are left where they are.
RemovedNone == file

\* system("rm -rf .csim_results"); test-se removes nothing at this point.
Removed == IF bench = "csim" THEN [f \in Files |-> Absent] ELSE file

Remove ==
    /\ Step("rm ref", "run ref") \/ Step("rm student", "run student")
    /\ file' = Removed
    /\ UNCHANGED <<control, process, status, ref, passed, aux>>

Start(who, result) ==
    process' = process \cup {[who |-> who, test |-> test, session |-> session,
                              opened |-> FALSE, result |-> result]}

Run ==
    /\ \/ Step("run ref", "wait ref") /\ Start("ref", test)
       \/ Step("run student", "wait student") /\ \E r \in {test, Wrong} : Start("student", r)
    /\ UNCHANGED <<control, file, status, ref, passed, aux>>

\* fscanf leaves its arguments, which nothing has initialised, if the file is
\* empty.
Scanned(f) == IF file[f] = Empty THEN Results ELSE {file[f]}

\* The reference has ended.
ReadRef ==
    LET f == FileOf("ref", test)
    IN  /\ pc = "wait ref" /\ Current = {}
        /\ IF status = "failed" \/ (bench = "csim" /\ file[f] = Absent)
           THEN Fails /\ UNCHANGED ref
           ELSE /\ pc' = "rm student"
                /\ ref' \in IF bench = "csim" THEN Scanned(f) ELSE {NoValue}
                /\ UNCHANGED passed
        /\ UNCHANGED <<control, file, process, status, aux>>

\* The student's program has ended: its results are read and compared, or the
\* two checkpoints are compared by diff, and the files removed.
Compare ==
    LET f == FileOf("student", test)
        g == FileOf("ref", test)
    IN  /\ pc = "wait student" /\ Current = {}
        /\ IF status = "failed" \/ (bench = "csim" /\ file[f] = Absent)
           THEN Fails /\ UNCHANGED file
           ELSE /\ pc' = "next"
                /\ IF bench = "csim" THEN \E r \in Scanned(f) : passed' = (r = ref)
                   ELSE passed' = (file[f] # Absent /\ file[f] = file[g])
                /\ file' = [file EXCEPT ![f] = Absent, ![g] = Absent]
        /\ UNCHANGED <<control, process, status, ref, aux>>

\* From one test to the next, and, when a session is over, to the next session.
Begin(s, t) ==
    /\ session' = s /\ test' = t
    /\ pc' = "rm ref" /\ status' = "ok" /\ ref' = NoValue
    /\ passed' = FALSE
    /\ earned' = FALSE /\ killed' = FALSE
    /\ disturbed' = \E p \in process :
          p.session # s /\ FileOf(p.who, p.test) \in {FileOf("ref", t), FileOf("student", t)}
    /\ UNCHANGED <<bench, file, process>>

NewSession ==
    IF session < SESSIONS THEN Begin(session + 1, 1)
    ELSE /\ pc' = "over"
         /\ UNCHANGED <<control, file, process, status, ref, passed, aux>>

NextTest ==
    /\ pc = "next"
    /\ IF test < TESTS THEN Begin(session, test + 1) ELSE NewSession

\* sigalrm_handler: the bench exits, and the program it waits for goes on.
Alarm ==
    /\ pc # "over"
    /\ NewSession

Bench == Remove \/ Run \/ ReadRef \/ Compare \/ NextTest

Next == Bench \/ Program \/ Alarm

Spec == Init /\ [][Next]_vars

----------------------------------------------------------------------------
\* A test is passed if and only if the student's program has produced the right
\* results in this very test: not because of files the reference, an earlier test
\* or an earlier session has left, whoever fails, is killed, or still runs and
\* writes.  Left out are a kill nobody notices when the file is not yet se's, or
\* opened and not written by csim, and a process of an earlier session that shares
\* a file with the test.
PassIffEarned ==
    pc = "next" /\ ~disturbed /\ ~killed => (passed <=> earned)
=============================================================================
