--------------------------- MODULE TestBenchProof ---------------------------
(***************************************************************************)
(* Proofs about the test benches, for any number of tests, of caches a     *)
(* test file is run with, and of sessions in one directory.                *)
(***************************************************************************)
EXTENDS TestBench, TLAPS

----------------------------------------------------------------------------
(* The inductive invariant.                                                *)

\* FileOf and Files, with the bench an argument.
Place(b, who, t) == IF b = "csim" THEN <<"results", 0>> ELSE <<who, (t - 1) \div CACHES>>
Places(b)        == {Place(b, who, t) : who \in {"ref", "student"}, t \in Tests}

\* The student's file and the reference's.
Mine  == file[Place(bench, "student", test)]
Yours == file[Place(bench, "ref", test)]

\* The programs that write to one of the two.
Near == {p \in process : Place(bench, p.who, p.test)
                            \in {Place(bench, "ref", test), Place(bench, "student", test)}}

Idle    == {"rm ref", "run ref", "rm student", "run student", "next"}
Waiting == {"wait ref", "wait student"}

Programs == [who : {"ref", "student"}, test : Tests, session : Nat, opened : BOOLEAN,
             result : Results]

Types ==
    /\ bench \in {"csim", "se"} /\ session \in Nat \ {0} /\ test \in Tests
    /\ pc \in Idle \cup Waiting \cup {"over"}
    /\ file \in [Places(bench) -> Results \cup {Absent, Empty}]
    /\ process \in SUBSET Programs
    /\ status \in {"ok", "failed"} /\ ref \in Results \cup {NoValue}
    /\ passed \in BOOLEAN /\ earned \in BOOLEAN /\ killed \in BOOLEAN /\ disturbed \in BOOLEAN

\* A program is of this session, and then of this test, or of an earlier one, and
\* the bench never goes on while a program of this session runs.
Started ==
    /\ \A p \in process : p.session <= session /\ (p.session = session => p.test = test)
    /\ pc \in Idle => \A p \in process : p.session # session

\* The results of the test's reference, wherever the bench keeps them.
HaveRef == IF bench = "csim" THEN ref = test ELSE Yours = test

\* Program p of the current test is the only one near, and has written nothing.
Running(p, who) ==
    /\ Near = {p}
    /\ p.who = who /\ p.test = test /\ p.session = session
    /\ bench = "csim" /\ ~p.opened => file[Place(bench, who, test)] = Absent
    /\ bench # "csim" /\ p.opened => file[Place(bench, who, test)] = Empty

\* How the student's program of an undisturbed test may have ended.
Ended ==
    \/ killed
    \/ ~earned /\ status = "failed"
    \/ ~earned /\ Mine = IF bench = "csim" THEN Absent ELSE Empty
    \/ status = "ok" /\ Mine \in Results /\ (earned <=> Mine = test)

\* Nothing has been run yet for the reference or the student.
Fresh == Near = {} /\ status = "ok" /\ ~earned /\ ~killed

\* What is known in a test that no earlier session has disturbed.
InTest ==
    /\ pc \in {"rm ref", "run ref", "rm student", "run student"} => Fresh
    /\ pc = "run ref" /\ bench = "csim" => Yours = Absent
    /\ pc = "wait ref" =>
          /\ ~earned /\ ~killed
          /\ \/ \E p \in Programs : Running(p, "ref") /\ p.result = test
             \/ Near = {} /\ (status = "failed" \/ Yours = test)
    /\ pc \in {"rm student", "run student", "wait student"} => HaveRef
    /\ pc = "run student" /\ bench = "csim" => Mine = Absent
    /\ pc = "wait student" =>
          \/ ~earned /\ \E p \in Programs : Running(p, "student")
          \/ Near = {} /\ Ended
    /\ pc = "next" => Near = {} /\ (~killed => (passed <=> earned))

BenchInv ==
    /\ Types
    /\ Started
    /\ ~disturbed => InTest

----------------------------------------------------------------------------
(* The values and the files                                                *)

\* What a file may hold instead of results is no result.
LEMMA ValuesDiffer ==
    /\ Tests \subseteq Results /\ Tests \subseteq Nat /\ 1 \in Tests
    /\ Wrong \in Results /\ Wrong \notin Tests
    /\ Absent \notin Results /\ Empty \notin Results /\ Absent # Empty
    /\ NoValue \notin Results
  BY TestAssumption DEF Tests, Results, Wrong, Absent, Empty, NoValue

\* Where the files are: test-csim has one, test-se two for each test.
LEMMA FilesAre ==
    ASSUME NEW t \in Tests, NEW who \in {"ref", "student"}
    PROVE  /\ FileOf(who, t) = Place(bench, who, t)
           /\ Files = Places(bench)
           /\ Place(bench, who, t) \in Places(bench)
           /\ bench = "csim" => Place(bench, who, t) = <<"results", 0>>
           /\ bench # "csim" => Place(bench, "ref", t) # Place(bench, "student", t)
<1>1. \A w, s : FileOf(w, s) = Place(bench, w, s)
  BY DEF FileOf, Place
<1>2. Files = Places(bench)
  BY <1>1 DEF Files, Places
<1>3. Place(bench, who, t) \in Places(bench)
  BY DEF Places
<1>4. bench # "csim" => Place(bench, "ref", t) # Place(bench, "student", t)
  BY DEF Place
<1>5. bench = "csim" => Place(bench, who, t) = <<"results", 0>>
  BY DEF Place
<1> QED  BY <1>1, <1>2, <1>3, <1>4, <1>5

----------------------------------------------------------------------------
(* The bench                                                               *)

\* system("rm"): in test-csim there is then no file of results.
LEMMA RemoveStep ==
    ASSUME BenchInv, Remove
    PROVE  BenchInv'
<1>1. /\ UNCHANGED <<bench, session, test, process, status, ref, passed, earned, killed, disturbed>>
      /\ file' = IF bench = "csim" THEN [f \in Places(bench) |-> Absent] ELSE file
      /\ \/ pc = "rm ref" /\ pc' = "run ref"
         \/ pc = "rm student" /\ pc' = "run student"
  BY FilesAre DEF Remove, Removed, Step, control, aux, BenchInv, Types
<1>2. Place(bench, "ref", test) \in Places(bench) /\ Place(bench, "student", test) \in Places(bench)
  BY FilesAre DEF BenchInv, Types
<1>3. Types'
  BY <1>1 DEF BenchInv, Types, Idle, Waiting
<1>4. Started'
  BY <1>1 DEF BenchInv, Started, Idle
<1>5. bench = "csim" => Mine' = Absent /\ Yours' = Absent
  BY <1>1, <1>2 DEF Mine, Yours
<1>6. bench # "csim" => Yours' = Yours
  BY <1>1 DEF Yours
<1>7. Near' = Near
  BY <1>1 DEF Near
<1>8. ~disturbed' => InTest'
  BY <1>1, <1>5, <1>6, <1>7 DEF BenchInv, InTest, Fresh, HaveRef
<1> QED  BY <1>3, <1>4, <1>8 DEF BenchInv

\* A program is started, the only one near.
LEMMA RunStep ==
    ASSUME BenchInv, Run
    PROVE  BenchInv'
<1>1. PICK p \in Programs :
         /\ process' = process \cup {p}
         /\ p.test = test /\ p.session = session /\ ~p.opened
         /\ \/ p.who = "ref" /\ pc = "run ref" /\ pc' = "wait ref" /\ p.result = test
            \/ p.who = "student" /\ pc = "run student" /\ pc' = "wait student"
  <2>1. test \in Results /\ Wrong \in Results /\ test \in Tests /\ session \in Nat
    BY ValuesDiffer DEF BenchInv, Types
  <2>2. ASSUME NEW who \in {"ref", "student"}, NEW r \in Results, Start(who, r)
        PROVE  \E p \in Programs :
                  /\ process' = process \cup {p}
                  /\ p.test = test /\ p.session = session /\ ~p.opened
                  /\ p.who = who /\ p.result = r
    <3> DEFINE p == [who |-> who, test |-> test, session |-> session, opened |-> FALSE, result |-> r]
    <3>1. p \in Programs
      BY <2>1 DEF Programs
    <3>2. /\ p.test = test /\ p.session = session /\ ~p.opened /\ p.who = who /\ p.result = r
          /\ process' = process \cup {p}
      BY <2>2 DEF Start
    <3> HIDE DEF p
    <3> QED  BY <3>1, <3>2
  <2>3. CASE Step("run ref", "wait ref") /\ Start("ref", test)
    <3>1. pc = "run ref" /\ pc' = "wait ref"
      BY <2>3 DEF Step
    <3>2. \E p \in Programs :
             /\ process' = process \cup {p}
             /\ p.test = test /\ p.session = session /\ ~p.opened
             /\ p.who = "ref" /\ p.result = test
      BY <2>1, <2>2, <2>3
    <3> QED  BY <3>1, <3>2
  <2>4. CASE Step("run student", "wait student") /\ \E r \in {test, Wrong} : Start("student", r)
    <3>1. pc = "run student" /\ pc' = "wait student"
      BY <2>4 DEF Step
    <3>2. PICK r \in Results : Start("student", r)
      BY <2>1, <2>4
    <3> QED  BY <2>2, <3>1, <3>2
  <2> QED  BY <2>3, <2>4 DEF Run
<1>2. UNCHANGED <<bench, session, test, file, status, ref, passed, earned, killed, disturbed>>
  BY DEF Run, control, aux
<1>3. Types'
  BY <1>1, <1>2 DEF BenchInv, Types, Waiting
<1>4. Started'
  <2>1. pc' \notin Idle
    BY <1>1 DEF Idle
  <2>2. session \in Nat
    BY DEF BenchInv, Types
  <2>3. session <= session
    BY <2>2
  <2> QED  BY <2>1, <2>3, <1>1, <1>2 DEF BenchInv, Started
<1>5. ASSUME ~disturbed' PROVE InTest'
  <2>1. Mine' = Mine /\ Yours' = Yours
    BY <1>2 DEF Mine, Yours
  <2>2. InTest /\ Fresh
    BY <1>1, <1>2, <1>5 DEF BenchInv, InTest
  <2>3. Near' = {p}
    BY <2>2, <1>1, <1>2 DEF Fresh, Near, Programs
  <2>4. CASE p.who = "ref"
    <3>1. Running(p, "ref")'
      BY <2>2, <2>3, <2>4, <1>1, <1>2 DEF Running, InTest, Yours
    <3> QED  BY <3>1, <2>2, <2>4, <1>1, <1>2 DEF InTest, Fresh
  <2>5. CASE p.who = "student"
    <3>1. Running(p, "student")'
      BY <2>2, <2>3, <2>5, <1>1, <1>2 DEF Running, InTest, Mine
    <3> QED  BY <3>1, <2>1, <2>2, <2>5, <1>1, <1>2 DEF InTest, Fresh, HaveRef
  <2> QED  BY <2>4, <2>5, <1>1
<1> QED  BY <1>3, <1>4, <1>5 DEF BenchInv

\* The programs are then all of earlier sessions.
LEMMA NoCurrent == Current = {} => \A p \in process : p.session # session
  BY DEF Current, Orphans

\* The reference's results, if it has any, are those of this test.
LEMMA ReadRefStep ==
    ASSUME BenchInv, ReadRef
    PROVE  BenchInv'
<1> DEFINE bad == status = "failed" \/ (bench = "csim" /\ Yours = Absent)
<1>1. /\ UNCHANGED <<bench, session, test, file, process, status, earned, killed, disturbed>>
      /\ pc = "wait ref" /\ Current = {}
      /\ bad => pc' = "next" /\ passed' = FALSE /\ ref' = ref
      /\ ~bad => /\ pc' = "rm student" /\ passed' = passed
                 /\ ref' \in IF bench = "csim" THEN (IF Yours = Empty THEN Results ELSE {Yours}) ELSE {NoValue}
  BY FilesAre DEF ReadRef, Fails, Scanned, control, aux, Yours, BenchInv, Types
<1>2. \A p \in process : p.session # session
  BY <1>1, NoCurrent
<1>3. Yours \in Results \cup {Absent, Empty}
  BY FilesAre DEF BenchInv, Types, Yours
<1>4. Types'
  BY <1>1, <1>3 DEF BenchInv, Types, Idle, Waiting
<1>5. Started'
  BY <1>1, <1>2 DEF BenchInv, Started
<1>6. ASSUME ~disturbed' PROVE InTest'
  <2>1. /\ InTest /\ ~earned /\ ~killed
        /\ Near = {} /\ (status = "failed" \/ Yours = test)
    BY <1>1, <1>2, <1>6 DEF BenchInv, InTest, Running, Near
  <2>2. Yours' = Yours /\ Near' = Near
    BY <1>1 DEF Yours, Near
  <2>3. CASE bad
    BY <2>1, <2>2, <2>3, <1>1 DEF InTest
  <2>4. CASE ~bad
    <3>1. Yours = test /\ status = "ok"
      BY <2>1, <2>4 DEF BenchInv, Types
    <3>2. HaveRef'
      BY <3>1, <2>2, <2>4, <1>1, ValuesDiffer DEF HaveRef, BenchInv, Types
    <3> QED  BY <3>1, <3>2, <2>1, <2>2, <2>4, <1>1 DEF InTest, Fresh
  <2> QED  BY <2>3, <2>4
<1> QED  BY <1>4, <1>5, <1>6 DEF BenchInv

\* The student's results are compared with the reference's.
LEMMA CompareStep ==
    ASSUME BenchInv, Compare
    PROVE  BenchInv'
<1> DEFINE bad == status = "failed" \/ (bench = "csim" /\ Mine = Absent)
           f == Place(bench, "student", test)
           g == Place(bench, "ref", test)
<1>1. /\ UNCHANGED <<bench, session, test, process, status, ref, earned, killed, disturbed>>
      /\ pc = "wait student" /\ Current = {} /\ pc' = "next"
      /\ bad => passed' = FALSE /\ file' = file
      /\ ~bad =>
           /\ IF bench = "csim"
              THEN \E r \in (IF Mine = Empty THEN Results ELSE {Mine}) : passed' = (r = ref)
              ELSE passed' = (Mine # Absent /\ Mine = Yours)
           /\ file' = [file EXCEPT ![f] = Absent, ![g] = Absent]
  BY FilesAre DEF Compare, Fails, Scanned, control, aux, Mine, Yours, BenchInv, Types
<1>2. \A p \in process : p.session # session
  BY <1>1, NoCurrent
<1>3. Types'
  <2>1. passed' \in BOOLEAN
    BY <1>1
  <2>2. file' \in [Places(bench) -> Results \cup {Absent, Empty}]
    BY <1>1 DEF BenchInv, Types
  <2> QED  BY <2>1, <2>2, <1>1 DEF BenchInv, Types, Idle, Waiting
<1>4. Started'
  BY <1>1, <1>2 DEF BenchInv, Started
<1>5. ASSUME ~disturbed' PROVE InTest'
  <2>1. InTest /\ HaveRef /\ Near = {} /\ Ended
    BY <1>1, <1>2, <1>5 DEF BenchInv, InTest, Running, Near
  <2>2. ASSUME ~killed PROVE passed' <=> earned
    <3>1. CASE bad
      BY <3>1, <2>1, <2>2, <1>1, ValuesDiffer DEF Ended
    <3>2. CASE ~bad /\ bench # "csim" /\ ~earned /\ Mine = Empty
      <4>1. Yours = test /\ test # Empty
        BY <3>2, <2>1, ValuesDiffer DEF HaveRef, BenchInv, Types
      <4> QED  BY <4>1, <3>2, <1>1
    <3>3. CASE ~bad /\ ~(bench # "csim" /\ ~earned /\ Mine = Empty)
      <4>1. Mine \in Results /\ (earned <=> Mine = test) /\ Mine # Absent /\ Mine # Empty
        BY <3>3, <2>1, <2>2, ValuesDiffer DEF Ended
      <4>2. passed' <=> Mine = test
        BY <4>1, <3>3, <2>1, <1>1 DEF HaveRef
      <4> QED  BY <4>1, <4>2
    <3> QED  BY <3>1, <3>2, <3>3
  <2>3. Near' = Near
    BY <1>1 DEF Near
  <2> QED  BY <2>1, <2>2, <2>3, <1>1 DEF InTest
<1> QED  BY <1>3, <1>4, <1>5 DEF BenchInv

\* The next test, of this session or the next, when no program of this session
\* runs, or the first of the next session in any case.
LEMMA BeginStep ==
    ASSUME BenchInv, NEW s \in Nat \ {0}, NEW t \in Tests, Begin(s, t),
           (s = session /\ pc = "next") \/ s = session + 1
    PROVE  BenchInv'
<1>1. /\ UNCHANGED <<bench, file, process>> /\ session' = s /\ test' = t
      /\ pc' = "rm ref" /\ status' = "ok" /\ ref' = NoValue /\ passed' = FALSE
      /\ earned' = FALSE /\ killed' = FALSE
      /\ disturbed' = \E p \in process :
            /\ p.session # s
            /\ Place(bench, p.who, p.test) \in {Place(bench, "ref", t), Place(bench, "student", t)}
  BY DEF Begin, FileOf, Place
<1>2. \A p \in process : p.session \in Nat /\ p.session <= session /\ p.session # s
  <2>1. ASSUME NEW p \in process
        PROVE  p.session \in Nat /\ p.session <= session /\ (pc = "next" => p.session # session)
    BY DEF BenchInv, Types, Started, Programs, Idle
  <2>2. session \in Nat
    BY DEF BenchInv, Types
  <2> QED  BY <2>1, <2>2
<1>3. Types'
  BY <1>1 DEF BenchInv, Types, Idle
<1>4. Started'
  <2>1. session \in Nat /\ (s = session \/ s = session + 1)
    BY DEF BenchInv, Types
  <2>2. \A p \in process : p.session <= s /\ p.session # s
    BY <2>1, <1>2
  <2> QED  BY <2>2, <1>1, <1>2 DEF Started
<1>5. ~disturbed' => Near' = {}
  BY <1>1, <1>2 DEF Near
<1> QED  BY <1>1, <1>3, <1>4, <1>5 DEF BenchInv, InTest, Fresh

\* The end of a session.
LEMMA NewSessionStep ==
    ASSUME BenchInv, NewSession
    PROVE  BenchInv'
<1>1. CASE session < SESSIONS
  <2>1. session + 1 \in Nat \ {0} /\ 1 \in Tests /\ Begin(session + 1, 1)
    BY <1>1, ValuesDiffer DEF NewSession, BenchInv, Types
  <2> QED  BY <2>1, BeginStep
<1>2. CASE ~(session < SESSIONS)
  <2>1. /\ pc' = "over"
        /\ UNCHANGED <<bench, session, test, file, process, status, ref, passed, earned, killed, disturbed>>
    BY <1>2 DEF NewSession, control, aux
  <2>2. Types'
    BY <2>1 DEF BenchInv, Types
  <2>3. Started' /\ InTest'
    BY <2>1 DEF BenchInv, Started, InTest, Idle
  <2> QED  BY <2>2, <2>3 DEF BenchInv
<1> QED  BY <1>1, <1>2

\* From one test to the next.
LEMMA NextTestStep ==
    ASSUME BenchInv, NextTest
    PROVE  BenchInv'
<1>1. CASE test < TESTS
  <2>1. test + 1 \in Tests /\ session \in Nat \ {0}
    BY <1>1, TestAssumption DEF BenchInv, Types, Tests
  <2> QED  BY <2>1, <1>1, BeginStep DEF NextTest
<1>2. CASE ~(test < TESTS)
  BY <1>2, NewSessionStep DEF NextTest
<1> QED  BY <1>1, <1>2

----------------------------------------------------------------------------
(* The programs                                                            *)

\* In a test that nothing disturbs a program near is the one the bench waits for.
LEMMA OnlyProgram ==
    ASSUME BenchInv, ~disturbed, NEW p \in Near, pc # "over"
    PROVE  /\ InTest /\ p \in Programs /\ Near = {p}
           /\ p.test = test /\ p.session = session /\ p \in Current
           /\ \/ /\ pc = "wait ref" /\ p.who = "ref" /\ Running(p, "ref") /\ p.result = test
                 /\ ~earned /\ ~killed
              \/ /\ pc = "wait student" /\ p.who = "student" /\ Running(p, "student")
                 /\ ~earned /\ HaveRef
<1>1. InTest /\ p \in process /\ p \in Programs
  BY DEF BenchInv, Types, Near
<1>2. pc \in Waiting
  BY <1>1 DEF BenchInv, Types, InTest, Fresh, Idle
<1>3. \/ pc = "wait ref" /\ Running(p, "ref") /\ p.result = test /\ ~earned /\ ~killed
      \/ pc = "wait student" /\ Running(p, "student") /\ ~earned /\ HaveRef
  BY <1>1, <1>2 DEF InTest, Waiting, Running
<1>4. Near = {p} /\ p.test = test /\ p.session = session
  BY <1>3 DEF Running
<1>5. p \in Current
  BY <1>1, <1>4 DEF Current, Orphans
<1> QED  BY <1>1, <1>3, <1>4, <1>5 DEF Running

\* The other programs are of earlier sessions.
LEMMA FarIsNotCurrent ==
    ASSUME BenchInv, NEW p \in process, p \notin Near
    PROVE  p \notin Current
<1>1. p.who \in {"ref", "student"} /\ (p.session = session => p.test = test)
  BY DEF BenchInv, Types, Started, Programs
<1> QED  BY <1>1 DEF Near, Current, Orphans

\* What they do does not matter to the test.
LEMMA FarStep ==
    ASSUME BenchInv, NEW p \in process, p \notin Near,
           \/ process' = process \ {p}
           \/ process' = (process \ {p}) \cup {[p EXCEPT !.opened = TRUE]},
           file' = file \/ \E x : file' = [file EXCEPT ![Place(bench, p.who, p.test)] = x],
           UNCHANGED <<bench, session, test, pc, status, ref, passed, earned, killed, disturbed>>
    PROVE  ~disturbed' => InTest'
<1>1. p \in Programs
  BY DEF BenchInv, Types
<1>2. Near' = Near
  <2>1. CASE process' = process \ {p}
    BY <2>1 DEF Near
  <2>2. CASE process' = (process \ {p}) \cup {[p EXCEPT !.opened = TRUE]}
    <3> DEFINE q == [p EXCEPT !.opened = TRUE]
    <3>1. q.who = p.who /\ q.test = p.test
      BY <1>1 DEF Programs
    <3> HIDE DEF q
    <3> QED  BY <2>2, <3>1 DEF Near, q
  <2> QED  BY <2>1, <2>2
<1>3. Mine' = Mine /\ Yours' = Yours
  <2>1. /\ Place(bench, p.who, p.test) # Place(bench, "ref", test)
        /\ Place(bench, p.who, p.test) # Place(bench, "student", test)
    BY DEF Near
  <2>2. file \in [Places(bench) -> Results \cup {Absent, Empty}]
    BY DEF BenchInv, Types
  <2>3. Place(bench, "ref", test) \in Places(bench) /\ Place(bench, "student", test) \in Places(bench)
    BY FilesAre DEF BenchInv, Types
  <2> QED  BY <2>1, <2>2, <2>3 DEF Mine, Yours
<1>4. /\ Fresh' <=> Fresh
      /\ HaveRef' <=> HaveRef
      /\ Ended' <=> Ended
  BY <1>2, <1>3 DEF Fresh, HaveRef, Ended
<1>5. /\ \A r : Running(r, "ref")' <=> Running(r, "ref")
      /\ \A r : Running(r, "student")' <=> Running(r, "student")
  BY <1>2, <1>3 DEF Running, Mine, Yours
<1> QED  BY <1>2, <1>3, <1>4, <1>5 DEF BenchInv, InTest

\* Program p opens its file, which is then empty.
LEMMA OpenStep ==
    ASSUME BenchInv, NEW p \in process, Open(p), UNCHANGED <<control, pc, ref, passed>>
    PROVE  BenchInv'
<1> DEFINE q == [p EXCEPT !.opened = TRUE]
           f == Place(bench, p.who, p.test)
<1>1. /\ UNCHANGED <<bench, session, test, pc, status, ref, passed, earned, killed, disturbed>>
      /\ process' = (process \ {p}) \cup {q}
  BY DEF Open, control, aux
<1>2. p \in Programs
  BY DEF BenchInv, Types
<1>3. file' = [file EXCEPT ![f] = Empty]
  BY <1>2, FilesAre DEF Open, Programs
<1>4. /\ q \in Programs /\ q.opened /\ q.who = p.who /\ q.test = p.test
      /\ q.session = p.session /\ q.result = p.result
  BY <1>2 DEF Programs
<1> HIDE DEF q
<1>5. Types'
  BY <1>1, <1>3, <1>4 DEF BenchInv, Types
<1>6. Started'
  BY <1>1, <1>4 DEF BenchInv, Started
<1>7. ASSUME ~disturbed', pc # "over", p \in Near PROVE InTest'
  <2>1. Near' = {q}
    <3>1. Near = {p}
      BY <1>1, <1>7, OnlyProgram
    <3> QED  BY <3>1, <1>1, <1>4 DEF Near
  <2>2. Running(q, q.who)'
    <3>1. p.test = test /\ p.session = session /\ f \in Places(bench)
      BY <1>1, <1>2, <1>7, OnlyProgram, FilesAre DEF Programs
    <3>2. file'[f] = Empty
      BY <3>1, <1>3 DEF BenchInv, Types
    <3> QED  BY <2>1, <3>1, <3>2, <1>1, <1>4 DEF Running
  <2>3. CASE pc = "wait ref"
    BY <2>2, <2>3, <1>1, <1>4, <1>7, OnlyProgram DEF InTest
  <2>4. CASE pc = "wait student"
    <3>1. p.who = "student" /\ HaveRef /\ ~earned /\ p.test = test
      BY <2>4, <1>1, <1>7, OnlyProgram
    <3>2. HaveRef'
      <4>1. bench # "csim" => Yours' = Yours
        BY <3>1, <1>1, <1>3, FilesAre DEF Yours, BenchInv, Types
      <4> QED  BY <3>1, <4>1, <1>1 DEF HaveRef
    <3> QED  BY <3>1, <3>2, <2>2, <2>4, <1>1, <1>4 DEF InTest
  <2> QED  BY <2>3, <2>4, <1>1, <1>7, OnlyProgram
<1>8. pc = "over" => InTest'
  BY <1>1 DEF InTest
<1>9. p \notin Near => (~disturbed' => InTest')
  BY <1>1, <1>3, FarStep DEF q
<1> QED  BY <1>5, <1>6, <1>7, <1>8, <1>9 DEF BenchInv

\* A program less is no matter for the other sessions.
LEMMA FewerPrograms ==
    ASSUME BenchInv, NEW p \in process, NEW how \in {"ok", "failed"}, Ends(p, how),
           UNCHANGED <<bench, session, test, pc, ref, passed, disturbed>>,
           file' \in [Places(bench) -> Results \cup {Absent, Empty}],
           earned' \in BOOLEAN, killed' \in BOOLEAN
    PROVE  Types' /\ Started' /\ (pc = "over" => InTest')
<1>1. process' = process \ {p} /\ status' \in {"ok", "failed"}
  BY DEF Ends, BenchInv, Types
<1>2. Types'
  BY <1>1 DEF BenchInv, Types
<1>3. Started'
  BY <1>1 DEF BenchInv, Started
<1>4. pc = "over" => InTest'
  BY DEF InTest
<1> QED  BY <1>2, <1>3, <1>4

\* Program p writes its results and ends.
LEMMA WriteStep ==
    ASSUME BenchInv, NEW p \in process, Write(p), UNCHANGED <<control, pc, ref, passed>>
    PROVE  BenchInv'
<1> DEFINE f == Place(bench, p.who, p.test)
<1>1. /\ UNCHANGED <<bench, session, test, pc, ref, passed, killed, disturbed>>
      /\ earned' = (earned \/ (p \in Current /\ p.who = "student" /\ p.result = test))
      /\ Ends(p, "ok")
  BY DEF Write, control
<1>2. p \in Programs
  BY DEF BenchInv, Types
<1>3. file' = [file EXCEPT ![f] = p.result] /\ p.result \in Results
  BY <1>2, FilesAre DEF Write, Programs
<1>4. file' \in [Places(bench) -> Results \cup {Absent, Empty}]
  BY <1>3 DEF BenchInv, Types
<1>5. Types' /\ Started' /\ (pc = "over" => InTest')
  <2>1. earned' \in BOOLEAN /\ killed' \in BOOLEAN
    BY <1>1 DEF BenchInv, Types
  <2> QED  BY <1>1, <1>4, <2>1, FewerPrograms
<1>6. ASSUME ~disturbed', pc # "over", p \in Near PROVE InTest'
  <2>1. Near = {p} /\ p.test = test /\ p \in Current
    BY <1>1, <1>6, OnlyProgram
  <2>2. Near' = {} /\ status' = "ok"
    BY <2>1, <1>1 DEF Ends, Near
  <2>3. f \in Places(bench)
    BY <2>1, <1>2, FilesAre DEF Programs
  <2>4. CASE pc = "wait ref"
    <3>1. p.who = "ref" /\ p.result = test /\ ~earned /\ ~killed
      BY <2>4, <1>1, <1>6, OnlyProgram
    <3>2. Yours' = test
      BY <3>1, <2>1, <2>3, <1>1, <1>3, <1>4 DEF Yours, BenchInv, Types
    <3> QED  BY <3>1, <3>2, <2>2, <2>4, <1>1 DEF InTest
  <2>5. CASE pc = "wait student"
    <3>1. p.who = "student" /\ ~earned /\ HaveRef
      BY <2>5, <1>1, <1>6, OnlyProgram
    <3>2. Mine' = p.result
      BY <3>1, <2>1, <2>3, <1>1, <1>3, <1>4 DEF Mine, BenchInv, Types
    <3>3. earned' <=> Mine' = test'
      BY <3>1, <3>2, <2>1, <1>1
    <3>4. HaveRef'
      <4>1. bench # "csim" => Yours' = Yours
        BY <3>1, <2>1, <1>1, <1>3, FilesAre DEF Yours, BenchInv, Types
      <4> QED  BY <3>1, <4>1, <1>1 DEF HaveRef
    <3>5. Ended'
      BY <3>2, <3>3, <2>2, <1>3 DEF Ended
    <3> QED  BY <3>4, <3>5, <2>2, <2>5, <1>1 DEF InTest
  <2> QED  BY <2>4, <2>5, <1>1, <1>6, OnlyProgram
<1>7. p \notin Near => (~disturbed' => InTest')
  <2>1. ASSUME p \notin Near
        PROVE  process' = process \ {p} /\ status' = status /\ earned' = earned
    BY <1>1, <2>1, FarIsNotCurrent DEF Ends, BenchInv, Types
  <2> QED  BY <2>1, <1>1, <1>3, FarStep
<1> QED  BY <1>1, <1>5, <1>6, <1>7 DEF BenchInv

\* Program p ends and has written no results: by itself, by an error or by a
\* signal.
LEMMA EndStep ==
    ASSUME BenchInv, NEW p \in process, Silent(p) \/ Fail(p) \/ Kill(p),
           UNCHANGED <<control, pc, ref, passed>>
    PROVE  BenchInv'
<1>1. /\ UNCHANGED <<bench, session, test, pc, file, ref, passed, earned, disturbed>>
      /\ \E how \in {"ok", "failed"} : Ends(p, how)
  BY DEF Silent, Fail, Kill, control, aux
<1>2. killed' \in BOOLEAN
  BY DEF Silent, Fail, Kill, aux, BenchInv, Types
<1>3. Types' /\ Started' /\ (pc = "over" => InTest')
  <2>1. file' \in [Places(bench) -> Results \cup {Absent, Empty}] /\ earned' \in BOOLEAN
    BY <1>1 DEF BenchInv, Types
  <2> QED  BY <1>1, <1>2, <2>1, FewerPrograms
<1>4. ASSUME ~disturbed', pc # "over", p \in Near PROVE InTest'
  <2>1. Near = {p} /\ p.test = test /\ p \in Current
    BY <1>1, <1>4, OnlyProgram
  <2>2. Near' = {}
    BY <2>1, <1>1 DEF Ends, Near
  <2>3. Mine' = Mine /\ Yours' = Yours
    BY <1>1 DEF Mine, Yours
  <2>4. CASE pc = "wait ref"
    <3>1. p.who = "ref" /\ ~earned /\ ~killed
      BY <2>4, <1>1, <1>4, OnlyProgram
    <3>2. status' = "failed" /\ killed' = killed
      BY <3>1, <2>1 DEF Silent, Fail, Kill, Ends, aux
    <3> QED  BY <3>1, <3>2, <2>2, <2>4, <1>1 DEF InTest
  <2>5. CASE pc = "wait student"
    <3>1. p.who = "student" /\ ~earned /\ HaveRef /\ Running(p, "student")
      BY <2>5, <1>1, <1>4, OnlyProgram
    <3>2. HaveRef'
      BY <3>1, <2>3, <1>1 DEF HaveRef
    <3>3. Ended'
      <4>1. CASE Silent(p)
        <5>1. bench = "csim" /\ Mine = Absent
          BY <4>1, <3>1 DEF Silent, Running, Mine
        <5> QED  BY <5>1, <3>1, <2>3, <1>1 DEF Ended
      <4>2. CASE Fail(p)
        BY <4>2, <3>1, <2>1, <1>1 DEF Fail, Ends, Ended
      <4>3. CASE Kill(p)
        <5>1. PICK how \in {"ok", "failed"} :
                /\ Ends(p, how)
                /\ killed' = (killed \/ (p \in Current /\ how = "ok" /\ p.opened = (bench = "csim")))
          BY <4>3 DEF Kill
        <5>2. CASE how = "failed"
          BY <5>1, <5>2, <3>1, <2>1, <1>1 DEF Ends, Ended
        <5>3. CASE how = "ok" /\ p.opened = (bench = "csim")
          BY <5>1, <5>3, <2>1 DEF Ended
        <5>4. CASE how = "ok" /\ p.opened # (bench = "csim")
          <6>1. Mine = IF bench = "csim" THEN Absent ELSE Empty
            <7>1. p.opened \in BOOLEAN
              BY <2>1, <1>1, <1>4, OnlyProgram DEF Programs
            <7> QED  BY <7>1, <5>4, <3>1 DEF Running, Mine
          <6> QED  BY <6>1, <3>1, <2>3, <1>1 DEF Ended
        <5> QED  BY <5>2, <5>3, <5>4
      <4> QED  BY <4>1, <4>2, <4>3
    <3> QED  BY <3>2, <3>3, <2>2, <2>5, <1>1 DEF InTest
  <2> QED  BY <2>4, <2>5, <1>1, <1>4, OnlyProgram
<1>5. p \notin Near => (~disturbed' => InTest')
  <2>1. ASSUME p \notin Near
        PROVE  process' = process \ {p} /\ status' = status /\ killed' = killed
    BY <1>1, <2>1, FarIsNotCurrent DEF Ends, Silent, Fail, Kill, aux, BenchInv, Types
  <2> QED  BY <2>1, <1>1, FarStep
<1> QED  BY <1>1, <1>3, <1>4, <1>5 DEF BenchInv

----------------------------------------------------------------------------
(* The theorem                                                             *)

\* The first test of the first session.
LEMMA InitBench == Init => BenchInv
<1> SUFFICES ASSUME Init PROVE BenchInv
  OBVIOUS
<1>1. 1 \in Tests
  BY ValuesDiffer
<1>2. Types
  <2>1. file = [f \in Places(bench) |-> Absent]
    BY <1>1, FilesAre DEF Init
  <2>2. 1 \in Nat \ {0}
    OBVIOUS
  <2>3. process \in SUBSET Programs
    BY DEF Init
  <2> QED  BY <1>1, <2>1, <2>2, <2>3 DEF Init, Types, Idle
<1>3. Started /\ InTest
  BY DEF Init, Started, InTest, Fresh, Near
<1> QED  BY <1>2, <1>3 DEF BenchInv

\* Every step keeps the invariant.
LEMMA StepBench == BenchInv /\ [Next]_vars => BenchInv'
<1> SUFFICES ASSUME BenchInv, [Next]_vars PROVE BenchInv'
  OBVIOUS
<1>1. CASE Bench
  BY <1>1, RemoveStep, RunStep, ReadRefStep, CompareStep, NextTestStep DEF Bench
<1>2. CASE Program
  BY <1>2, OpenStep, WriteStep, EndStep DEF Program
<1>3. CASE Alarm
  BY <1>3, NewSessionStep DEF Alarm
<1>4. CASE UNCHANGED vars
  <2>1. UNCHANGED <<bench, session, test, pc, file, process, status, ref, passed, earned, killed, disturbed>>
    BY <1>4 DEF vars, control, aux
  <2>2. Types' /\ Started'
    BY <2>1 DEF BenchInv, Types, Started
  <2>3. Mine' = Mine /\ Yours' = Yours /\ Near' = Near
    BY <2>1 DEF Mine, Yours, Near
  <2>4. /\ Fresh' <=> Fresh
        /\ HaveRef' <=> HaveRef
        /\ Ended' <=> Ended
        /\ \A p, w : Running(p, w)' <=> Running(p, w)
    BY <2>1, <2>3 DEF Fresh, HaveRef, Ended, Running
  <2>5. ~disturbed' => InTest'
    BY <2>1, <2>3, <2>4 DEF BenchInv, InTest
  <2> QED  BY <2>2, <2>5 DEF BenchInv
<1> QED  BY <1>1, <1>2, <1>3, <1>4 DEF Next

\* However many tests and sessions there are, and whatever the programs do, a
\* test passes if and only if the student's program has produced the right
\* results in it, unless a process of an earlier session shares a file with it or
\* a signal ended the program unnoticed, before se's file was opened or csim's
\* written.
THEOREM PassIffEarnedAlways == Spec => []PassIffEarned
<1>1. BenchInv => PassIffEarned
  BY DEF BenchInv, InTest, PassIffEarned
<1> QED  BY <1>1, InitBench, StepBench, PTL DEF Spec
=============================================================================
