--------------------------- MODULE MeasureProofs ---------------------------
(***************************************************************************)
(* Proofs about the programs that measure: the context switch test for any *)
(* number of tries, the TLB test for any memory and number of pages, and   *)
(* use_maps for any number of CPUs, threads and calls and any size of the  *)
(* map and the ring buffer.                                                *)
(***************************************************************************)
EXTENDS CntxtSwitch, TLBtest, OpenatMaps, Counting, FiniteSetTheorems, SequenceTheorems,
        TLAPS

-----------------------------------------------------------------------------
(***************************************************************************)
(* The context switch test.                                                *)
(***************************************************************************)
Ends4 == {"r1", "w1", "r2", "w2"}
InLoop == {"test", "write", "read"}
Early == {"close1", "close2", "test"}

\* Where the processes are, and what they have open.
Places ==
  /\ total \in Nat
  /\ at \in [Sides -> Gone \cup Early \cup {"unborn", "pipe", "pipe2", "fork", "write", "read"}]
  /\ fds \in [Sides -> SUBSET Ends4]
  /\ tryc \in [Sides -> 1..(total + 1)]
  /\ start \in [Sides -> 0..(total + 1)]
  /\ at["parent"] # "unborn"
  /\ at["child"] \notin {"pipe", "pipe2", "fork"}
  /\ at["child"] = "unborn" => at["parent"] \in Gone \cup {"pipe", "pipe2", "fork"}
  /\ at["child"] # "unborn" => at["parent"] \notin {"pipe", "pipe2", "fork"}

\* Outside the loop's last steps each end is held where it is used, and closed
\* where it is not.
Descriptors ==
  /\ \A p \in Sides : at[p] \in Gone \cup {"unborn"} => fds[p] = {}
  /\ at["parent"] \in {"pipe2", "fork"} \cup Early \cup InLoop => "w1" \in fds["parent"]
  /\ at["parent"] = "fork" => "w2" \in fds["parent"]
  /\ at["child"] \in Early \cup InLoop => "w2" \in fds["child"]
  /\ at["parent"] \in {"close2"} \cup InLoop => "r1" \notin fds["parent"]
  /\ at["parent"] \in InLoop => "w2" \notin fds["parent"]
  /\ at["child"] \in {"close2"} \cup InLoop => "w1" \notin fds["child"]
  /\ at["child"] \in InLoop => "r2" \notin fds["child"]

\* The one message on the way, if any.
OnTheWay ==
  /\ pipe1 = <<>> \/ pipe1 = <<start["parent"]>>
  /\ pipe2 = <<>> \/ \E n \in 1..(total + 1) : pipe2 = <<n>>
  /\ pipe1 = <<>> \/ pipe2 = <<>>
  /\ at["child"] = "unborn" =>
       /\ pipe1 = <<>> /\ pipe2 = <<>>
       /\ tryc["child"] = 1 /\ tryc["parent"] = 1 /\ start["parent"] = 0

\* The parent's turn, unless the child has gone.
ParentsTurn ==
  at["parent"] \in Early \cup {"write"} /\ at["child"] \notin Gone =>
    /\ pipe1 = <<>> /\ pipe2 = <<>> /\ at["child"] \in Early \cup {"read"}
    /\ tryc["child"] = tryc["parent"] /\ start["parent"] = tryc["parent"] - 1

\* While the parent waits: its message, the child that works on it, or the answer.
ChildsTurn ==
  at["parent"] = "read" =>
    /\ pipe1 # <<>> /\ at["child"] \notin Gone =>
         at["child"] \in Early \cup {"read"} /\ tryc["child"] = start["parent"]
    /\ pipe2 # <<>> =>
         /\ at["child"] \in {"test", "read"} \cup Gone
         /\ tryc["child"] = start["parent"] + 1 /\ pipe2 = <<tryc["child"]>>
    /\ pipe1 = <<>> /\ pipe2 = <<>> /\ at["child"] \notin Gone =>
         at["child"] = "write" /\ tryc["child"] = start["parent"] + 1

\* The child's loop condition, and what becomes of a child that has measured with
\* an old time: nobody reads its answer any more.
ChildGoesOn ==
  /\ at["child"] = "read" => tryc["child"] <= total
  /\ stale => at["parent"] \in Gone /\ at["child"] \in {"write", "killed"}

\* The inductive invariant of the context switch test.
SInv ==
  Places /\ Descriptors /\ OnTheWay /\ ParentsTurn /\ ChildsTurn /\ ChildGoesOn

\* The start of the program.
LEMMA SwitchInitSInv == SwitchInit => SInv
<1> SUFFICES ASSUME SwitchInit PROVE SInv
  OBVIOUS
<1>1. total \in Nat BY SwitchAssumption DEF SwitchInit
<1>2. at["parent"] = "pipe" /\ at["child"] = "unborn" BY DEF SwitchInit, Sides
<1>3. Places BY <1>1, <1>2 DEF SwitchInit, Sides, Places, Gone, Early, Ends4
<1>4. Descriptors BY <1>2 DEF SwitchInit, Sides, Descriptors, Gone, Early, InLoop
<1>5. OnTheWay BY DEF SwitchInit, Sides, OnTheWay
<1>6. ParentsTurn /\ ChildsTurn /\ ChildGoesOn
  BY <1>2 DEF SwitchInit, ParentsTurn, ChildsTurn, ChildGoesOn, Early
<1> QED BY <1>3, <1>4, <1>5, <1>6 DEF SInv

\* A process that ends, for whatever reason, lets nobody else down: what is true of
\* the messages does not depend on it.  A child that has measured with an old time
\* ends by a signal only.
LEMMA EndSInv ==
  ASSUME SInv, NEW p \in Sides, NEW from, NEW how \in Gone, Ends(p, from, how),
         from \notin Gone \cup {"unborn"},
         stale /\ p = "child" => how = "killed",
         UNCHANGED <<total, pipes, local, stale>>
  PROVE  SInv'
<1> USE DEF SInv
<1>1. /\ at[p] = from /\ at' = [at EXCEPT ![p] = how] /\ fds' = [fds EXCEPT ![p] = {}]
      /\ total' = total /\ pipe1' = pipe1 /\ pipe2' = pipe2 /\ tryc' = tryc
      /\ start' = start /\ stale' = stale
  BY DEF Ends, Goes, pipes, local
<1>2. /\ at'[p] = how /\ fds'[p] = {}
      /\ \A q \in Sides \ {p} : at'[q] = at[q] /\ fds'[q] = fds[q]
  BY <1>1 DEF Places
<1>3. "parent" \in Sides /\ "child" \in Sides /\ (p = "parent" \/ p = "child") BY DEF Sides
<1>4. Gone = {"exited", "killed"} BY DEF Gone
<1>5. Places' BY <1>1, <1>2, <1>3, <1>4 DEF Places, Early
<1>6. Descriptors' BY <1>2, <1>3, <1>4 DEF Descriptors, Early, InLoop
<1>7. OnTheWay' BY <1>1, <1>2, <1>3, <1>4 DEF OnTheWay
<1>8. ParentsTurn' BY <1>1, <1>2, <1>3, <1>4 DEF ParentsTurn, Early
<1>9. ChildsTurn' BY <1>1, <1>2, <1>3, <1>4 DEF ChildsTurn
<1>10. ChildGoesOn' BY <1>1, <1>2, <1>3, <1>4 DEF ChildGoesOn
<1> QED BY <1>5, <1>6, <1>7, <1>8, <1>9, <1>10

\* The two calls of pipe, and fork.
LEMMA StartSInv ==
  ASSUME SInv,
         Pipe("pipe", {"r1", "w1"}, "pipe2") \/ Pipe("pipe2", {"r2", "w2"}, "fork") \/ Fork
  PROVE  SInv'
<1> USE DEF SInv
<1>0. /\ "parent" \in Sides /\ "child" \in Sides /\ Sides = {"parent", "child"}
      /\ Gone = {"exited", "killed"}
      /\ UNCHANGED <<total, pipes, local, killed, stale>>
      /\ at["parent"] \in {"pipe", "pipe2", "fork"} /\ at["child"] = "unborn"
  BY DEF Pipe, Fork, Sides, Gone, Goes, Ends, Places
<1>1. total' = total /\ pipe1' = pipe1 /\ pipe2' = pipe2 /\ tryc' = tryc /\ start' = start
      /\ stale' = stale
  BY <1>0 DEF pipes, local
<1>2. CASE \E from \in {"pipe", "pipe2", "fork"} : Ends("parent", from, "exited")
  BY <1>0, <1>2, EndSInv
<1>3. CASE \/ /\ at["parent"] = "pipe" /\ at' = [at EXCEPT !["parent"] = "pipe2"]
              /\ fds' = [fds EXCEPT !["parent"] = @ \cup {"r1", "w1"}]
           \/ /\ at["parent"] = "pipe2" /\ at' = [at EXCEPT !["parent"] = "fork"]
              /\ fds' = [fds EXCEPT !["parent"] = @ \cup {"r2", "w2"}]
  <2>1. /\ at'["child"] = "unborn" /\ at'["parent"] \in {"pipe2", "fork"}
        /\ fds'["child"] = fds["child"] /\ "w1" \in fds'["parent"]
        /\ at'["parent"] = "fork" => "w2" \in fds'["parent"]
    BY <1>0, <1>3 DEF Places, Descriptors
  <2>2. Places' BY <1>0, <1>1, <1>3, <2>1 DEF Places, Ends4
  <2>3. Descriptors' BY <1>0, <2>1 DEF Descriptors, Early, InLoop
  <2>4. OnTheWay' /\ ParentsTurn' /\ ChildsTurn' /\ ChildGoesOn'
    BY <1>0, <1>1, <2>1 DEF OnTheWay, ParentsTurn, ChildsTurn, ChildGoesOn, Early
  <2> QED BY <2>2, <2>3, <2>4
<1>4. CASE /\ at["parent"] = "fork" /\ at' = [p \in Sides |-> "close1"]
           /\ fds' = [p \in Sides |-> fds["parent"]]
  <2>1. /\ at'["child"] = "close1" /\ at'["parent"] = "close1"
        /\ fds'["child"] = fds["parent"] /\ fds'["parent"] = fds["parent"]
        /\ "w1" \in fds["parent"] /\ "w2" \in fds["parent"] /\ fds["parent"] \subseteq Ends4
    BY <1>0, <1>4 DEF Places, Descriptors
  <2>2. Places' BY <1>0, <1>1, <1>4, <2>1 DEF Places, Early
  <2>3. Descriptors' BY <1>0, <2>1 DEF Descriptors, Early, InLoop
  <2>4. OnTheWay' /\ ParentsTurn' /\ ChildsTurn' /\ ChildGoesOn'
    BY <1>0, <1>1, <2>1 DEF OnTheWay, ParentsTurn, ChildsTurn, ChildGoesOn, Early
  <2> QED BY <2>2, <2>3, <2>4
<1> QED BY <1>2, <1>3, <1>4 DEF Pipe, Fork, Goes

\* Closing the unused ends, and the loop's test.
LEMMA CloseTestSInv ==
  ASSUME SInv, NEW p \in Sides, Close(p) \/ Test(p)
  PROVE  SInv'
<1> USE DEF SInv
<1>0. /\ "parent" \in Sides /\ "child" \in Sides /\ (p = "parent" \/ p = "child")
      /\ Gone = {"exited", "killed"}
      /\ UNCHANGED <<total, pipes, local, killed, stale>>
  BY DEF Close, Test, Sides, Gone
<1>1. total' = total /\ pipe1' = pipe1 /\ pipe2' = pipe2 /\ tryc' = tryc /\ start' = start
      /\ stale' = stale
  BY <1>0 DEF pipes, local
<1>2. CASE Ends(p, "test", "exited")
  <2>1. ~(stale /\ p = "child") BY <1>2 DEF ChildGoesOn, Ends, Goes
  <2> QED BY <1>0, <1>2, <2>1, EndSInv
<1>3. CASE Close(p)
  <2>1. /\ (at[p] = "close1" /\ at'[p] = "close2") \/ (at[p] = "close2" /\ at'[p] = "test")
        /\ fds'[p] = fds[p] \ {Unused(p, at[p])}
        /\ \A q \in Sides \ {p} : at'[q] = at[q] /\ fds'[q] = fds[q]
    BY <1>3 DEF Close, Goes, Places
  <2>2. Places' BY <1>0, <1>1, <1>3, <2>1 DEF Places, Close, Goes, Early
  <2>3. /\ Unused("parent", "close1") = "r1" /\ Unused("parent", "close2") = "w2"
        /\ Unused("child", "close1") = "w1" /\ Unused("child", "close2") = "r2"
    BY DEF Unused
  <2>4. Descriptors' BY <1>0, <2>1, <2>3 DEF Descriptors, Early, InLoop
  <2>5. OnTheWay' /\ ParentsTurn' /\ ChildGoesOn'
    BY <1>0, <1>1, <2>1 DEF OnTheWay, ParentsTurn, ChildGoesOn, Early
  <2>6. ChildsTurn' BY <1>0, <1>1, <2>1 DEF ChildsTurn, Early
  <2> QED BY <2>2, <2>4, <2>5, <2>6
<1>4. CASE /\ tryc[p] <= total /\ UNCHANGED fds
           /\ Goes(p, "test", IF p = "parent" THEN "write" ELSE "read")
  <2>1. /\ at[p] = "test" /\ at'[p] = (IF p = "parent" THEN "write" ELSE "read")
        /\ fds' = fds
        /\ \A q \in Sides \ {p} : at'[q] = at[q]
    BY <1>4 DEF Goes, Places
  <2>2. Places' BY <1>0, <1>1, <1>4, <2>1 DEF Places, Goes
  <2>3. Descriptors' BY <1>0, <2>1 DEF Descriptors, Early, InLoop
  <2>4. OnTheWay' /\ ParentsTurn' /\ ChildGoesOn'
    BY <1>0, <1>1, <1>4, <2>1 DEF OnTheWay, ParentsTurn, ChildGoesOn, Early
  <2>5. ChildsTurn' BY <1>0, <1>1, <2>1 DEF ChildsTurn, Early
  <2> QED BY <2>2, <2>3, <2>4, <2>5
<1> QED BY <1>2, <1>3, <1>4 DEF Test

\* A process writes while the other, if it is there, waits.
LEMMA WriteSInv ==
  ASSUME SInv, ParentWrites \/ ChildWrites
  PROVE  SInv'
<1> USE DEF SInv
<1>0. /\ "parent" \in Sides /\ "child" \in Sides /\ Sides = {"parent", "child"}
      /\ Gone = {"exited", "killed"}
  BY DEF Sides, Gone
<1>1. CASE ParentWrites
  <2>1. /\ at["parent"] = "write" /\ at' = [at EXCEPT !["parent"] = "read"]
        /\ start' = [start EXCEPT !["parent"] = @ + 1]
        /\ pipe1' = Append(pipe1, start'["parent"]) /\ Open("r1")
        /\ total' = total /\ fds' = fds /\ pipe2' = pipe2 /\ tryc' = tryc /\ stale' = stale
    BY <1>1 DEF ParentWrites, Goes
  <2>2. at["child"] \notin Gone
    BY <1>0, <2>1 DEF Open, Descriptors, InLoop
  <2>3. /\ pipe1 = <<>> /\ pipe2 = <<>> /\ at["child"] \in Early \cup {"read"}
        /\ tryc["child"] = tryc["parent"] /\ start["parent"] = tryc["parent"] - 1
    BY <2>1, <2>2 DEF ParentsTurn
  <2>4. /\ at'["parent"] = "read" /\ at'["child"] = at["child"]
        /\ start'["parent"] = start["parent"] + 1 /\ start'["child"] = start["child"]
        /\ tryc["parent"] \in 1..(total + 1)
    BY <1>0, <2>1 DEF Places
  <2>5. start'["parent"] = tryc["parent"] /\ pipe1' = <<start'["parent"]>>
    <3>1. start["parent"] \in Int BY <1>0 DEF Places
    <3> QED BY <2>1, <2>3, <2>4, <3>1
  <2>6. Places'
    <3>1. start' \in [Sides -> 0..(total + 1)]
      BY <1>0, <2>1, <2>4, <2>5 DEF Places
    <3> QED BY <1>0, <2>1, <2>4, <3>1 DEF Places
  <2>7. Descriptors' BY <1>0, <2>1, <2>4 DEF Descriptors, Early, InLoop
  <2>8. OnTheWay' BY <2>1, <2>3, <2>4, <2>5 DEF OnTheWay, Early
  <2>9. ParentsTurn' /\ ChildGoesOn'
    BY <1>0, <2>1, <2>4 DEF ParentsTurn, ChildGoesOn, Early
  <2>10. ChildsTurn' BY <2>1, <2>3, <2>4, <2>5 DEF ChildsTurn, Early
  <2> QED BY <2>6, <2>7, <2>8, <2>9, <2>10
<1>2. CASE ChildWrites
  <2>1. /\ at["child"] = "write" /\ at' = [at EXCEPT !["child"] = "test"]
        /\ pipe2' = Append(pipe2, tryc["child"]) /\ Open("r2")
        /\ total' = total /\ fds' = fds /\ pipe1' = pipe1 /\ tryc' = tryc /\ start' = start
        /\ stale' = stale
    BY <1>2 DEF ChildWrites, Goes, local
  <2>2. at["parent"] = "read"
    <3>1. at["parent"] \notin Gone BY <1>0, <2>1 DEF Open, Descriptors, InLoop
    <3>2. at["parent"] \notin Early \cup {"write"}
      BY <1>0, <2>1 DEF ParentsTurn, Early
    <3> QED BY <1>0, <2>1, <3>1, <3>2 DEF Places
  <2>3. pipe1 = <<>> /\ pipe2 = <<>> /\ tryc["child"] = start["parent"] + 1
    BY <1>0, <2>1, <2>2 DEF ChildsTurn, Early
  <2>4. /\ at'["child"] = "test" /\ at'["parent"] = "read"
        /\ pipe2' = <<tryc["child"]>> /\ tryc["child"] \in 1..(total + 1)
    BY <1>0, <2>1, <2>2, <2>3 DEF Places
  <2>5. Places' BY <1>0, <2>1, <2>2, <2>4 DEF Places, Early
  <2>6. Descriptors' BY <1>0, <2>1, <2>2, <2>4 DEF Descriptors, Early, InLoop
  <2>7. OnTheWay' BY <2>1, <2>3, <2>4 DEF OnTheWay
  <2>8. ParentsTurn' /\ ChildGoesOn'
    BY <1>0, <2>1, <2>2, <2>4 DEF ParentsTurn, ChildGoesOn, Early
  <2>9. ChildsTurn' BY <2>1, <2>3, <2>4 DEF ChildsTurn
  <2> QED BY <2>5, <2>6, <2>7, <2>8, <2>9
<1> QED BY <1>1, <1>2

\* The parent reads the child's answer; without one the child has gone.
LEMMA ParentReadSInv ==
  ASSUME SInv, ParentReads
  PROVE  SInv'
<1> USE DEF SInv
<1>0. /\ "parent" \in Sides /\ "child" \in Sides /\ Sides = {"parent", "child"}
      /\ Gone = {"exited", "killed"}
  BY DEF Sides, Gone
<1>1. /\ at["parent"] = "read" /\ at' = [at EXCEPT !["parent"] = "test"]
      /\ total' = total /\ fds' = fds /\ pipe1' = pipe1 /\ start' = start /\ stale' = stale
  BY DEF ParentReads, Goes
<1>2. at'["parent"] = "test" /\ at'["child"] = at["child"] /\ at["child"] # "unborn"
  BY <1>0, <1>1 DEF Places
<1>3. Descriptors' BY <1>0, <1>1, <1>2 DEF Descriptors, Early, InLoop
<1>4. CASE pipe2 # <<>> /\ tryc' = [tryc EXCEPT !["parent"] = Head(pipe2)] /\ pipe2' = Tail(pipe2)
  <2>1. /\ pipe1 = <<>> /\ pipe2 = <<tryc["child"]>> /\ tryc["child"] = start["parent"] + 1
        /\ at["child"] \in {"test", "read"} \cup Gone
    BY <1>1, <1>4 DEF ChildsTurn, OnTheWay
  <2>2. /\ tryc'["parent"] = tryc["child"] /\ tryc'["child"] = tryc["child"] /\ pipe2' = <<>>
        /\ start["parent"] \in Int
    BY <1>0, <1>4, <2>1 DEF Places
  <2>3. Places' BY <1>0, <1>1, <1>2, <1>4, <2>1 DEF Places, Early
  <2>4. OnTheWay' BY <1>1, <1>2, <2>1, <2>2 DEF OnTheWay
  <2>5. ParentsTurn' BY <1>1, <1>2, <2>1, <2>2 DEF ParentsTurn, Early
  <2>6. ChildsTurn' /\ ChildGoesOn'
    BY <1>0, <1>1, <1>2, <2>2 DEF ChildsTurn, ChildGoesOn
  <2> QED BY <1>3, <2>3, <2>4, <2>5, <2>6
<1>5. CASE pipe2 = <<>> /\ ~Open("w2") /\ UNCHANGED <<tryc, pipe2>>
  <2>1. at["child"] \in Gone
    BY <1>0, <1>2, <1>5 DEF Open, Descriptors, Places, Early, InLoop
  <2>2. Places' BY <1>0, <1>1, <1>2, <1>5 DEF Places, Early
  <2>3. OnTheWay' BY <1>1, <1>2, <1>5 DEF OnTheWay
  <2>4. ParentsTurn' /\ ChildsTurn' /\ ChildGoesOn'
    BY <1>0, <1>1, <1>2, <1>5, <2>1 DEF ParentsTurn, ChildsTurn, ChildGoesOn
  <2> QED BY <1>3, <2>2, <2>3, <2>4
<1> QED BY <1>4, <1>5 DEF ParentReads

\* The child reads the parent's last time; without a message the parent has gone.
LEMMA ChildReadSInv ==
  ASSUME SInv, ChildReads
  PROVE  SInv'
<1> USE DEF SInv
<1>0. /\ "parent" \in Sides /\ "child" \in Sides /\ Sides = {"parent", "child"}
      /\ Gone = {"exited", "killed"}
  BY DEF Sides, Gone
<1>1. /\ at["child"] = "read" /\ at' = [at EXCEPT !["child"] = "write"]
      /\ tryc' = [tryc EXCEPT !["child"] = @ + 1]
      /\ total' = total /\ fds' = fds /\ pipe2' = pipe2
  BY DEF ChildReads, Goes
<1>2. /\ at'["child"] = "write" /\ at'["parent"] = at["parent"]
      /\ at["parent"] \notin {"pipe", "pipe2", "fork"}
      /\ tryc'["child"] = tryc["child"] + 1 /\ tryc'["parent"] = tryc["parent"]
      /\ tryc["child"] \in 1..(total + 1) /\ tryc["child"] <= total /\ total \in Nat
  BY <1>0, <1>1 DEF Places, ChildGoesOn
<1>3. tryc' \in [Sides -> 1..(total + 1)] BY <1>0, <1>1, <1>2 DEF Places
<1>4. Descriptors' BY <1>0, <1>1, <1>2 DEF Descriptors, Early, InLoop
<1>5. ~stale BY <1>1 DEF ChildGoesOn
<1>6. CASE /\ pipe1 # <<>> /\ start' = [start EXCEPT !["child"] = Head(pipe1)]
           /\ pipe1' = Tail(pipe1) /\ stale' = (stale \/ Head(pipe1) # start["parent"])
  <2>1. pipe1 = <<start["parent"]>> /\ pipe2 = <<>> BY <1>6 DEF OnTheWay
  <2>2. ~stale' /\ pipe1' = <<>> /\ pipe2' = <<>> /\ Head(pipe1) = start["parent"]
    <3>1. Head(pipe1) = start["parent"] /\ Tail(pipe1) = <<>> BY <2>1
    <3>2. ~stale' BY <1>5, <1>6, <3>1, Zenon
    <3> QED BY <1>1, <1>6, <2>1, <3>1, <3>2
  <2>3. start'["parent"] = start["parent"] /\ start["parent"] \in 0..(total + 1)
    BY <1>0, <1>6 DEF Places
  <2>4. start' \in [Sides -> 0..(total + 1)]
    BY <1>6, <2>2, <2>3 DEF Places
  <2>5. Places' BY <1>0, <1>1, <1>2, <1>3, <2>4 DEF Places
  <2>6. OnTheWay' BY <1>2, <2>2 DEF OnTheWay
  <2>7. ParentsTurn' BY <1>0, <1>1, <1>2, <1>6 DEF ParentsTurn
  <2>8. ChildsTurn' BY <1>0, <1>1, <1>2, <1>6, <2>2, <2>3 DEF ChildsTurn
  <2>9. ChildGoesOn' BY <1>2, <2>2 DEF ChildGoesOn
  <2> QED BY <1>4, <2>5, <2>6, <2>7, <2>8, <2>9
<1>7. CASE pipe1 = <<>> /\ ~Open("w1") /\ stale' = TRUE /\ UNCHANGED <<start, pipe1>>
  <2>1. at["parent"] \in Gone
    BY <1>0, <1>2, <1>7 DEF Open, Descriptors, Places, Early, InLoop
  <2>2. Places' BY <1>0, <1>1, <1>2, <1>3, <1>7 DEF Places
  <2>3. OnTheWay' BY <1>1, <1>2, <1>7 DEF OnTheWay
  <2>4. ParentsTurn' /\ ChildsTurn' /\ ChildGoesOn'
    BY <1>0, <1>2, <2>1 DEF ParentsTurn, ChildsTurn, ChildGoesOn, Early
  <2> QED BY <1>4, <2>2, <2>3, <2>4
<1> QED BY <1>6, <1>7 DEF ChildReads

\* Every step of the two processes, and a kill at any moment, keeps it.
LEMMA SwitchNextSInv == SInv /\ [SwitchNext]_switchVars => SInv'
<1> SUFFICES ASSUME SInv, [SwitchNext]_switchVars PROVE SInv'
  OBVIOUS
<1>0. "parent" \in Sides /\ "child" \in Sides /\ "killed" \in Gone /\ "write" \notin Gone
  BY DEF Sides, Gone
<1>1. CASE \E p \in Sides, end \in {"r1", "r2"} : Sigpipe(p, end)
  <2>1. PICK p \in Sides, end \in {"r1", "r2"} : Sigpipe(p, end) BY <1>1
  <2>2. Ends(p, "write", "killed") /\ UNCHANGED <<total, pipes, local, stale>>
    BY <2>1 DEF Sigpipe
  <2> QED BY <1>0, <2>2, EndSInv
<1>2. CASE \E p \in Sides : Kill(p)
  <2>1. PICK p \in Sides : Kill(p) BY <1>2
  <2>2. /\ Ends(p, at[p], "killed") /\ UNCHANGED <<total, pipes, local, stale>>
        /\ at[p] \notin Gone \cup {"unborn"}
    BY <2>1 DEF Kill
  <2> QED BY <1>0, <2>2, EndSInv
<1>3. CASE UNCHANGED switchVars
  <2>1. /\ total' = total /\ at' = at /\ fds' = fds /\ pipe1' = pipe1 /\ pipe2' = pipe2
        /\ tryc' = tryc /\ start' = start /\ stale' = stale
    BY <1>3 DEF switchVars, pipes, local
  <2> QED BY <2>1 DEF SInv, Places, Descriptors, OnTheWay, ParentsTurn, ChildsTurn, ChildGoesOn
<1>4. CASE ParentStep
  BY <1>0, <1>1, <1>4, StartSInv, CloseTestSInv, WriteSInv, ParentReadSInv DEF ParentStep
<1>5. CASE ChildStep
  BY <1>0, <1>1, <1>5, CloseTestSInv, WriteSInv, ChildReadSInv DEF ChildStep
<1> QED BY <1>2, <1>3, <1>4, <1>5 DEF SwitchNext

\* The inductive invariant holds in every reachable state.
LEMMA SwitchInvariance == SwitchSpec => []SInv
  BY SwitchInitSInv, SwitchNextSInv, PTL DEF SwitchSpec

\* Parent and child of CntxtSwitchTestForLinux.c take turns: there is never more than
\* one message in the two pipes, for any number of tries and whoever is killed.
THEOREM SwitchTypeCorrect == SwitchSpec => []SwitchTypeOK
<1>1. ASSUME SInv PROVE SwitchTypeOK
  <2>1. Len(pipe1) + Len(pipe2) <= 1
    <3>1. pipe1 = <<>> => Len(pipe1) = 0 OBVIOUS
    <3>2. pipe1 = <<start["parent"]>> => Len(pipe1) = 1 OBVIOUS
    <3>3. pipe2 = <<>> => Len(pipe2) = 0 OBVIOUS
    <3>4. \A n \in 1..(total + 1) : pipe2 = <<n>> => Len(pipe2) = 1 OBVIOUS
    <3>5. Len(pipe1) \in {0, 1} /\ Len(pipe2) \in {0, 1}
      BY <1>1, <3>1, <3>2, <3>3, <3>4 DEF SInv, OnTheWay
    <3>6. Len(pipe1) = 0 \/ Len(pipe2) = 0 BY <1>1, <3>1, <3>3 DEF SInv, OnTheWay
    <3> DEFINE a == Len(pipe1)
               b == Len(pipe2)
    <3>7. (a = 0 \/ a = 1) /\ (b = 0 \/ b = 1) /\ (a = 0 \/ b = 0) BY <3>5, <3>6
    <3> HIDE DEF a, b
    <3>8. a + b <= 1 BY <3>7
    <3> QED BY <3>8 DEF a, b
  <2> QED BY <1>1, <2>1 DEF SInv, Places, SwitchTypeOK, Ends4, Early
<1> QED BY <1>1, SwitchInvariance, PTL

\* The child gets as far as its printf only if every time it measured with was the
\* parent's last: once it has missed one, its next write ends it.
THEOREM AveragesAreHonest == SwitchSpec => []AverageIsHonest
<1>1. SInv => AverageIsHonest BY DEF SInv, ChildGoesOn, AverageIsHonest
<1> QED BY <1>1, SwitchInvariance, PTL

-----------------------------------------------------------------------------
(***************************************************************************)
(* The TLB test.                                                           *)
(***************************************************************************)
Offsets == Range(PageStarts)
Slots == 0..(size - 1)

\* index lists each offset once.
OneToOne ==
  /\ index \in [Slots -> Offsets]
  /\ \A m, n \in Slots : index[m] = index[n] => m = n

\* What the visits have added to the ints: done in the tries before, and one more at
\* the places this try has passed.
Visited(done, passed) ==
  /\ arr \in [Offsets -> Int]
  /\ \A m \in 0..(PAGENUMS - 1) :
       arr[index[m]] = index[m] + done + (IF m < passed THEN 1 ELSE 0)
  /\ \A o \in Offsets : (\A m \in 0..(PAGENUMS - 1) : index[m] # o) => arr[o] = o

\* The inductive invariant of the TLB test.
TInv ==
  /\ USE_MEM \in Nat /\ PAGENUMS \in Nat \ {0} /\ j \in Nat
  /\ loc = "malloc" => j = 0
  /\ loc \in {"shuffle", "visit", "return"} => OneToOne
  /\ loc = "shuffle" => /\ i \in Slots /\ j = 0
                        /\ arr \in [Offsets -> Int] /\ \A o \in Offsets : arr[o] = o
  /\ loc = "visit" => i \in 0..PAGENUMS /\ j < TRYTIMES /\ Visited(j, i)
  /\ loc = "return" => Visited(TRYTIMES, 0)

\* There is a place in index for every page visited.
LEMMA SizeFact ==
  ASSUME USE_MEM \in Nat, PAGENUMS \in Nat \ {0}
  PROVE  /\ size \in Nat \ {0} /\ size >= PAGENUMS
         /\ 0..(PAGENUMS - 1) \subseteq Slots /\ Slots \subseteq Nat
<1>1. size \in Nat \ {0} /\ size >= PAGENUMS BY DEF size
<1> QED BY <1>1 DEF Slots

\* Two pages do not begin at the same offset.
LEMMA PagesApart ==
  ASSUME USE_MEM \in Nat, PAGENUMS \in Nat \ {0}
  PROVE  /\ PageStarts \in [Slots -> Offsets] /\ Offsets \subseteq Int
         /\ \A m, n \in Slots : PageStarts[m] = PageStarts[n] => m = n
<1>1. \A m \in Slots : PageStarts[m] = m * jump /\ m \in Nat
  BY SizeFact DEF PageStarts, Slots
<1>2. jump \in Nat \ {0} BY TlbAssumption
<1>3. DOMAIN PageStarts = Slots BY DEF PageStarts, Slots
<1>4. PageStarts \in [Slots -> Offsets] BY <1>3 DEF Offsets, Range, PageStarts, Slots
<1>5. Offsets \subseteq Int
  <2>1. \A m \in Nat : m * jump \in Int BY <1>2
  <2> QED BY <1>1, <1>3, <2>1 DEF Offsets, Range
<1>6. \A m, n \in Nat : m * jump = n * jump => m = n
  <2> SUFFICES ASSUME NEW m \in Nat, NEW n \in Nat, m < n PROVE m * jump < n * jump
    BY <1>2
  <2>1. n * jump = m * jump + (n - m) * jump BY <1>2
  <2>2. (n - m) * jump > 0 BY <1>2
  <2> QED BY <1>2, <2>1, <2>2
<1> QED BY <1>1, <1>4, <1>5, <1>6

\* A swap keeps every offset in the list, and none twice.
LEMMA SwapOneToOne ==
  ASSUME OneToOne, NEW m \in Slots, NEW n \in Slots, index' = Swap(index, m, n), size' = size,
         Offsets' = Offsets
  PROVE  OneToOne'
<1>1. /\ index' \in [Slots -> Offsets]
      /\ \A k \in Slots : index'[k] = IF k = n THEN index[m]
                                      ELSE IF k = m THEN index[n] ELSE index[k]
  BY DEF OneToOne, Swap
<1>2. Slots' = Slots BY DEF Slots
<1> QED BY <1>1, <1>2 DEF OneToOne

\* Each part of tlb keeps it.
LEMMA TlbNextTInv == TInv /\ [TlbNext]_tlbVars => TInv'
<1> SUFFICES ASSUME TInv, [TlbNext]_tlbVars PROVE TInv'
  OBVIOUS
<1> USE DEF TInv
<1>0. /\ USE_MEM' = USE_MEM /\ PAGENUMS' = PAGENUMS
      /\ size' = size /\ Slots' = Slots /\ PageStarts' = PageStarts /\ Offsets' = Offsets
  <2>1. USE_MEM' = USE_MEM /\ PAGENUMS' = PAGENUMS
    BY DEF TlbNext, tlbVars, Allocate, Shuffle, ShuffleDone, Visit, TryDone
  <2>2. size' = size BY <2>1 DEF size
  <2> QED BY <2>1, <2>2 DEF Slots, PageStarts, Offsets
<1>1. CASE Allocate
  <2>1. CASE loc' = "shuffle" /\ index' = PageStarts /\ arr' = [o \in Offsets |-> o] /\ i' = size - 1
    <3>1. OneToOne' BY <1>0, <2>1, PagesApart DEF OneToOne
    <3>2. i' \in Slots BY <2>1, SizeFact DEF Slots
    <3>3. arr' \in [Offsets -> Int] /\ \A o \in Offsets : arr'[o] = o
      BY <2>1, PagesApart
    <3> QED BY <1>0, <1>1, <2>1, <3>1, <3>2, <3>3 DEF Allocate
  <2>2. CASE loc' = "failed" BY <1>0, <1>1, <2>2 DEF Allocate
  <2> QED BY <1>1, <2>1, <2>2 DEF Allocate, Offsets
<1>2. CASE Shuffle
  <2>1. PICK c \in 0..i : index' = Swap(index, i, c) BY <1>2 DEF Shuffle, RandMod
  <2>2. c \in Slots /\ i \in Slots /\ i > 0 BY <1>2, SizeFact DEF Shuffle, Slots
  <2>3. OneToOne' BY <1>0, <1>2, <2>1, <2>2, SwapOneToOne DEF Shuffle
  <2>4. i' \in Slots BY <1>2, <2>2, SizeFact DEF Shuffle, Slots
  <2> QED BY <1>0, <1>2, <2>3, <2>4 DEF Shuffle
<1>3. CASE ShuffleDone
  <2>1. /\ loc' = "visit" /\ i' = 0 /\ index' = index /\ arr' = arr /\ j' = j /\ j = 0
        /\ OneToOne /\ arr \in [Offsets -> Int] /\ \A o \in Offsets : arr[o] = o
    BY <1>3 DEF ShuffleDone, FirstVisit
  <2>2. \A m \in 0..(PAGENUMS - 1) : index[m] \in Offsets /\ index[m] \in Int
    BY <2>1, SizeFact, PagesApart DEF OneToOne
  <2>3. Visited(j, i)' BY <1>0, <2>1, <2>2 DEF Visited
  <2>4. OneToOne' BY <1>0, <2>1 DEF OneToOne
  <2> QED BY <1>0, <2>1, <2>3, <2>4, TlbAssumption
<1>4. CASE Visit
  <2>1. /\ loc = "visit" /\ loc' = "visit" /\ i \in 0..(PAGENUMS - 1) /\ i' = i + 1
        /\ index' = index /\ j' = j
        /\ arr' = [arr EXCEPT ![index[i]] = @ + 1]
        /\ OneToOne /\ Visited(j, i)
    BY <1>4 DEF Visit
  <2>2. \A m \in 0..(PAGENUMS - 1) : index[m] \in Offsets /\ index[m] \in Int
    BY <2>1, SizeFact, PagesApart DEF OneToOne
  <2>3. \A m \in 0..(PAGENUMS - 1) : index[m] = index[i] => m = i
    BY <2>1, SizeFact DEF OneToOne
  <2>4. arr' \in [Offsets -> Int] BY <2>1, <2>2 DEF Visited
  <2>5. \A m \in 0..(PAGENUMS - 1) :
          arr'[index[m]] = index[m] + j + (IF m < i + 1 THEN 1 ELSE 0)
    <3> SUFFICES ASSUME NEW m \in 0..(PAGENUMS - 1)
                 PROVE  arr'[index[m]] = index[m] + j + (IF m < i + 1 THEN 1 ELSE 0)
      OBVIOUS
    <3>1. arr[index[m]] = index[m] + j + (IF m < i THEN 1 ELSE 0) BY <2>1 DEF Visited
    <3>2. CASE m = i
      <4>1. arr'[index[m]] = arr[index[m]] + 1 BY <2>1, <2>2, <3>2 DEF Visited
      <4> QED BY <2>2, <3>1, <3>2, <4>1
    <3>3. CASE m # i
      <4>1. arr'[index[m]] = arr[index[m]] BY <2>1, <2>2, <2>3, <3>3 DEF Visited
      <4>2. m < i <=> m < i + 1 BY <2>1, <3>3
      <4> QED BY <3>1, <4>1, <4>2
    <3> QED BY <3>2, <3>3
  <2>6. \A o \in Offsets : (\A m \in 0..(PAGENUMS - 1) : index[m] # o) => arr'[o] = o
    BY <2>1 DEF Visited
  <2>7. Visited(j, i)' BY <1>0, <2>1, <2>4, <2>5, <2>6 DEF Visited
  <2>8. OneToOne' BY <1>0, <2>1 DEF OneToOne
  <2> QED BY <1>0, <2>1, <2>7, <2>8
<1>5. CASE TryDone
  <2>1. /\ loc = "visit" /\ i \in 0..PAGENUMS /\ i >= PAGENUMS /\ j' = j + 1
        /\ index' = index /\ arr' = arr
        /\ OneToOne /\ Visited(j, i)
    BY <1>5 DEF TryDone
  <2>2. \A m \in 0..(PAGENUMS - 1) : index[m] \in Int
    BY <2>1, SizeFact, PagesApart DEF OneToOne
  <2>3. \A m \in 0..(PAGENUMS - 1) : arr[index[m]] = index[m] + (j + 1) + 0
    <3> SUFFICES ASSUME NEW m \in 0..(PAGENUMS - 1) PROVE arr[index[m]] = index[m] + (j + 1) + 0
      OBVIOUS
    <3>1. m < i BY <2>1
    <3>2. arr[index[m]] = index[m] + j + 1 BY <2>1, <3>1 DEF Visited
    <3> QED BY <2>2, <3>2
  <2>4. Visited(j + 1, 0) BY <2>1, <2>3 DEF Visited
  <2>5. OneToOne' BY <1>0, <2>1 DEF OneToOne
  <2>6. CASE j' < TRYTIMES
    <3>1. loc' = "visit" /\ i' = 0 BY <1>5, <2>1, <2>6 DEF TryDone, FirstVisit
    <3>2. Visited(j, i)' BY <1>0, <2>1, <2>4, <3>1 DEF Visited
    <3> QED BY <1>0, <2>1, <2>5, <2>6, <3>1, <3>2
  <2>7. CASE ~(j' < TRYTIMES)
    <3>1. loc' = "return" BY <1>5, <2>7 DEF TryDone
    <3>2. j + 1 = TRYTIMES BY <2>1, <2>7, TlbAssumption
    <3>3. Visited(TRYTIMES, 0)' BY <1>0, <2>1, <2>4, <3>2 DEF Visited
    <3> QED BY <1>0, <2>1, <2>5, <3>1, <3>3
  <2> QED BY <2>6, <2>7
<1>6. CASE UNCHANGED tlbVars
  <2>1. loc' = loc /\ index' = index /\ arr' = arr /\ i' = i /\ j' = j BY <1>6 DEF tlbVars
  <2>2. OneToOne' <=> OneToOne BY <1>0, <2>1 DEF OneToOne
  <2>3. (Visited(j, i)' <=> Visited(j, i)) /\ (Visited(TRYTIMES, 0)' <=> Visited(TRYTIMES, 0))
    BY <1>0, <2>1 DEF Visited
  <2> QED BY <1>0, <2>1, <2>2, <2>3
<1> QED BY <1>1, <1>2, <1>3, <1>4, <1>5, <1>6 DEF TlbNext

\* What TLBtest.c divides by is the number of pages visited: each try of tlb visits
\* PAGENUMS different pages once and touches no other, for any memory size, number
\* of pages and tries, and in whatever order shuffle leaves index.
THEOREM PagesVisitedOnce == TlbSpec => []EachPageOnce
<1>1. TlbInit => TInv BY TlbAssumption DEF TlbInit, TInv
<1>2. ASSUME TInv PROVE EachPageOnce
  <2> SUFFICES ASSUME loc = "return"
               PROVE  LET visited == {o \in DOMAIN arr : arr[o] # o}
                      IN  /\ Cardinality(visited) = PAGENUMS
                          /\ \A o \in visited : arr[o] = o + TRYTIMES
    BY DEF EachPageOnce
  <2> DEFINE visited == {o \in DOMAIN arr : arr[o] # o}
             P == 0..(PAGENUMS - 1)
             f == [m \in P |-> index[m]]
  <2>0. PAGENUMS \in Nat \ {0} /\ USE_MEM \in Nat BY <1>2 DEF TInv
  <2>1. OneToOne /\ Visited(TRYTIMES, 0) BY <1>2 DEF TInv
  <2>2. \A m \in P : index[m] \in Offsets /\ index[m] \in Int
    BY <2>0, <2>1, SizeFact, PagesApart DEF OneToOne
  <2>3. \A m \in P : arr[index[m]] = index[m] + TRYTIMES
    <3>1. \A m \in P : arr[index[m]] = index[m] + TRYTIMES + 0
      BY <2>1 DEF Visited
    <3> QED BY <2>2, <3>1, TlbAssumption
  <2>4. \A m \in P : index[m] \in visited
    BY <2>1, <2>2, <2>3, TlbAssumption DEF Visited
  <2>5. \A o \in visited : \E m \in P : index[m] = o BY <2>1 DEF Visited
  <2>6. f \in Bijection(P, visited)
    <3>1. f \in [P -> visited] BY <2>4
    <3>2. \A a, b \in P : f[a] = f[b] => a = b BY <2>0, <2>1, SizeFact DEF OneToOne
    <3>3. \A o \in visited : \E a \in P : f[a] = o BY <2>5
    <3> QED BY <3>1, <3>2, <3>3 DEF Bijection, Injection, Surjection, IsInjective
  <2>7. IsFiniteSet(P) /\ Cardinality(P) = PAGENUMS BY <2>0, FS_Interval
  <2>8. Cardinality(visited) = PAGENUMS
    <3>1. ExistsBijection(P, visited) BY <2>6, Zenon DEF ExistsBijection
    <3> HIDE DEF P, visited
    <3> QED BY <2>7, <3>1, FS_Bijection
  <2> QED BY <2>3, <2>5, <2>8
<1> QED BY <1>1, <1>2, TlbNextTInv, PTL DEF TlbSpec

-----------------------------------------------------------------------------
(***************************************************************************)
(* The TLB test: the shuffle.                                              *)
(***************************************************************************)
Start == [a |-> PageStarts, d |-> <<>>]
Round(F, acc, n) == ReplayRound(F, acc, size - n)

\* The first n rounds that lead to the order F.
Partial(F, g, n) == g = [m \in 0..n |-> IF m = 0 THEN Start ELSE Round(F, g[m - 1], m)]

\* There is one for any number of rounds.
LEMMA PartialExists ==
  ASSUME NEW F, NEW n \in Nat
  PROVE  \E g : Partial(F, g, n)
<1> DEFINE Bad == {k \in Nat : ~\E g : Partial(F, g, k)}
<1> SUFFICES ASSUME Bad # {} PROVE FALSE
  OBVIOUS
<1>1. PICK k \in Bad : \A l \in Bad : k <= l BY LeastElement
<1>2. k # 0
  <2> DEFINE g == [m \in 0..0 |-> Start]
  <2>1. Partial(F, g, 0)
    <3>1. g = [m \in 0..0 |-> IF m = 0 THEN Start ELSE Round(F, g[m - 1], m)] OBVIOUS
    <3> QED BY <3>1 DEF Partial
  <2> QED BY <2>1
<1>3. k - 1 \in Nat /\ k - 1 \notin Bad /\ k \in Nat BY <1>1, <1>2
<1>4. PICK g : Partial(F, g, k - 1) BY <1>3
<1> DEFINE h == [m \in 0..k |-> IF m = k THEN Round(F, g[k - 1], k) ELSE g[m]]
<1>5. \A m \in 0..(k - 1) : g[m] = IF m = 0 THEN Start ELSE Round(F, g[m - 1], m)
  BY <1>4 DEF Partial
<1>6. ASSUME NEW m \in 0..k PROVE h[m] = IF m = 0 THEN Start ELSE Round(F, h[m - 1], m)
  <2>1. CASE m = k
    <3>1. k - 1 \in 0..k /\ k - 1 # k BY <1>3
    <3>2. h[k - 1] = g[k - 1] BY <3>1
    <3>3. h[k] = Round(F, g[k - 1], k) BY <1>3
    <3> HIDE DEF h
    <3> QED BY <1>2, <2>1, <3>2, <3>3
  <2>2. CASE m # k
    <3>1. m \in 0..(k - 1) /\ (m # 0 => m - 1 \in 0..k /\ m - 1 # k) BY <1>3, <2>2
    <3>2. h[m] = g[m] /\ (m # 0 => h[m - 1] = g[m - 1]) BY <2>2, <3>1
    <3> HIDE DEF h
    <3> QED BY <1>5, <3>1, <3>2
  <2> QED BY <2>1, <2>2
<1>7. h = [m \in 0..k |-> h[m]] OBVIOUS
<1> HIDE DEF h
<1>8. Partial(F, h, k) BY <1>6, <1>7 DEF Partial
<1> QED BY <1>8

\* Two of them agree on the rounds that both have.
LEMMA PartialsAgree ==
  ASSUME NEW F, NEW n \in Nat, NEW k \in Nat, NEW g, NEW h, Partial(F, g, n), Partial(F, h, k),
         NEW m \in Nat, m <= n, m <= k
  PROVE  g[m] = h[m]
<1> DEFINE Bad == {l \in Nat : l <= n /\ l <= k /\ g[l] # h[l]}
<1> SUFFICES ASSUME Bad # {} PROVE FALSE
  OBVIOUS
<1>1. PICK l \in Bad : \A o \in Bad : l <= o BY LeastElement
<1>2. l \in 0..n /\ l \in 0..k OBVIOUS
<1>3. /\ g[l] = IF l = 0 THEN Start ELSE Round(F, g[l - 1], l)
      /\ h[l] = IF l = 0 THEN Start ELSE Round(F, h[l - 1], l)
  BY <1>2 DEF Partial
<1>4. l # 0 BY <1>3
<1>5. l - 1 \notin Bad /\ l - 1 \in Nat /\ l - 1 <= n /\ l - 1 <= k BY <1>1, <1>4
<1> QED BY <1>3, <1>5

\* Rounds is what its recursive definition says.
LEMMA RoundsFact ==
  ASSUME NEW F
  PROVE  /\ Rounds(F)[0] = Start
         /\ \A n \in Nat : Rounds(F)[n + 1] = Round(F, Rounds(F)[n], n + 1)
<1> DEFINE P(n) == CHOOSE g : Partial(F, g, n)
           f == [n \in Nat |-> P(n)[n]]
<1>1. \A n \in Nat : Partial(F, P(n), n) BY PartialExists
<1> HIDE DEF P
<1>2. ASSUME NEW n \in Nat PROVE f[n] = IF n = 0 THEN Start ELSE Round(F, f[n - 1], n)
  <2>1. n \in 0..n /\ f[n] = P(n)[n] OBVIOUS
  <2>2. P(n)[n] = IF n = 0 THEN Start ELSE Round(F, P(n)[n - 1], n) BY <1>1, <2>1 DEF Partial
  <2>3. ASSUME n # 0 PROVE f[n - 1] = P(n)[n - 1]
    <3>1. n - 1 \in Nat /\ n - 1 <= n /\ n - 1 <= n - 1 BY <2>3
    <3>2. Partial(F, P(n), n) /\ Partial(F, P(n - 1), n - 1) BY <1>1, <3>1
    <3>3. P(n - 1)[n - 1] = P(n)[n - 1] BY <3>1, <3>2, PartialsAgree
    <3> QED BY <3>1, <3>3
  <2> HIDE DEF f
  <2> QED BY <2>1, <2>2, <2>3
<1>3. f = [n \in Nat |-> f[n]] OBVIOUS
<1> HIDE DEF f
<1>4. f = [n \in Nat |-> IF n = 0 THEN Start ELSE Round(F, f[n - 1], n)] BY <1>2, <1>3
<1>5. Rounds(F) = CHOOSE g : g = [n \in Nat |-> IF n = 0 THEN Start ELSE Round(F, g[n - 1], n)]
  BY DEF Rounds, Start, Round
<1>6. Rounds(F) = [n \in Nat |-> IF n = 0 THEN Start ELSE Round(F, Rounds(F)[n - 1], n)]
  BY <1>4, <1>5
<1> HIDE DEF Rounds
<1> QED BY <1>6

\* The shuffle so far is the beginning of the replay of every order that has the same
\* pages in the places that are settled.
DInv ==
  /\ TInv
  /\ loc = "malloc" => draws = <<>>
  /\ loc = "shuffle" =>
       \A F : (\A m \in (i + 1)..(size - 1) : F[m] = index[m]) =>
                Rounds(F)[size - 1 - i] = [a |-> index, d |-> draws]
  /\ loc \in {"visit", "return"} => Rounds(index)[size - 1] = [a |-> index, d |-> draws]

\* Each part of tlb keeps it.
LEMMA TlbNextDInv == DInv /\ [TlbNext]_tlbVars => DInv'
<1> SUFFICES ASSUME DInv, [TlbNext]_tlbVars PROVE DInv'
  OBVIOUS
<1> USE DEF DInv
<1>0. TInv /\ TInv' BY TlbNextTInv
<1>1. /\ USE_MEM' = USE_MEM /\ PAGENUMS' = PAGENUMS /\ size' = size /\ PageStarts' = PageStarts
  <2>1. USE_MEM' = USE_MEM /\ PAGENUMS' = PAGENUMS
    BY DEF TlbNext, tlbVars, Allocate, Shuffle, ShuffleDone, Visit, TryDone
  <2>2. size' = size BY <2>1 DEF size
  <2> QED BY <2>1, <2>2 DEF PageStarts
<1>2. \A F : Rounds(F)' = Rounds(F) BY <1>1 DEF Rounds, ReplayRound, Swap
<1>3. index' = index => Rounds(index)' = Rounds(index)
  BY <1>1 DEF Rounds, ReplayRound, Swap
<1>4. USE_MEM \in Nat /\ PAGENUMS \in Nat \ {0} /\ size \in Nat \ {0}
  BY <1>0, SizeFact DEF TInv
<1>5. CASE Allocate
  <2>1. CASE loc' = "shuffle"
    <3>1. index' = PageStarts /\ i' = size - 1 /\ draws' = <<>> BY <1>5, <2>1 DEF Allocate
    <3>2. size' - 1 - i' = 0 BY <1>1, <1>4, <3>1
    <3>3. \A F : Rounds(F)[0] = [a |-> PageStarts, d |-> <<>>] BY RoundsFact DEF Start
    <3> QED BY <1>0, <1>2, <2>1, <3>1, <3>2, <3>3
  <2>2. CASE loc' = "failed" BY <1>0, <2>2
  <2> QED BY <1>5, <2>1, <2>2 DEF Allocate
<1>6. CASE Shuffle
  <2>0. /\ loc = "shuffle" /\ loc' = "shuffle" /\ i > 0 /\ i' = i - 1 BY <1>6 DEF Shuffle
  <2>1. PICK c \in 0..i : index' = Swap(index, i, c) /\ draws' = Append(draws, c)
    BY <1>6 DEF Shuffle, RandMod
  <2>2. OneToOne /\ i \in 0..(size - 1) /\ i \in Nat BY <1>0, <1>4, <2>0 DEF TInv, Slots
  <2>3. c \in 0..(size - 1) BY <1>4, <2>2
  <2>4. /\ index'[i] = index[c]
        /\ \A m \in (i + 1)..(size - 1) : index'[m] = index[m]
    <3>1. \A k \in 0..(size - 1) : index'[k] = IF k = c THEN index[i]
                                              ELSE IF k = i THEN index[c] ELSE index[k]
      BY <2>1, <2>2, <2>3 DEF OneToOne, Slots, Swap
    <3> QED BY <1>4, <2>2, <3>1
  <2>5. \A m \in 0..(size - 1) : index[m] = index[c] => m = c
    BY <2>2, <2>3 DEF OneToOne, Slots
  <2>6. ASSUME NEW F, \A m \in (i' + 1)..(size' - 1) : F[m] = index'[m]
        PROVE  Rounds(F)'[size' - 1 - i'] = [a |-> index', d |-> draws']
    <3>1. F[i] = index[c]
      <4>1. i \in (i' + 1)..(size' - 1) BY <1>1, <1>4, <2>0, <2>2
      <4> QED BY <2>4, <2>6, <4>1
    <3>2. \A m \in (i + 1)..(size - 1) : F[m] = index[m]
      <4>1. \A m \in (i + 1)..(size - 1) : m \in (i' + 1)..(size' - 1)
        BY <1>1, <1>4, <2>0, <2>2
      <4> QED BY <2>4, <2>6, <4>1
    <3> DEFINE n == size - 1 - i
    <3>3. n \in Nat /\ size' - 1 - i' = n + 1 /\ size - (n + 1) = i
      BY <1>1, <1>4, <2>0, <2>2
    <3>4. Rounds(F)[n] = [a |-> index, d |-> draws] BY <2>0, <3>2
    <3> HIDE DEF n
    <3>5. Rounds(F)[n + 1] = ReplayRound(F, [a |-> index, d |-> draws], i)
      BY <3>3, <3>4, RoundsFact DEF Round
    <3>6. (CHOOSE m \in 0..(size - 1) : index[m] = F[i]) = c
      BY <2>3, <2>5, <3>1
    <3>7. ReplayRound(F, [a |-> index, d |-> draws], i)
            = [a |-> Swap(index, i, c), d |-> Append(draws, c)]
      BY <3>6 DEF ReplayRound
    <3> QED BY <1>2, <2>1, <3>3, <3>5, <3>7
  <2> QED BY <1>0, <2>0, <2>6
<1>7. CASE ShuffleDone
  <2>1. loc = "shuffle" /\ i = 0 /\ loc' = "visit" /\ index' = index /\ draws' = draws
    BY <1>7 DEF ShuffleDone
  <2>2. Rounds(index)[size - 1 - i] = [a |-> index, d |-> draws] BY <2>1
  <2>3. size - 1 - i = size - 1 BY <1>4, <2>1
  <2>4. Rounds(index)' = Rounds(index) BY <1>3, <2>1
  <2> QED BY <1>0, <1>1, <2>1, <2>2, <2>3, <2>4
<1>8. CASE Visit \/ TryDone
  <2>1. loc \in {"visit"} /\ loc' \in {"visit", "return"} /\ index' = index /\ draws' = draws
    BY <1>8 DEF Visit, TryDone
  <2>2. Rounds(index)' = Rounds(index) BY <1>3, <2>1
  <2> QED BY <1>0, <1>1, <2>1, <2>2
<1>9. CASE UNCHANGED tlbVars
  <2>1. loc' = loc /\ index' = index /\ draws' = draws /\ i' = i BY <1>9 DEF tlbVars
  <2>2. Rounds(index)' = Rounds(index) BY <1>3, <2>1
  <2> QED BY <1>0, <1>1, <1>2, <2>1, <2>2
<1> QED BY <1>5, <1>6, <1>7, <1>8, <1>9 DEF TlbNext

\* The order in which shuffle leaves index tells which numbers rand gave, for any
\* number of pages: as there are as many sequences of draws as orders, each order
\* comes from exactly one, and all are equally likely.
THEOREM ShuffleIsUniform == TlbSpec => []EveryOrderOnce
<1>1. TlbInit => DInv BY TlbAssumption DEF TlbInit, TInv, DInv
<1>2. DInv => EveryOrderOnce
  BY DEF DInv, EveryOrderOnce, Replay
<1> QED BY <1>1, <1>2, TlbNextDInv, PTL DEF TlbSpec

-----------------------------------------------------------------------------
(***************************************************************************)
(* use_maps: types.                                                        *)
(***************************************************************************)
Kinds == {"enter", "exit"}

\* Events; those of the entry have a ret of 0.
Events == {e \in [thread : Threads, ret : Results \cup {0}, busy : BOOLEAN, kind : Kinds] :
             e.kind = "enter" => e.ret = 0}

\* A program that runs, for a thread.
Running == [thread : Threads, kind : Kinds, at : {"update", "reserve", "submit"},
            new_count : Nat]

\* The types of the kernel's state; a CPU runs a program or none.
MTypes ==
  /\ online \subseteq CPUs
  /\ max_entries \in Nat \ {0}
  /\ inside \subseteq Threads /\ missed \subseteq Threads
  /\ prog \in [CPUs -> Running \cup {NoProg}]
  /\ Keys \subseteq Pids /\ openat_counts \in [Keys -> [CPUs -> Nat]]
  /\ ringbuf \in Seq(Events)
  /\ updates \in [Pids -> Nat]
  /\ seen \in [Threads -> Kinds \cup {"none"}]

\* A CPU that is at a helper call runs a program.
LEMMA AtWork ==
  ASSUME MTypes, NEW c \in CPUs, prog[c].at # "idle"
  PROVE  prog[c] \in Running /\ prog[c].thread \in Threads /\ PidOf[prog[c].thread] \in Pids
<1>1. prog[c] \in Running BY DEF MTypes, NoProg
<1>2. prog[c].thread \in Threads BY <1>1 DEF Running
<1> QED BY <1>1, <1>2 DEF Pids

\* An idle CPU has no thread.
LEMMA AtRest ==
  ASSUME MTypes, NEW c \in CPUs, prog[c].thread \in Threads
  PROVE  prog[c].at \in {"update", "reserve", "submit"} /\ prog[c].kind \in Kinds
<1>1. prog[c] # NoProg BY MapsAssumption DEF NoProg
<1> QED BY <1>1 DEF MTypes, Running

\* What the steps of main and the signal leave alone, apart from the poll.
LEMMA MainAside ==
  ASSUME (MainStep /\ ~Consume) \/ Signal \/ UNCHANGED vars
  PROVE  UNCHANGED <<fixed, threadVars, kernelVars, seen>>
<1>1. CASE MainStep /\ ~Consume
  BY <1>1 DEF MainStep, Load, Attach, NewRing, Loop, PollReturns, NextKey, Show, Cleanup
<1>2. CASE Signal BY <1>2 DEF Signal
<1>3. CASE UNCHANGED vars BY <1>3 DEF vars, mainVars
<1> QED BY <1>1, <1>2, <1>3

\* A tracepoint: one CPU starts a program, or nobody does.
LEMMA FireFact ==
  ASSUME MTypes, NEW t \in Threads, NEW kind \in Kinds, Fire(t, kind)
  PROVE  /\ openat_counts' = openat_counts /\ ringbuf' = ringbuf /\ updates' = updates
         /\ online' = online /\ max_entries' = max_entries /\ seen' = seen
         /\ \A c \in CPUs : prog[c].thread # t
         /\ \/ /\ missed' = missed
               /\ \E c \in CPUs :
                    /\ prog' = [prog EXCEPT ![c] = prog'[c]] /\ prog'[c] \in Running
                    /\ prog[c] = NoProg
                    /\ prog'[c].thread = t /\ prog'[c].kind = kind
                    /\ prog'[c].at \in {"update", "reserve"}
                    /\ prog'[c].at = "update" => prog'[c].new_count = NewCount(PidOf[t], c)
            \/ prog' = prog /\ missed' = missed \cup {t}
<1>1. /\ openat_counts' = openat_counts /\ ringbuf' = ringbuf /\ updates' = updates
      /\ online' = online /\ max_entries' = max_entries /\ seen' = seen
      /\ \A c \in CPUs : prog[c].thread # t
  BY DEF Fire, fixed, mainVars
<1>2. CASE kind \notin attached BY <1>1, <1>2 DEF Fire
<1>3. CASE kind \in attached
  <2> DEFINE new(c) == [thread |-> t, kind |-> kind,
                        at |-> IF kind = "enter" THEN "update" ELSE "reserve",
                        new_count |-> IF kind = "enter" THEN NewCount(PidOf[t], c) ELSE 0]
  <2>1. missed' = missed BY <1>3 DEF Fire
  <2>2. PICK c \in online : prog[c] = NoProg /\ prog' = [prog EXCEPT ![c] = new(c)]
    BY <1>3 DEF Fire
  <2>3. c \in CPUs BY <2>2 DEF MTypes
  <2>4. NewCount(PidOf[t], c) \in Nat
    BY <2>3 DEF NewCount, Slot, MTypes
  <2>5. new(c) \in Running BY <2>4 DEF Running, Kinds
  <2>6. prog'[c] = new(c) BY <2>2, <2>3 DEF MTypes
  <2>7. /\ new(c).thread = t /\ new(c).kind = kind /\ new(c).at \in {"update", "reserve"}
        /\ new(c).at = "update" => new(c).new_count = NewCount(PidOf[t], c)
    OBVIOUS
  <2> HIDE DEF new
  <2> QED BY <1>1, <2>1, <2>2, <2>3, <2>5, <2>6, <2>7
<1> QED BY <1>2, <1>3

\* bpf_map_update_elem keeps the map's type, and changes one value at most.
LEMMA SetCountFact ==
  ASSUME MTypes, NEW p \in Pids, NEW c \in CPUs, NEW n \in Nat,
         openat_counts' = SetCount(p, c, n)
  PROVE  /\ Keys' \subseteq Pids /\ openat_counts' \in [Keys' -> [CPUs -> Nat]]
         /\ \A q \in Keys \ {p} : q \in Keys' /\ openat_counts'[q] = openat_counts[q]
         /\ p \in Keys =>
              /\ Keys' = Keys /\ openat_counts'[p][c] = n
              /\ \A d \in CPUs \ {c} : openat_counts'[p][d] = openat_counts[p][d]
         /\ p \notin Keys /\ Cardinality(Keys) < max_entries =>
              /\ Keys' = Keys \cup {p} /\ openat_counts'[p][c] = n
              /\ \A d \in CPUs \ {c} : openat_counts'[p][d] = 0
         /\ p \notin Keys /\ ~(Cardinality(Keys) < max_entries) =>
              openat_counts' = openat_counts /\ Keys' = Keys
<1>0. openat_counts \in [Keys -> [CPUs -> Nat]] /\ Keys \subseteq Pids BY DEF MTypes
<1>1. CASE p \in Keys
  <2>1. openat_counts' = [openat_counts EXCEPT ![p] = [openat_counts[p] EXCEPT ![c] = n]]
    BY <1>1 DEF SetCount, Slot
  <2>2. [openat_counts[p] EXCEPT ![c] = n] \in [CPUs -> Nat] BY <1>0, <1>1
  <2>3. Keys' = Keys BY <1>0, <2>1 DEF Keys
  <2> QED BY <1>0, <1>1, <2>1, <2>2, <2>3
<1>2. CASE p \notin Keys /\ Cardinality(Keys) < max_entries
  <2> DEFINE row == [d \in CPUs |-> IF d = c THEN n ELSE 0]
  <2>1. openat_counts' = [q \in Keys \cup {p} |-> IF q = p THEN row ELSE openat_counts[q]]
    BY <1>2 DEF SetCount, Slot
  <2>2. row \in [CPUs -> Nat] /\ row[c] = n /\ \A d \in CPUs \ {c} : row[d] = 0 OBVIOUS
  <2> HIDE DEF row
  <2>3. Keys' = Keys \cup {p} BY <2>1 DEF Keys
  <2> QED BY <1>0, <1>2, <2>1, <2>2, <2>3
<1>3. CASE p \notin Keys /\ ~(Cardinality(Keys) < max_entries)
  <2>1. openat_counts' = openat_counts BY <1>3 DEF SetCount
  <2> QED BY <1>0, <1>3, <2>1 DEF Keys
<1> QED BY <1>1, <1>2, <1>3

\* A program's step, with what it does to its CPU and the ring buffer: the program
\* counts, reserves an event, finds no room for it, or submits it.
Counts(c) ==
  /\ prog[c].at = "update" /\ prog'[c] \in Running /\ prog'[c].at = "reserve"
  /\ prog'[c].thread = prog[c].thread /\ prog'[c].kind = prog[c].kind
  /\ ringbuf' = ringbuf /\ missed' = missed
Reserves(c) ==
  /\ prog[c].at = "reserve" /\ prog'[c] \in Running /\ prog'[c].at = "submit"
  /\ prog'[c].thread = prog[c].thread /\ prog'[c].kind = prog[c].kind
  /\ \E r \in Rets(c) :
       ringbuf' = Append(ringbuf, [thread |-> prog[c].thread, ret |-> r, busy |-> TRUE,
                                   kind |-> prog[c].kind])
  /\ missed' = missed
Drops(c) ==
  /\ prog[c].at = "reserve" /\ prog'[c] = NoProg
  /\ ringbuf' = ringbuf /\ missed' = missed \cup {prog[c].thread}
Submits(c) ==
  /\ prog[c].at = "submit" /\ prog'[c] = NoProg
  /\ ringbuf' = [k \in DOMAIN ringbuf |->
                   IF ringbuf[k].thread = prog[c].thread
                   THEN [ringbuf[k] EXCEPT !.busy = FALSE] ELSE ringbuf[k]]
  /\ missed' = missed

\* These are a program's steps.
LEMMA ProgFact ==
  ASSUME MTypes, NEW c \in CPUs, ProgStep(c)
  PROVE  /\ prog[c] \in Running /\ prog' = [prog EXCEPT ![c] = prog'[c]]
         /\ online' = online /\ max_entries' = max_entries
         /\ inside' = inside /\ seen' = seen
         /\ Counts(c) \/ Reserves(c) \/ Drops(c) \/ Submits(c)
         /\ ~Counts(c) => openat_counts' = openat_counts /\ updates' = updates
<1> USE DEF Counts, Reserves, Drops, Submits
<1>0. prog[c].at \in {"update", "reserve", "submit"}
  BY DEF ProgStep, Update, Reserve, Submit
<1>1. prog[c] \in Running BY <1>0, AtWork
<1>2. online' = online /\ max_entries' = max_entries /\ inside' = inside /\ seen' = seen
  BY DEF ProgStep, Update, Reserve, Submit, fixed, threadVars, mainVars
<1>3. prog \in [CPUs -> Running \cup {NoProg}] BY DEF MTypes
<1>4. CASE Update(c)
  <2>1. /\ prog[c].at = "update" /\ ringbuf' = ringbuf /\ missed' = missed
        /\ prog' = [prog EXCEPT ![c] = [prog[c] EXCEPT !.at = "reserve", !.new_count = 0]]
    BY <1>3, <1>4 DEF Update
  <2>2. prog'[c] = [prog[c] EXCEPT !.at = "reserve", !.new_count = 0] BY <1>3, <2>1
  <2>3. /\ prog'[c] \in Running /\ prog'[c].at = "reserve"
        /\ prog'[c].thread = prog[c].thread /\ prog'[c].kind = prog[c].kind
    <3>1. prog'[c] = [thread |-> prog[c].thread, kind |-> prog[c].kind,
                      at |-> "reserve", new_count |-> 0]
      BY <1>1, <2>2 DEF Running
    <3>2. prog[c].thread \in Threads /\ prog[c].kind \in Kinds BY <1>1 DEF Running
    <3> QED BY <3>1, <3>2 DEF Running
  <2>4. prog' = [prog EXCEPT ![c] = prog'[c]] BY <2>1, <2>2
  <2> QED BY <1>1, <1>2, <2>1, <2>3, <2>4
<1>5. CASE Reserve(c) /\ Len(ringbuf) < RingSize
  <2>1. /\ prog[c].at = "reserve" /\ missed' = missed
        /\ openat_counts' = openat_counts /\ updates' = updates
        /\ \E r \in Rets(c) :
             ringbuf' = Append(ringbuf, [thread |-> prog[c].thread, ret |-> r, busy |-> TRUE,
                                         kind |-> prog[c].kind])
        /\ prog' = [prog EXCEPT ![c] = [prog[c] EXCEPT !.at = "submit"]]
    BY <1>3, <1>5 DEF Reserve
  <2>2. prog'[c] = [prog[c] EXCEPT !.at = "submit"] BY <1>3, <2>1
  <2>3. /\ prog'[c] \in Running /\ prog'[c].at = "submit"
        /\ prog'[c].thread = prog[c].thread /\ prog'[c].kind = prog[c].kind
    BY <1>1, <2>2 DEF Running
  <2>4. prog' = [prog EXCEPT ![c] = prog'[c]] BY <2>1, <2>2
  <2> QED BY <1>1, <1>2, <2>1, <2>3, <2>4
<1>6. CASE Reserve(c) /\ ~(Len(ringbuf) < RingSize)
  BY <1>1, <1>2, <1>3, <1>6 DEF Reserve
<1>7. CASE Submit(c)
  BY <1>1, <1>2, <1>3, <1>7 DEF Submit
<1> QED BY <1>4, <1>5, <1>6, <1>7 DEF ProgStep

\* What a program stores makes an event.
LEMMA NewEvent ==
  ASSUME NEW c \in CPUs, prog[c] \in Running, NEW r \in Rets(c)
  PROVE  [thread |-> prog[c].thread, ret |-> r, busy |-> TRUE, kind |-> prog[c].kind] \in Events
<1>1. prog[c].thread \in Threads /\ prog[c].kind \in Kinds BY DEF Running
<1>2. r \in Results \cup {0} /\ (prog[c].kind = "enter" => r = 0) BY DEF Rets
<1> QED BY <1>1, <1>2 DEF Events

\* The events of a thread are written; nothing else of the ring buffer changes.
LEMMA SubmitRing ==
  ASSUME ringbuf \in Seq(Events), NEW t,
         ringbuf' = [k \in DOMAIN ringbuf |-> IF ringbuf[k].thread = t
                                             THEN [ringbuf[k] EXCEPT !.busy = FALSE] ELSE ringbuf[k]]
  PROVE  /\ ringbuf' \in Seq(Events) /\ Len(ringbuf') = Len(ringbuf)
         /\ \A k \in 1..Len(ringbuf) : /\ ringbuf'[k].thread = ringbuf[k].thread
                                       /\ ringbuf'[k].kind = ringbuf[k].kind
<1> DEFINE new(k) == IF ringbuf[k].thread = t
                     THEN [ringbuf[k] EXCEPT !.busy = FALSE] ELSE ringbuf[k]
<1>1. DOMAIN ringbuf = 1..Len(ringbuf) /\ Len(ringbuf) \in Nat OBVIOUS
<1>2. ASSUME NEW k \in 1..Len(ringbuf)
      PROVE  new(k) \in Events /\ new(k).thread = ringbuf[k].thread /\ new(k).kind = ringbuf[k].kind
  <2>1. ringbuf[k] \in Events BY <1>1
  <2> QED BY <2>1 DEF Events
<1>3. ringbuf' = [k \in 1..Len(ringbuf) |-> new(k)] BY <1>1
<1> HIDE DEF new
<1>4. ringbuf' \in [1..Len(ringbuf) -> Events] BY <1>2, <1>3
<1>5. ringbuf' \in Seq(Events) BY <1>1, <1>4, SeqDef
<1>6. Len(ringbuf') = Len(ringbuf) BY <1>1, <1>4, <1>5, LenProperties
<1> QED BY <1>2, <1>3, <1>5, <1>6

\* Process ids are numbers, and there are finitely many.
LEMMA PidsAreNumbers == Pids \subseteq Nat /\ IsFiniteSet(Pids)
<1>1. PidOf \in Surjection(Threads, Pids)
  <2>1. PidOf \in [Threads -> Pids] BY MapsAssumption DEF Pids
  <2> QED BY <2>1 DEF Surjection, Pids
<1>2. IsFiniteSet(Pids) BY <1>1, FS_Surjection, MapsAssumption
<1> QED BY <1>2, MapsAssumption DEF Pids

\* There are finitely many keys.
LEMMA KeysFinite ==
  ASSUME MTypes
  PROVE  IsFiniteSet(Keys) /\ Cardinality(Keys) \in Nat
<1> QED BY PidsAreNumbers, FS_Subset, FS_CardinalityType DEF MTypes

\* Every step keeps the types.
LEMMA MapsTypes ==
  ASSUME MTypes, [Next]_vars
  PROVE  MTypes'
<1> USE DEF MTypes
<1>1. ASSUME NEW t \in Threads, NEW kind \in Kinds, Fire(t, kind), inside' \subseteq Threads
      PROVE  MTypes'
  <2>1. /\ openat_counts' = openat_counts /\ ringbuf' = ringbuf /\ updates' = updates
        /\ online' = online /\ max_entries' = max_entries /\ seen' = seen
        /\ missed' \subseteq Threads /\ prog' \in [CPUs -> Running \cup {NoProg}]
    BY <1>1, FireFact
  <2> QED BY <1>1, <2>1 DEF Keys
<1>2. ASSUME NEW t \in Threads, EnterOpenat(t) \/ ExitOpenat(t) PROVE MTypes'
  <2>1. inside' \subseteq Threads BY <1>2 DEF EnterOpenat, ExitOpenat
  <2> QED BY <1>1, <1>2, <2>1 DEF EnterOpenat, ExitOpenat, Kinds
<1>3. ASSUME NEW c \in CPUs, ProgStep(c) PROVE MTypes'
  <2>1. /\ prog[c] \in Running /\ prog' = [prog EXCEPT ![c] = prog'[c]]
        /\ online' = online /\ max_entries' = max_entries /\ inside' = inside /\ seen' = seen
        /\ Counts(c) \/ Reserves(c) \/ Drops(c) \/ Submits(c)
    BY <1>3, ProgFact
  <2>2. prog' \in [CPUs -> Running \cup {NoProg}]
    <3>1. prog'[c] \in Running \cup {NoProg} BY <2>1 DEF Counts, Reserves, Drops, Submits
    <3> QED BY <2>1, <3>1
  <2>3. prog[c].thread \in Threads /\ prog[c].kind \in Kinds /\ prog[c].new_count \in Nat
    BY <2>1 DEF Running
  <2>4. missed' \subseteq Threads BY <2>1, <2>3 DEF Counts, Reserves, Drops, Submits
  <2>5. ringbuf' \in Seq(Events)
    <3>1. \A r \in Rets(c) : [thread |-> prog[c].thread, ret |-> r, busy |-> TRUE,
                             kind |-> prog[c].kind] \in Events
      BY <2>1, NewEvent
    <3>2. CASE Reserves(c)
      <4>1. PICK r \in Rets(c) :
               ringbuf' = Append(ringbuf, [thread |-> prog[c].thread, ret |-> r, busy |-> TRUE,
                                           kind |-> prog[c].kind])
        BY <3>2 DEF Reserves
      <4> QED BY <3>1, <4>1, AppendProperties
    <3>3. CASE Submits(c) BY <3>3, SubmitRing DEF Submits
    <3> QED BY <2>1, <3>2, <3>3 DEF Counts, Drops
  <2>6. CASE Update(c)
    <3>1. PidOf[prog[c].thread] \in Pids BY <2>3 DEF Pids
    <3>2. /\ openat_counts' = SetCount(PidOf[prog[c].thread], c, prog[c].new_count)
          /\ updates' = [updates EXCEPT ![PidOf[prog[c].thread]] = @ + 1]
      BY <2>6 DEF Update
    <3>3. updates' \in [Pids -> Nat] BY <3>1, <3>2
    <3>4. Keys' \subseteq Pids /\ openat_counts' \in [Keys' -> [CPUs -> Nat]]
      BY <2>3, <3>1, <3>2, SetCountFact
    <3> QED BY <2>1, <2>2, <2>4, <2>5, <3>3, <3>4
  <2>7. CASE ~Update(c)
    <3>1. openat_counts' = openat_counts /\ updates' = updates
      BY <1>3, <2>7 DEF ProgStep, Reserve, Submit
    <3> QED BY <2>1, <2>2, <2>4, <2>5, <3>1 DEF Keys
  <2> QED BY <2>6, <2>7
<1>4. CASE Consume
  <2>1. /\ ringbuf # <<>> /\ ringbuf' = Tail(ringbuf)
        /\ seen' = [seen EXCEPT ![ringbuf[1].thread] = ringbuf[1].kind]
        /\ UNCHANGED <<fixed, threadVars, prog, openat_counts, updates, missed>>
    BY <1>4 DEF Consume, MayConsume
  <2>2. ringbuf' \in Seq(Events) BY <2>1, HeadTailProperties
  <2>3. ringbuf[1] \in Events
    <3>1. 1 \in 1..Len(ringbuf) BY <2>1, EmptySeq
    <3> QED BY <3>1, ElementOfSeq
  <2>4. seen' \in [Threads -> Kinds \cup {"none"}] BY <2>1, <2>3 DEF Events
  <2> QED BY <2>1, <2>2, <2>4 DEF fixed, threadVars, Keys
<1>5. CASE (MainStep /\ ~Consume) \/ Signal \/ UNCHANGED vars
  <2>1. UNCHANGED <<fixed, threadVars, kernelVars, seen>> BY <1>5, MainAside
  <2> QED BY <2>1 DEF fixed, threadVars, kernelVars, Keys
<1> QED BY <1>2, <1>3, <1>4, <1>5 DEF Next, MainStep

-----------------------------------------------------------------------------
(***************************************************************************)
(* use_maps: the counts.                                                   *)
(***************************************************************************)
\* What a program has looked up is still its CPU's value when it writes it back.
LookupsAreCurrent ==
  \A c \in CPUs : prog[c].at = "update" =>
    prog[c].new_count = NewCount(PidOf[prog[c].thread], c)

\* The inductive invariant of the counts.
CInv == MTypes /\ Cardinality(Keys) <= max_entries /\ CountsAreExact /\ LookupsAreCurrent

\* Nothing is counted, and a program does not look up in vain.
LEMMA CountsAside ==
  ASSUME CInv, MTypes', openat_counts' = openat_counts, updates' = updates,
         max_entries' = max_entries,
         \A c \in CPUs : prog'[c].at = "update" =>
           \/ prog'[c] = prog[c]
           \/ prog'[c].new_count = NewCount(PidOf[prog'[c].thread], c)
  PROVE  CInv'
<1> USE DEF CInv
<1>1. Keys' = Keys BY DEF Keys
<1>2. \A p, c : NewCount(p, c)' = NewCount(p, c) BY <1>1 DEF NewCount, Slot
<1>3. LookupsAreCurrent' BY <1>2 DEF LookupsAreCurrent
<1>4. CountsAreExact' BY <1>1 DEF CountsAreExact
<1> QED BY <1>1, <1>3, <1>4

\* The counts of a key that gets one more call on one CPU.
LEMMA OneMoreCall ==
  ASSUME NEW f \in [CPUs -> Nat], NEW g \in [CPUs -> Nat], NEW c \in CPUs,
         g[c] = f[c] + 1, \A d \in CPUs \ {c} : g[d] = f[d]
  PROVE  SumOf(g, CPUs) = SumOf(f, CPUs) + 1
<1>1. SumOf(f, CPUs) \in Nat /\ SumOf(g, CPUs) \in Nat
  BY MapsAssumption, UnitsFinite
<1>2. SumOf(g, CPUs) + f[c] = SumOf(f, CPUs) + g[c]
  BY MapsAssumption, SumChange
<1>3. f[c] \in Nat OBVIOUS
<1> QED BY <1>1, <1>2, <1>3

\* bpf_map_update_elem with the number the program has looked up.
LEMMA UpdateCInv ==
  ASSUME CInv, MTypes', NEW c \in CPUs, Update(c)
  PROVE  CInv'
<1> USE DEF CInv
<1> DEFINE p == PidOf[prog[c].thread]
           n == prog[c].new_count
<1>0. /\ prog[c].at = "update" /\ prog[c] \in Running /\ p \in Pids /\ n \in Nat
      /\ n = NewCount(p, c)
  <2>1. prog[c].at = "update" BY DEF Update
  <2>2. prog[c] \in Running /\ p \in Pids BY <2>1, AtWork
  <2> QED BY <2>1, <2>2 DEF Running, LookupsAreCurrent
<1>1. /\ openat_counts' = SetCount(p, c, n) /\ updates' = [updates EXCEPT ![p] = @ + 1]
      /\ max_entries' = max_entries
  BY DEF Update, fixed
<1>2. /\ prog'[c].at = "reserve" /\ \A d \in CPUs \ {c} : prog'[d] = prog[d]
  <2>1. ProgStep(c) BY DEF ProgStep
  <2>2. prog' = [prog EXCEPT ![c] = prog'[c]] /\ prog'[c].at = "reserve"
    BY <1>0, <2>1, ProgFact DEF Counts, Reserves, Drops, Submits
  <2> QED BY <2>2 DEF MTypes
<1>3. /\ updates'[p] = updates[p] + 1 /\ updates[p] \in Nat
      /\ \A q \in Pids \ {p} : updates'[q] = updates[q]
  BY <1>0, <1>1 DEF MTypes
<1> HIDE DEF p, n
<1>4. \A q \in Keys \ {p} : q \in Keys' /\ openat_counts'[q] = openat_counts[q]
  BY <1>0, <1>1, SetCountFact
<1>5. CASE p \in Keys
  <2>1. /\ Keys' = Keys /\ openat_counts'[p][c] = n
        /\ \A d \in CPUs \ {c} : openat_counts'[p][d] = openat_counts[p][d]
    BY <1>0, <1>1, <1>5, SetCountFact
  <2>2. n = openat_counts[p][c] + 1 BY <1>0, <1>5 DEF NewCount, Slot
  <2>3. openat_counts[p] \in [CPUs -> Nat] /\ openat_counts'[p] \in [CPUs -> Nat]
    BY <1>5, <2>1 DEF MTypes
  <2>4. SumOf(openat_counts'[p], CPUs) = SumOf(openat_counts[p], CPUs) + 1
    BY <2>1, <2>2, <2>3, OneMoreCall
  <2>5. SumOf(openat_counts[p], CPUs) = updates[p] BY <1>0, <1>5 DEF CountsAreExact
  <2>6. CountsAreExact'
    BY <1>0, <1>1, <1>3, <1>4, <1>5, <2>1, <2>4, <2>5 DEF CountsAreExact
  <2>7. \A q \in Pids, d \in CPUs \ {c} : NewCount(q, d)' = NewCount(q, d)
    BY <1>4, <2>1 DEF NewCount, Slot
  <2>8. LookupsAreCurrent'
    <3> SUFFICES ASSUME NEW d \in CPUs, prog'[d].at = "update"
                 PROVE  (prog[d].new_count = NewCount(PidOf[prog[d].thread], d))'
      BY DEF LookupsAreCurrent
    <3>1. d # c /\ prog'[d] = prog[d] BY <1>2
    <3>2. PidOf[prog[d].thread] \in Pids BY <3>1, AtWork
    <3> QED BY <2>7, <3>1, <3>2 DEF LookupsAreCurrent
  <2> QED BY <1>1, <2>1, <2>6, <2>8
<1>6. CASE p \notin Keys /\ Cardinality(Keys) < max_entries
  <2>1. /\ Keys' = Keys \cup {p} /\ openat_counts'[p][c] = n
        /\ \A d \in CPUs \ {c} : openat_counts'[p][d] = 0
    BY <1>0, <1>1, <1>6, SetCountFact
  <2>2. n = 1 BY <1>0, <1>6 DEF NewCount
  <2>3. \A q \in Pids \ Keys : updates[q] = 0
    <3>1. max_entries \in Nat /\ Cardinality(Keys) # max_entries
      BY <1>6, KeysFinite DEF MTypes
    <3> QED BY <3>1 DEF CountsAreExact
  <2>4. SumOf(openat_counts'[p], CPUs) = 1
    <3> DEFINE z == [d \in CPUs |-> 0]
    <3>1. openat_counts'[p] \in [CPUs -> Nat] BY <2>1 DEF MTypes
    <3>2. z \in [CPUs -> Nat] /\ \A d \in CPUs : z[d] = 0 OBVIOUS
    <3> HIDE DEF z
    <3>3. SumOf(z, CPUs) = 0 BY <3>2, SumZero
    <3> QED BY <2>1, <2>2, <3>1, <3>2, <3>3, OneMoreCall
  <2>5. CountsAreExact'
    <3>1. updates'[p] = 1 BY <1>0, <1>3, <1>6, <2>3
    <3>2. ASSUME NEW q \in Keys \ {p}
          PROVE  q \in Keys' /\ SumOf(openat_counts'[q], CPUs) = updates'[q]
      <4>1. q \in Pids BY DEF MTypes
      <4> QED BY <1>3, <1>4, <4>1 DEF CountsAreExact
    <3>3. ASSUME NEW q \in Pids \ Keys' PROVE updates'[q] = 0
      BY <1>3, <2>1, <2>3
    <3> QED BY <2>1, <2>4, <3>1, <3>2, <3>3 DEF CountsAreExact
  <2>6. Cardinality(Keys') <= max_entries'
    <3>1. Cardinality(Keys \cup {p}) = Cardinality(Keys) + 1
      BY <1>6, KeysFinite, FS_AddElement
    <3>2. Cardinality(Keys') = Cardinality(Keys) + 1 BY <2>1, <3>1
    <3> QED BY <1>1, <1>6, <3>2, KeysFinite DEF MTypes
  <2>7. \A q \in Pids, d \in CPUs \ {c} : NewCount(q, d)' = NewCount(q, d)
    BY <1>4, <1>6, <2>1 DEF NewCount, Slot
  <2>8. LookupsAreCurrent'
    <3> SUFFICES ASSUME NEW d \in CPUs, prog'[d].at = "update"
                 PROVE  (prog[d].new_count = NewCount(PidOf[prog[d].thread], d))'
      BY DEF LookupsAreCurrent
    <3>1. d # c /\ prog'[d] = prog[d] BY <1>2
    <3>2. PidOf[prog[d].thread] \in Pids BY <3>1, AtWork
    <3> QED BY <2>7, <3>1, <3>2 DEF LookupsAreCurrent
  <2> QED BY <2>5, <2>6, <2>8
<1>7. CASE p \notin Keys /\ ~(Cardinality(Keys) < max_entries)
  <2>1. openat_counts' = openat_counts /\ Keys' = Keys BY <1>0, <1>1, <1>7, SetCountFact
  <2>2. Cardinality(Keys) = max_entries BY <1>7, KeysFinite DEF MTypes
  <2>3. CountsAreExact'
    BY <1>1, <1>3, <1>7, <2>1, <2>2 DEF CountsAreExact, MTypes
  <2>4. LookupsAreCurrent'
    BY <1>2, <2>1 DEF LookupsAreCurrent, NewCount, Slot
  <2> QED BY <1>1, <2>1, <2>3, <2>4
<1> QED BY <1>5, <1>6, <1>7

\* Every step keeps the counts.
LEMMA NextCInv == CInv /\ [Next]_vars => CInv'
<1> SUFFICES ASSUME CInv, [Next]_vars PROVE CInv'
  OBVIOUS
<1>0. MTypes' /\ MTypes BY MapsTypes DEF CInv
<1>1. ASSUME NEW t \in Threads, NEW kind \in Kinds, Fire(t, kind) PROVE CInv'
  <2>1. /\ openat_counts' = openat_counts /\ updates' = updates /\ max_entries' = max_entries
        /\ \A c \in CPUs : prog'[c].at = "update" =>
             \/ prog'[c] = prog[c]
             \/ prog'[c].new_count = NewCount(PidOf[prog'[c].thread], c)
    <3>1. /\ openat_counts' = openat_counts /\ updates' = updates /\ max_entries' = max_entries
      BY <1>0, <1>1, FireFact
    <3>2. CASE prog' = prog BY <3>1, <3>2
    <3>3. CASE prog' # prog
      <4>1. PICK c \in CPUs :
               /\ prog' = [prog EXCEPT ![c] = prog'[c]] /\ prog'[c].thread = t
               /\ prog'[c].at = "update" => prog'[c].new_count = NewCount(PidOf[t], c)
        BY <1>0, <1>1, <3>3, FireFact
      <4>2. \A d \in CPUs \ {c} : prog'[d] = prog[d] BY <1>0, <4>1 DEF MTypes
      <4> QED BY <3>1, <4>1, <4>2
    <3> QED BY <3>2, <3>3
  <2> QED BY <1>0, <2>1, CountsAside
<1>2. ASSUME NEW t \in Threads, EnterOpenat(t) \/ ExitOpenat(t) PROVE CInv'
  BY <1>1, <1>2 DEF EnterOpenat, ExitOpenat, Kinds
<1>3. ASSUME NEW c \in CPUs, ProgStep(c) PROVE CInv'
  <2>1. CASE Update(c) BY <1>0, <2>1, UpdateCInv
  <2>2. CASE ~Update(c)
    <3>1. openat_counts' = openat_counts /\ updates' = updates /\ prog[c].at # "update"
      BY <1>3, <2>2 DEF ProgStep, Reserve, Submit
    <3>2. /\ max_entries' = max_entries /\ prog' = [prog EXCEPT ![c] = prog'[c]]
          /\ prog'[c].at # "update"
      <4>1. /\ max_entries' = max_entries /\ prog' = [prog EXCEPT ![c] = prog'[c]]
            /\ Reserves(c) \/ Drops(c) \/ Submits(c)
        BY <1>0, <1>3, <3>1, ProgFact DEF Counts
      <4> QED BY <4>1 DEF Reserves, Drops, Submits, NoProg
    <3>3. \A d \in CPUs : prog'[d].at = "update" => prog'[d] = prog[d]
      BY <1>0, <3>2 DEF MTypes
    <3> QED BY <1>0, <3>1, <3>2, <3>3, CountsAside
  <2> QED BY <2>1, <2>2
<1>4. CASE Consume
  BY <1>0, <1>4, CountsAside DEF Consume, fixed
<1>5. CASE (MainStep /\ ~Consume) \/ Signal \/ UNCHANGED vars
  <2>1. UNCHANGED <<fixed, threadVars, kernelVars, seen>> BY <1>5, MainAside
  <2> QED BY <1>0, <2>1, CountsAside DEF fixed, kernelVars
<1> QED BY <1>2, <1>3, <1>4, <1>5 DEF Next, MainStep

\* use_maps starts with an empty map.
LEMMA InitMTypes == Init => MTypes /\ Keys = {}
<1> SUFFICES ASSUME Init PROVE MTypes /\ Keys = {}
  OBVIOUS
<1>1. Keys = {} BY DEF Init, Keys
<1>2. openat_counts \in [Keys -> [CPUs -> Nat]] BY <1>1 DEF Init, Keys
<1>3. max_entries \in Nat \ {0} BY MapsAssumption DEF Init
<1> QED BY <1>1, <1>2, <1>3 DEF Init, MTypes

\* The lookup and the update of sys_enter_openat lose no call on any number of CPUs,
\* however the programs interleave: the per-CPU values of a process add up to its
\* calls, and a process without an entry has none or came to a full map.
THEOREM CountsCorrect == Spec => []CountsAreExact
<1>1. Init => CInv
  <2> SUFFICES ASSUME Init PROVE CInv
    OBVIOUS
  <2>1. MTypes /\ Keys = {} BY InitMTypes
  <2>2. CountsAreExact BY <2>1 DEF Init, CountsAreExact
  <2>3. LookupsAreCurrent BY DEF Init, LookupsAreCurrent, NoProg
  <2>4. Cardinality(Keys) <= max_entries BY <2>1, FS_EmptySet DEF MTypes
  <2> QED BY <2>1, <2>2, <2>3, <2>4 DEF CInv
<1>2. CInv => CountsAreExact BY DEF CInv
<1> QED BY <1>1, <1>2, NextCInv, PTL DEF Spec

-----------------------------------------------------------------------------
(***************************************************************************)
(* use_maps: the events.                                                   *)
(***************************************************************************)
\* r has no event of thread t strictly between places k and l.
NoneBetween(r, t, k, l) == \A m \in (k + 1)..(l - 1) : r[m].thread # t

\* The events of thread t in r take turns with each other, with the kind s seen
\* before and with the kind d due next.
InTurn(r, t, s, d) ==
  /\ \A k, l \in 1..Len(r) :
       k < l /\ r[k].thread = t /\ r[l].thread = t /\ NoneBetween(r, t, k, l) =>
         r[k].kind # r[l].kind
  /\ \A k \in 1..Len(r) :
       /\ r[k].thread = t /\ NoneBetween(r, t, 0, k) => r[k].kind # s
       /\ r[k].thread = t /\ NoneBetween(r, t, k, Len(r) + 1) => r[k].kind # d
  /\ NoneBetween(r, t, 0, Len(r) + 1) => s # d

\* A new event of the kind that was due.
LEMMA AppendInTurn ==
  ASSUME NEW r \in Seq(Events), NEW t, NEW s, NEW d, NEW e \in Events, NEW d1,
         InTurn(r, t, s, d),
         IF e.thread = t THEN e.kind = d /\ d1 # d ELSE d1 = d
  PROVE  InTurn(Append(r, e), t, s, d1)
<1> DEFINE r1 == Append(r, e)
           n == Len(r)
<1>1. /\ n \in Nat /\ Len(r1) = n + 1 /\ r1[n + 1] = e /\ \A k \in 1..n : r1[k] = r[k]
  BY AppendProperties
<1> HIDE DEF r1, n
<1>2. \A k, l \in 0..(n + 1) : NoneBetween(r1, t, k, l) <=> NoneBetween(r, t, k, l)
  BY <1>1 DEF NoneBetween
<1>3. \A k \in 0..n : NoneBetween(r1, t, k, n + 2) <=>
                        NoneBetween(r, t, k, n + 1) /\ e.thread # t
  <2> SUFFICES ASSUME NEW k \in 0..n
               PROVE  NoneBetween(r1, t, k, n + 2) <=>
                        NoneBetween(r, t, k, n + 1) /\ e.thread # t
    OBVIOUS
  <2>1. (k + 1)..(n + 2 - 1) = ((k + 1)..(n + 1 - 1)) \cup {n + 1} BY <1>1
  <2>2. \A m \in (k + 1)..(n + 1 - 1) : r1[m] = r[m] BY <1>1
  <2> QED BY <1>1, <2>1, <2>2 DEF NoneBetween
<1>4. InTurn(r1, t, s, d1)
  <2>1. ASSUME NEW k \in 1..(n + 1), NEW l \in 1..(n + 1), k < l, r1[k].thread = t,
               r1[l].thread = t, NoneBetween(r1, t, k, l)
        PROVE  r1[k].kind # r1[l].kind
    <3>1. NoneBetween(r, t, k, l) /\ k \in 1..n BY <1>1, <1>2, <2>1
    <3>2. CASE l \in 1..n BY <1>1, <2>1, <3>1, <3>2 DEF InTurn, n
    <3>3. CASE l = n + 1 BY <1>1, <2>1, <3>1, <3>3 DEF InTurn, n
    <3> QED BY <1>1, <3>2, <3>3
  <2>2. ASSUME NEW k \in 1..(n + 1), r1[k].thread = t, NoneBetween(r1, t, 0, k)
        PROVE  r1[k].kind # s
    <3>1. NoneBetween(r, t, 0, k) BY <1>1, <1>2, <2>2
    <3>2. CASE k \in 1..n BY <1>1, <2>2, <3>1, <3>2 DEF InTurn, n
    <3>3. CASE k = n + 1 BY <1>1, <2>2, <3>1, <3>3 DEF InTurn, n
    <3> QED BY <1>1, <3>2, <3>3
  <2>3. ASSUME NEW k \in 1..(n + 1), r1[k].thread = t, NoneBetween(r1, t, k, n + 2)
        PROVE  r1[k].kind # d1
    <3>1. CASE k \in 1..n
      <4>1. NoneBetween(r, t, k, n + 1) /\ e.thread # t BY <1>1, <1>3, <2>3, <3>1
      <4> QED BY <1>1, <2>3, <3>1, <4>1 DEF InTurn, n
    <3>2. CASE k = n + 1 BY <1>1, <2>3, <3>2
    <3> QED BY <1>1, <3>1, <3>2
  <2>4. ASSUME NoneBetween(r1, t, 0, n + 2) PROVE s # d1
    <3>1. NoneBetween(r, t, 0, n + 1) /\ e.thread # t BY <1>1, <1>3, <2>4
    <3> QED BY <3>1 DEF InTurn, n
  <2>5. Len(r1) = n + 1 /\ Len(r1) + 1 = n + 2 BY <1>1
  <2> QED BY <2>1, <2>2, <2>3, <2>4, <2>5 DEF InTurn
<1> QED BY <1>4 DEF r1

\* The first event is consumed: it was not what had been seen before.
LEMMA TailInTurn ==
  ASSUME NEW r \in Seq(Events), r # <<>>, NEW t, NEW s, NEW d, InTurn(r, t, s, d)
  PROVE  /\ r[1].thread = t => r[1].kind # s
         /\ InTurn(Tail(r), t, IF r[1].thread = t THEN r[1].kind ELSE s, d)
<1> DEFINE r1 == Tail(r)
           n == Len(r1)
           s1 == IF r[1].thread = t THEN r[1].kind ELSE s
<1>1. /\ r1 \in Seq(Events) /\ n \in Nat /\ Len(r) = n + 1 /\ \A k \in 1..n : r1[k] = r[k + 1]
  BY HeadTailProperties, EmptySeq, LenProperties
<1> HIDE DEF r1, n
<1>2. \A k, l \in 0..(n + 1) : NoneBetween(r1, t, k, l) <=> NoneBetween(r, t, k + 1, l + 1)
  <2> SUFFICES ASSUME NEW k \in 0..(n + 1), NEW l \in 0..(n + 1)
               PROVE  NoneBetween(r1, t, k, l) <=> NoneBetween(r, t, k + 1, l + 1)
    OBVIOUS
  <2>1. ASSUME NoneBetween(r1, t, k, l), NEW m \in (k + 1 + 1)..(l + 1 - 1)
        PROVE  r[m].thread # t
    <3>1. m - 1 \in (k + 1)..(l - 1) /\ m - 1 \in 1..n BY <1>1
    <3>2. r1[m - 1] = r[m] BY <1>1, <3>1
    <3> QED BY <2>1, <3>1, <3>2 DEF NoneBetween
  <2>2. ASSUME NoneBetween(r, t, k + 1, l + 1), NEW m \in (k + 1)..(l - 1)
        PROVE  r1[m].thread # t
    <3>1. m + 1 \in (k + 1 + 1)..(l + 1 - 1) /\ m \in 1..n BY <1>1
    <3> QED BY <1>1, <2>2, <3>1 DEF NoneBetween
  <2> QED BY <2>1, <2>2 DEF NoneBetween
<1>3. \A l \in 1..(n + 2) : r[1].thread # t /\ NoneBetween(r, t, 1, l) => NoneBetween(r, t, 0, l)
  <2> SUFFICES ASSUME NEW l \in 1..(n + 2), r[1].thread # t, NoneBetween(r, t, 1, l),
                      NEW m \in (0 + 1)..(l - 1)
               PROVE  r[m].thread # t
    BY DEF NoneBetween
  <2>1. m = 1 \/ m \in (1 + 1)..(l - 1) BY <1>1
  <2> QED BY <2>1 DEF NoneBetween
<1>4. r[1].thread = t => r[1].kind # s
  <2>1. 1 \in 1..Len(r) /\ NoneBetween(r, t, 0, 1) BY <1>1 DEF NoneBetween
  <2> QED BY <2>1 DEF InTurn
<1> HIDE DEF s1
<1>5. InTurn(r1, t, s1, d)
  <2>1. ASSUME NEW k \in 1..n, NEW l \in 1..n, k < l, r1[k].thread = t,
               r1[l].thread = t, NoneBetween(r1, t, k, l)
        PROVE  r1[k].kind # r1[l].kind
    <3>1. /\ k + 1 \in 1..Len(r) /\ l + 1 \in 1..Len(r) /\ k + 1 < l + 1
          /\ r1[k] = r[k + 1] /\ r1[l] = r[l + 1]
      BY <1>1, <2>1
    <3>2. NoneBetween(r, t, k + 1, l + 1) BY <1>1, <1>2, <2>1
    <3> QED BY <2>1, <3>1, <3>2 DEF InTurn
  <2>2. ASSUME NEW k \in 1..n, r1[k].thread = t, NoneBetween(r1, t, 0, k)
        PROVE  r1[k].kind # s1
    <3>1. /\ k + 1 \in 1..Len(r) /\ 1 \in 1..Len(r) /\ 1 < k + 1 /\ r1[k] = r[k + 1]
          /\ k + 1 \in 1..(n + 2)
      BY <1>1
    <3>2. NoneBetween(r, t, 1, k + 1)
      <4>1. 0 \in 0..(n + 1) /\ k \in 0..(n + 1) /\ 0 + 1 = 1 BY <1>1
      <4> QED BY <1>2, <2>2, <4>1
    <3>3. CASE r[1].thread = t BY <2>2, <3>1, <3>2, <3>3 DEF InTurn, s1
    <3>4. CASE r[1].thread # t
      <4>1. NoneBetween(r, t, 0, k + 1) BY <1>3, <3>1, <3>2, <3>4
      <4> QED BY <2>2, <3>1, <3>4, <4>1 DEF InTurn, s1
    <3> QED BY <3>3, <3>4
  <2>3. ASSUME NEW k \in 1..n, r1[k].thread = t, NoneBetween(r1, t, k, n + 1)
        PROVE  r1[k].kind # d
    <3>1. k + 1 \in 1..Len(r) /\ r1[k] = r[k + 1] BY <1>1
    <3>2. NoneBetween(r, t, k + 1, Len(r) + 1) BY <1>1, <1>2, <2>3
    <3> QED BY <2>3, <3>1, <3>2 DEF InTurn
  <2>4. ASSUME NoneBetween(r1, t, 0, n + 1) PROVE s1 # d
    <3>1. NoneBetween(r, t, 1, Len(r) + 1)
      <4>1. 0 \in 0..(n + 1) /\ n + 1 \in 0..(n + 1) /\ 0 + 1 = 1 BY <1>1
      <4> QED BY <1>1, <1>2, <2>4, <4>1
    <3>2. 1 \in 1..Len(r) /\ Len(r) + 1 \in 1..(n + 2) BY <1>1
    <3>3. CASE r[1].thread = t BY <3>1, <3>2, <3>3 DEF InTurn, s1
    <3>4. CASE r[1].thread # t
      <4>1. NoneBetween(r, t, 0, Len(r) + 1) BY <1>3, <3>1, <3>2, <3>4
      <4> QED BY <3>4, <4>1 DEF InTurn, s1
    <3> QED BY <3>3, <3>4
  <2> QED BY <2>1, <2>2, <2>3, <2>4 DEF InTurn, n
<1> QED BY <1>4, <1>5 DEF r1, s1

\* Only threads and kinds matter.
LEMMA SameInTurn ==
  ASSUME NEW r \in Seq(Events), NEW r1 \in Seq(Events), Len(r1) = Len(r),
         \A k \in 1..Len(r) : r1[k].thread = r[k].thread /\ r1[k].kind = r[k].kind,
         NEW t, NEW s, NEW d, InTurn(r, t, s, d)
  PROVE  InTurn(r1, t, s, d)
<1>1. Len(r) \in Nat BY LenProperties
<1>2. \A k, l \in 0..(Len(r) + 1) : NoneBetween(r1, t, k, l) <=> NoneBetween(r, t, k, l)
  <2> SUFFICES ASSUME NEW k \in 0..(Len(r) + 1), NEW l \in 0..(Len(r) + 1)
               PROVE  NoneBetween(r1, t, k, l) <=> NoneBetween(r, t, k, l)
    OBVIOUS
  <2>1. (k + 1)..(l - 1) \subseteq 1..Len(r) BY <1>1
  <2> QED BY <2>1 DEF NoneBetween
<1> QED BY <1>1, <1>2 DEF InTurn

\* A program of thread t runs and has not yet got as far as its event.
Pending(t) == \E c \in CPUs : prog[c].thread = t /\ prog[c].at \in {"update", "reserve"}

\* The kind of the event that thread t reserves next.
Due(t) == IF Pending(t) <=> t \in inside THEN "enter" ELSE "exit"

\* A thread is on one CPU at a time.
OneCPU == \A c, d \in CPUs : prog[c].thread \in Threads /\ prog[d].thread = prog[c].thread => c = d

\* The program that runs is the one for where its thread is.
KindFits == \A c \in CPUs : prog[c].thread \in Threads =>
              (prog[c].kind = "enter" <=> prog[c].thread \in inside)

\* The events of every thread that missed none are in turn.
RingInTurn == \A t \in Threads \ missed : InTurn(ringbuf, t, seen[t], Due(t))

\* The inductive invariant of the events.
EInv == MTypes /\ OneCPU /\ KindFits /\ RingInTurn

\* A thread at a tracepoint: the event due is the one its program will reserve.
LEMMA FireEInv ==
  ASSUME EInv, MTypes', NEW t \in Threads, NEW kind \in Kinds, Fire(t, kind),
         \/ kind = "enter" /\ t \notin inside /\ inside' = inside \cup {t}
         \/ kind = "exit" /\ t \in inside /\ inside' = inside \ {t}
  PROVE  EInv' /\ ringbuf' = ringbuf
<1> USE DEF EInv
<1>1. /\ ringbuf' = ringbuf /\ seen' = seen
      /\ \A c \in CPUs : prog[c].thread # t
  BY FireFact
<1>2. \A u \in Threads \ {t} : u \in inside' <=> u \in inside OBVIOUS
<1>3. ~Pending(t) BY <1>1 DEF Pending
<1>4. CASE prog' = prog /\ missed' = missed \cup {t}
  <2>1. OneCPU' BY <1>4 DEF OneCPU
  <2>2. KindFits' BY <1>1, <1>2, <1>4 DEF KindFits
  <2>3. \A u \in Threads \ {t} : Due(u)' = Due(u) BY <1>2, <1>4 DEF Due, Pending
  <2>4. RingInTurn' BY <1>1, <1>4, <2>3 DEF RingInTurn
  <2> QED BY <1>1, <2>1, <2>2, <2>4
<1>5. CASE ~(prog' = prog /\ missed' = missed \cup {t})
  <2>1. PICK c \in CPUs :
           /\ prog' = [prog EXCEPT ![c] = prog'[c]] /\ prog[c] = NoProg
           /\ prog'[c].thread = t /\ prog'[c].kind = kind
           /\ prog'[c].at \in {"update", "reserve"}
    BY <1>5, FireFact
  <2>2. missed' = missed BY <1>5, FireFact
  <2>3. \A d \in CPUs \ {c} : prog'[d] = prog[d] BY <2>1 DEF MTypes
  <2>4. prog[c].thread \notin Threads BY <2>1, MapsAssumption DEF NoProg
  <2>5. OneCPU' BY <1>1, <2>1, <2>3 DEF OneCPU
  <2>6. KindFits'
    <3>1. kind = "enter" <=> t \in inside' OBVIOUS
    <3> QED BY <1>1, <1>2, <2>1, <2>3, <3>1 DEF KindFits
  <2>7. \A u \in Threads \ {t} : Pending(u)' <=> Pending(u) BY <2>1, <2>3, <2>4 DEF Pending
  <2>8. Pending(t)' BY <2>1 DEF Pending
  <2>9. \A u \in Threads : Due(u)' = Due(u)
    <3>1. \A u \in Threads \ {t} : Due(u)' = Due(u) BY <1>2, <2>7 DEF Due
    <3>2. Due(t)' = Due(t) BY <1>3, <2>8 DEF Due
    <3> QED BY <3>1, <3>2
  <2>10. RingInTurn' BY <1>1, <2>2, <2>9 DEF RingInTurn
  <2> QED BY <1>1, <2>5, <2>6, <2>10
<1> QED BY <1>4, <1>5

\* A program's step, on a CPU whose thread is not on any other.
LEMMA ProgEInv ==
  ASSUME EInv, MTypes', NEW c \in CPUs, ProgStep(c)
  PROVE  EInv' /\ Len(ringbuf') >= Len(ringbuf)
<1> USE DEF EInv
<1>1. /\ prog[c] \in Running /\ prog' = [prog EXCEPT ![c] = prog'[c]]
      /\ inside' = inside /\ seen' = seen
      /\ Counts(c) \/ Reserves(c) \/ Drops(c) \/ Submits(c)
  BY ProgFact
<1>0. PICK t : t = prog[c].thread OBVIOUS
<1>2. /\ t \in Threads /\ prog[c].kind \in Kinds
      /\ prog[c].kind = "enter" <=> t \in inside
  BY <1>0, <1>1 DEF Running, KindFits
<1>3. \A d \in CPUs \ {c} : prog'[d] = prog[d] BY <1>1 DEF MTypes
<1>4. prog'[c] = NoProg \/ (prog'[c].thread = t /\ prog'[c].kind = prog[c].kind)
  BY <1>0, <1>1 DEF Counts, Reserves, Drops, Submits
<1>5. \A d \in CPUs : prog'[d].thread \in Threads =>
        prog'[d].thread = prog[d].thread /\ prog'[d].kind = prog[d].kind
  BY <1>0, <1>3, <1>4, MapsAssumption DEF NoProg
<1>6. OneCPU' BY <1>5 DEF OneCPU
<1>7. KindFits' BY <1>1, <1>5 DEF KindFits
<1>8. \A u \in Threads \ {t} : Due(u)' = Due(u)
  <2>1. prog'[c].thread \notin Threads \ {t} BY <1>4, MapsAssumption DEF NoProg
  <2>2. \A u \in Threads \ {t} : Pending(u)' <=> Pending(u) BY <1>0, <1>3, <2>1 DEF Pending
  <2> QED BY <1>1, <2>2 DEF Due
<1>9. \A d \in CPUs \ {c} : prog[d].thread # t /\ prog'[d].thread # t
  BY <1>0, <1>2, <1>3 DEF OneCPU
<1>10. Len(ringbuf) \in Nat /\ ringbuf \in Seq(Events) BY DEF MTypes
<1>11. CASE Counts(c)
  <2>1. ringbuf' = ringbuf /\ missed' = missed /\ Pending(t) /\ Pending(t)'
    BY <1>0, <1>11 DEF Counts, Pending
  <2>2. Due(t)' = Due(t) BY <1>1, <2>1 DEF Due
  <2>3. RingInTurn' BY <1>1, <1>8, <2>1, <2>2 DEF RingInTurn
  <2> QED BY <1>6, <1>7, <1>10, <2>1, <2>3
<1>12. CASE Reserves(c)
  <2>0. PICK r \in Rets(c) :
           ringbuf' = Append(ringbuf, [thread |-> t, ret |-> r, busy |-> TRUE,
                                       kind |-> prog[c].kind])
    BY <1>0, <1>12 DEF Reserves
  <2> DEFINE e == [thread |-> t, ret |-> r, busy |-> TRUE, kind |-> prog[c].kind]
  <2>1. ringbuf' = Append(ringbuf, e) /\ missed' = missed BY <1>12, <2>0 DEF Reserves
  <2>2. Pending(t) BY <1>0, <1>12 DEF Reserves, Pending
  <2>3. ~Pending(t)'
    <3>1. prog'[c].at = "submit" BY <1>12 DEF Reserves
    <3> QED BY <1>9, <3>1 DEF Pending
  <2>4. Due(t) = prog[c].kind /\ Due(t)' # Due(t)
    BY <1>1, <1>2, <2>2, <2>3 DEF Due, Kinds
  <2>5. e \in Events /\ e.thread = t /\ e.kind = prog[c].kind BY <1>0, <1>1, NewEvent
  <2>6. ASSUME NEW u \in Threads \ missed' PROVE InTurn(ringbuf', u, seen'[u], Due(u)')
    <3> HIDE DEF e
    <3>1. InTurn(ringbuf, u, seen[u], Due(u)) BY <2>1, <2>6 DEF RingInTurn
    <3>2. IF e.thread = u THEN e.kind = Due(u) /\ Due(u)' # Due(u) ELSE Due(u)' = Due(u)
      BY <1>8, <2>4, <2>5
    <3>3. InTurn(Append(ringbuf, e), u, seen[u], Due(u)')
      BY <1>10, <2>5, <3>1, <3>2, AppendInTurn
    <3> QED BY <1>1, <2>1, <3>3
  <2>7. Len(ringbuf') = Len(ringbuf) + 1 BY <1>10, <2>1, <2>5, AppendProperties
  <2> QED BY <1>6, <1>7, <1>10, <2>6, <2>7 DEF RingInTurn
<1>13. CASE Drops(c)
  <2>1. ringbuf' = ringbuf /\ missed' = missed \cup {t} BY <1>0, <1>13 DEF Drops
  <2>2. RingInTurn' BY <1>1, <1>8, <2>1 DEF RingInTurn
  <2> QED BY <1>6, <1>7, <1>10, <2>1, <2>2
<1>14. CASE Submits(c)
  <2>1. missed' = missed BY <1>14 DEF Submits
  <2>2. /\ ringbuf' \in Seq(Events) /\ Len(ringbuf') = Len(ringbuf)
        /\ \A k \in 1..Len(ringbuf) : /\ ringbuf'[k].thread = ringbuf[k].thread
                                      /\ ringbuf'[k].kind = ringbuf[k].kind
    BY <1>0, <1>10, <1>14, SubmitRing DEF Submits
  <2>3. ~Pending(t) /\ ~Pending(t)'
    <3>1. prog[c].at = "submit" /\ prog'[c].at = "idle" BY <1>14 DEF Submits, NoProg
    <3> QED BY <1>9, <3>1 DEF Pending
  <2>4. Due(t)' = Due(t) BY <1>1, <2>3 DEF Due
  <2>5. ASSUME NEW u \in Threads \ missed' PROVE InTurn(ringbuf', u, seen'[u], Due(u)')
    <3>1. InTurn(ringbuf, u, seen[u], Due(u)) BY <2>1, <2>5 DEF RingInTurn
    <3>2. InTurn(ringbuf', u, seen[u], Due(u)) BY <1>10, <2>2, <3>1, SameInTurn
    <3> QED BY <1>1, <1>8, <2>4, <3>2
  <2> QED BY <1>6, <1>7, <1>10, <2>2, <2>5 DEF RingInTurn
<1> QED BY <1>1, <1>11, <1>12, <1>13, <1>14

\* The poll hands an event to handle_rb_event that is not what came before.
LEMMA ConsumeEInv ==
  ASSUME EInv, MTypes', Consume
  PROVE  EInv' /\ (ringbuf[1].thread \in missed \/ TakesTurn(ringbuf[1]))
<1> USE DEF EInv
<1> DEFINE e == ringbuf[1]
<1>1. /\ ringbuf # <<>> /\ ringbuf' = Tail(ringbuf)
      /\ seen' = [seen EXCEPT ![e.thread] = e.kind]
      /\ UNCHANGED <<inside, prog, missed>>
  BY DEF Consume, MayConsume, threadVars
<1>2. ringbuf \in Seq(Events) /\ seen \in [Threads -> Kinds \cup {"none"}] BY DEF MTypes
<1>3. e \in Events /\ e.thread \in Threads
  <2>1. Len(ringbuf) \in Nat /\ Len(ringbuf) # 0 BY <1>1, <1>2, EmptySeq
  <2>2. 1 \in 1..Len(ringbuf) BY <2>1
  <2>3. e \in Events BY <1>2, <2>2, ElementOfSeq
  <2> QED BY <2>3 DEF Events
<1>4. \A u \in Threads : Due(u)' = Due(u) BY <1>1 DEF Due, Pending
<1> HIDE DEF e
<1>5. ASSUME NEW u \in Threads \ missed
      PROVE  /\ e.thread = u => e.kind # seen[u]
             /\ InTurn(ringbuf', u, seen'[u], Due(u)')
  <2>1. InTurn(ringbuf, u, seen[u], Due(u)) BY DEF RingInTurn
  <2>2. /\ e.thread = u => e.kind # seen[u]
        /\ InTurn(Tail(ringbuf), u, IF e.thread = u THEN e.kind ELSE seen[u], Due(u))
    BY <1>1, <1>2, <2>1, TailInTurn DEF e
  <2>3. seen'[u] = IF e.thread = u THEN e.kind ELSE seen[u] BY <1>1, <1>2
  <2> QED BY <1>1, <1>4, <2>2, <2>3
<1>6. RingInTurn' BY <1>1, <1>5 DEF RingInTurn
<1>7. OneCPU' /\ KindFits' BY <1>1 DEF OneCPU, KindFits
<1>8. e.thread \in missed \/ TakesTurn(e)
  <2>1. e.ret # 0 => e.kind = "exit" BY <1>3 DEF Events, Kinds
  <2> QED BY <1>3, <1>5, <2>1 DEF TakesTurn
<1> QED BY <1>1, <1>6, <1>7, <1>8 DEF e

\* Every step keeps the events in turn.
LEMMA NextEInv ==
  ASSUME EInv, [Next]_vars
  PROVE  /\ EInv'
         /\ ringbuf # <<>> /\ ringbuf' = Tail(ringbuf) =>
              ringbuf[1].thread \in missed \/ TakesTurn(ringbuf[1])
<1>0. MTypes /\ MTypes' BY MapsTypes DEF EInv
<1>1. ASSUME Len(ringbuf') >= Len(ringbuf) PROVE ~(ringbuf # <<>> /\ ringbuf' = Tail(ringbuf))
  <2> SUFFICES ASSUME ringbuf # <<>>, ringbuf' = Tail(ringbuf) PROVE FALSE
    OBVIOUS
  <2>1. ringbuf \in Seq(Events) BY <1>0 DEF MTypes
  <2>2. Len(ringbuf) \in Nat /\ Len(Tail(ringbuf)) = Len(ringbuf) - 1
    BY <2>1, HeadTailProperties, EmptySeq
  <2> QED BY <1>1, <2>2
<1>2. Len(ringbuf) \in Nat BY <1>0 DEF MTypes
<1>3. ASSUME NEW t \in Threads, EnterOpenat(t) \/ ExitOpenat(t)
      PROVE  EInv' /\ ringbuf' = ringbuf
  <2>1. CASE EnterOpenat(t) BY <1>0, <2>1, FireEInv DEF EnterOpenat, Kinds
  <2>2. CASE ExitOpenat(t) BY <1>0, <2>2, FireEInv DEF ExitOpenat, Kinds
  <2> QED BY <1>3, <2>1, <2>2
<1>4. ASSUME NEW c \in CPUs, ProgStep(c) PROVE EInv' /\ Len(ringbuf') >= Len(ringbuf)
  BY <1>0, <1>4, ProgEInv
<1>5. CASE Consume BY <1>0, <1>5, ConsumeEInv
<1>6. CASE (MainStep /\ ~Consume) \/ Signal \/ UNCHANGED vars
  <2>1. UNCHANGED <<inside, prog, ringbuf, missed, seen>>
    BY <1>6, MainAside DEF threadVars, kernelVars
  <2>2. \A u \in Threads : Due(u)' = Due(u) BY <2>1 DEF Due, Pending
  <2>3. RingInTurn' BY <2>1, <2>2 DEF EInv, RingInTurn
  <2>4. OneCPU' /\ KindFits' BY <2>1 DEF EInv, OneCPU, KindFits
  <2> QED BY <1>0, <1>1, <1>2, <2>1, <2>3, <2>4 DEF EInv
<1> QED BY <1>1, <1>2, <1>3, <1>4, <1>5, <1>6 DEF Next, MainStep

\* On any number of CPUs, with any number of threads and any results, handle_rb_event gets
\* the events of a thread in the order in which its calls caused them, unless one of its
\* own was dropped, and between two with a result one of an entry.
THEOREM EventsTakeTurns == Spec => EventsInTurn
<1>1. Init => EInv
  <2> SUFFICES ASSUME Init PROVE EInv
    OBVIOUS
  <2>1. MTypes BY InitMTypes
  <2>2. \A c \in CPUs : prog[c].thread \notin Threads BY MapsAssumption DEF Init, NoProg
  <2>3. \A t \in Threads : Due(t) \in Kinds BY DEF Due, Kinds
  <2>4. RingInTurn
    <3>1. ringbuf = <<>> /\ Len(ringbuf) = 0 BY DEF Init
    <3>2. \A t \in Threads : seen[t] = "none" BY DEF Init
    <3> QED BY <2>3, <3>1, <3>2 DEF RingInTurn, InTurn, Kinds
  <2> QED BY <2>1, <2>2, <2>4 DEF EInv, OneCPU, KindFits
<1>2. EInv /\ [Next]_vars => EInv' BY NextEInv
<1>3. EInv /\ [Next]_vars =>
        [main = "poll" /\ ringbuf # <<>> /\ ringbuf' = Tail(ringbuf) =>
           ringbuf[1].thread \in missed \/ TakesTurn(ringbuf[1])]_vars
  BY NextEInv
<1> QED BY <1>1, <1>2, <1>3, PTL DEF Spec, EventsInTurn

-----------------------------------------------------------------------------
(***************************************************************************)
(* use_maps: a pass over the map.                                          *)
(***************************************************************************)
PassTypes == pass \in [first : SUBSET Pids, shown : SUBSET Pids, cnt : Nat, prev_key : Nat, key : Nat]

\* A pass on its way: what of its first keys is printed, and the rest lies ahead.
UnderWay ==
  /\ pass.first \subseteq Keys
  /\ Cardinality(pass.shown) = pass.cnt /\ pass.cnt < ShowMax
  /\ pass.cnt # 0 => pass.prev_key \in Keys
  /\ \A k \in pass.shown : k <= pass.prev_key
  /\ pass.cnt # 0 => \A k \in pass.first : k <= pass.prev_key => k \in pass.shown

\* The key that is to be printed is the next of the first keys or comes before it.
KeyAhead ==
  /\ pass.key \in Keys
  /\ \A k \in pass.first : k \in pass.shown \/ pass.key <= k
  /\ pass.cnt # 0 => pass.prev_key < pass.key

\* What the pass of a machine with one CPU has done so far.
PassSoFar ==
  /\ main \notin {"loop", "next_key", "show"} => pass = NoPass
  /\ main \in {"next_key", "show"} => UnderWay
  /\ main = "show" => KeyAhead

\* The inductive invariant of the pass.
PInv == MTypes /\ PassTypes /\ PassIsComplete /\ (Cardinality(online) = 1 => PassSoFar)

\* No key is ever deleted.
LEMMA KeysGrow ==
  ASSUME MTypes, [Next]_vars
  PROVE  Keys \subseteq Keys' /\ online' = online
<1>1. ASSUME NEW t \in Threads, EnterOpenat(t) \/ ExitOpenat(t) PROVE UNCHANGED <<openat_counts, online>>
  BY <1>1 DEF EnterOpenat, ExitOpenat, Fire, fixed
<1>2. ASSUME NEW c \in CPUs, ProgStep(c) PROVE Keys \subseteq Keys' /\ online' = online
  <2>1. online' = online BY <1>2, ProgFact
  <2>2. CASE Update(c)
    <3> DEFINE p == PidOf[prog[c].thread]
    <3>1. prog[c].at # "idle" /\ openat_counts' = SetCount(p, c, prog[c].new_count)
      BY <2>2 DEF Update
    <3>2. prog[c] \in Running /\ p \in Pids BY <3>1, AtWork
    <3>3. prog[c].new_count \in Nat BY <3>2 DEF Running
    <3>4. /\ \A q \in Keys \ {p} : q \in Keys'
          /\ p \in Keys => Keys' = Keys
      <4> HIDE DEF p
      <4> QED BY <3>1, <3>2, <3>3, SetCountFact
    <3> QED BY <2>1, <3>4
  <2>3. CASE ~Update(c)
    <3>1. openat_counts' = openat_counts BY <1>2, <2>3 DEF ProgStep, Reserve, Submit
    <3> QED BY <2>1, <3>1 DEF Keys
  <2> QED BY <2>2, <2>3
<1>3. CASE Consume BY <1>3 DEF Consume, fixed, Keys
<1>4. CASE (MainStep /\ ~Consume) \/ Signal \/ UNCHANGED vars
  <2>1. UNCHANGED <<fixed, kernelVars>> BY <1>4, MainAside
  <2> QED BY <2>1 DEF fixed, kernelVars, Keys
<1> QED BY <1>1, <1>2, <1>3, <1>4 DEF Next, MainStep, Keys

\* A pass that begins.
LEMMA NoPassFact ==
  ASSUME MTypes, NEW S \in SUBSET Keys
  PROVE  /\ [NoPass EXCEPT !.first = S] = [first |-> S, shown |-> {}, cnt |-> 0, prev_key |-> 0, key |-> 0]
         /\ NoPass \in [first : SUBSET Pids, shown : SUBSET Pids, cnt : Nat, prev_key : Nat, key : Nat]
         /\ [NoPass EXCEPT !.first = S] \in
              [first : SUBSET Pids, shown : SUBSET Pids, cnt : Nat, prev_key : Nat, key : Nat]
<1>1. [NoPass EXCEPT !.first = S] = [first |-> S, shown |-> {}, cnt |-> 0, prev_key |-> 0, key |-> 0]
  BY DEF NoPass
<1>2. S \in SUBSET Pids BY DEF MTypes
<1> QED BY <1>1, <1>2 DEF NoPass

\* Steps that leave main and its pass alone may only add keys.
LEMMA PassAside ==
  ASSUME PInv, MTypes', Keys \subseteq Keys', UNCHANGED <<main, pass, online>>
  PROVE  PInv'
<1> USE DEF PInv
<1>1. PassTypes' /\ PassIsComplete' BY DEF PassTypes, PassIsComplete
<1>2. UnderWay => UnderWay' BY DEF UnderWay
<1>3. KeyAhead => KeyAhead' BY DEF KeyAhead
<1>4. PassSoFar => PassSoFar' BY <1>2, <1>3 DEF PassSoFar
<1> QED BY <1>1, <1>4

\* bpf_map_get_next_key: the pass ends when nothing lies ahead, and otherwise goes
\* on with the next key.
LEMMA NextKeyPInv ==
  ASSUME PInv, MTypes', NextKey
  PROVE  PInv'
<1> USE DEF PInv
<1> DEFINE A == After(pass.prev_key)
<1>1. Keys' = Keys /\ online' = online /\ main = "next_key"
  BY DEF NextKey, MainGoes, Keys, kernelVars, fixed
<1>2. A \subseteq Keys /\ Keys \subseteq Pids /\ Pids \subseteq Nat
  BY PidsAreNumbers DEF After, MTypes
<1>3. pass.first \subseteq Pids /\ pass.shown \subseteq Pids /\ pass.cnt \in Nat /\ pass.prev_key \in Nat
  BY DEF PassTypes
<1>4. CASE A = {}
  <2>1. main' = "loop" /\ pass' = pass BY <1>4 DEF NextKey, MainGoes
  <2>2. Cardinality(online) = 1 => pass.first \subseteq pass.shown
    <3> SUFFICES ASSUME Cardinality(online) = 1 PROVE pass.first \subseteq pass.shown
      OBVIOUS
    <3>1. UnderWay BY <1>1 DEF PassSoFar
    <3>2. CASE pass.cnt = 0 BY <1>4, <3>1, <3>2 DEF UnderWay, After
    <3>3. CASE pass.cnt # 0
      <4>1. \A k \in Keys : ~(k > pass.prev_key) BY <1>4, <3>1, <3>3 DEF UnderWay, After
      <4>2. \A k \in pass.first : k \in Keys /\ k \in Nat BY <1>2, <3>1 DEF UnderWay
      <4>3. \A k \in pass.first : k <= pass.prev_key
        <5> HIDE DEF A
        <5> SUFFICES ASSUME NEW k \in pass.first PROVE k <= pass.prev_key
          OBVIOUS
        <5>1. k \in Nat /\ ~(k > pass.prev_key) BY <4>1, <4>2
        <5> QED BY <1>3, <5>1
      <4> QED BY <3>1, <3>3, <4>3 DEF UnderWay
    <3> QED BY <3>2, <3>3
  <2> QED BY <1>1, <2>1, <2>2 DEF PassTypes, PassIsComplete, PassSoFar
<1>5. CASE A # {}
  <2>1. main' = "show" /\ pass' = [pass EXCEPT !.key = Min(A)] BY <1>5 DEF NextKey, MainGoes
  <2>2. Min(A) \in A /\ \A k \in A : Min(A) <= k
    <3>1. \E k \in A : \A l \in A : k <= l BY <1>2, <1>5, LeastElement
    <3> QED BY <3>1 DEF Min
  <2> HIDE DEF A
  <2>3. Min(A) \in Nat /\ Min(A) \in Keys BY <1>2, <2>2
  <2>4. /\ PassTypes' /\ pass'.key = Min(A) /\ pass'.first = pass.first /\ pass'.shown = pass.shown
        /\ pass'.cnt = pass.cnt /\ pass'.prev_key = pass.prev_key
    BY <2>1, <2>3 DEF PassTypes
  <2>5. ASSUME Cardinality(online) = 1 PROVE PassSoFar'
    <3>1. UnderWay BY <1>1, <2>5 DEF PassSoFar
    <3>2. UnderWay' BY <1>1, <2>4, <3>1 DEF UnderWay
    <3>3. CASE pass.cnt = 0
      <4>1. \A k \in pass.first : Min(A) <= k BY <2>2, <3>1, <3>3 DEF UnderWay, After, A
      <4>2. KeyAhead' BY <1>1, <2>3, <2>4, <3>3, <4>1 DEF KeyAhead
      <4> QED BY <2>1, <3>2, <4>2 DEF PassSoFar
    <3>4. CASE pass.cnt # 0
      <4>1. A = {k \in Keys : k > pass.prev_key} BY <3>1, <3>4 DEF A, After, UnderWay
      <4>2. pass.prev_key < Min(A) BY <1>2, <1>3, <2>2, <4>1
      <4>3. \A k \in pass.first : k \in pass.shown \/ Min(A) <= k
        <5> SUFFICES ASSUME NEW k \in pass.first, k \notin pass.shown PROVE Min(A) <= k
          OBVIOUS
        <5>1. k \in Keys /\ ~(k <= pass.prev_key) BY <3>1, <3>4 DEF UnderWay
        <5>2. k \in Nat BY <1>2, <5>1
        <5>3. k > pass.prev_key BY <1>3, <5>1, <5>2
        <5>4. k \in A BY <4>1, <5>1, <5>3
        <5> QED BY <2>2, <5>4
      <4>4. KeyAhead' BY <1>1, <2>3, <2>4, <4>2, <4>3 DEF KeyAhead
      <4> QED BY <2>1, <3>2, <4>4 DEF PassSoFar
    <3> QED BY <3>3, <3>4
  <2> QED BY <1>1, <2>1, <2>4, <2>5 DEF PassIsComplete
<1> QED BY <1>4, <1>5

\* A round of the pass: the key is printed and counted.
LEMMA ShowPInv ==
  ASSUME PInv, MTypes', Show
  PROVE  PInv'
<1> USE DEF PInv
<1>1. Keys' = Keys /\ online' = online /\ main = "show"
  BY DEF Show, Keys, kernelVars, fixed
<1>2. CASE Cardinality(online) # 1
  <2>1. PassTypes'
    <3>1. pass' = NoPass BY <1>2 DEF Show
    <3> QED BY <3>1, NoPassFact DEF PassTypes
  <2> QED BY <1>1, <1>2, <2>1 DEF PassIsComplete
<1>3. CASE Cardinality(online) = 1
  <2>1. pass' = Advance /\ main' = IF pass'.cnt >= ShowMax THEN "loop" ELSE "next_key"
    BY <1>3 DEF Show
  <2>2. UnderWay /\ KeyAhead BY <1>1, <1>3 DEF PassSoFar
  <2>3. pass.first \subseteq Pids /\ pass.shown \subseteq Pids /\ pass.cnt \in Nat /\ pass.prev_key \in Nat
    BY DEF PassTypes
  <2>4. pass.key \in Pids /\ pass.key \in Nat BY <2>2, PidsAreNumbers DEF KeyAhead, MTypes
  <2>5. /\ pass'.first = pass.first /\ pass'.shown = pass.shown \cup {pass.key}
        /\ pass'.prev_key = pass.key /\ pass'.cnt = pass.cnt + 1 /\ PassTypes'
    <3>1. pass' = [first |-> pass.first, shown |-> pass.shown \cup {pass.key},
                   cnt |-> pass.cnt + 1, prev_key |-> pass.key, key |-> 0]
      BY <2>1 DEF Advance, PassTypes
    <3>2. pass.shown \cup {pass.key} \subseteq Pids /\ pass.cnt + 1 \in Nat BY <2>3, <2>4
    <3> QED BY <2>3, <2>4, <3>1, <3>2 DEF PassTypes
  <2>6. IsFiniteSet(pass.shown) BY <2>3, PidsAreNumbers, FS_Subset
  <2>7. pass.cnt = 0 => pass.shown = {} BY <2>2, <2>6, FS_EmptySet DEF UnderWay
  <2>8. /\ pass.key \notin pass.shown
        /\ \A k \in pass.shown : k <= pass.key
    <3>1. CASE pass.cnt = 0 BY <2>7, <3>1
    <3>2. CASE pass.cnt # 0
      <4>1. pass.prev_key < pass.key BY <2>2, <3>2 DEF KeyAhead
      <4>2. \A k \in pass.shown : k \in Nat /\ k <= pass.prev_key
        BY <2>2, <2>3, PidsAreNumbers DEF UnderWay
      <4>3. \A k \in pass.shown : k < pass.key BY <2>3, <2>4, <4>1, <4>2
      <4> QED BY <2>4, <4>2, <4>3
    <3> QED BY <3>1, <3>2
  <2>9. Cardinality(pass'.shown) = pass'.cnt
    <3>1. Cardinality(pass.shown) = pass.cnt BY <2>2 DEF UnderWay
    <3>2. Cardinality(pass.shown \cup {pass.key}) = Cardinality(pass.shown) + 1
      BY <2>6, <2>8, FS_AddElement
    <3> QED BY <2>5, <3>1, <3>2
  <2>10. CASE pass'.cnt >= ShowMax
    BY <1>1, <2>1, <2>5, <2>9, <2>10 DEF PassIsComplete, PassSoFar
  <2>11. CASE ~(pass'.cnt >= ShowMax)
    <3>1. main' = "next_key" BY <2>1, <2>11
    <3>2. \A k \in pass.first : k <= pass.key => k \in pass.shown \cup {pass.key}
      <4> SUFFICES ASSUME NEW k \in pass.first, k <= pass.key, k \notin pass.shown
                   PROVE  k = pass.key
        OBVIOUS
      <4>1. pass.key <= k BY <2>2 DEF KeyAhead
      <4>2. k \in Nat BY <2>3, PidsAreNumbers
      <4> QED BY <2>4, <4>1, <4>2
    <3>3. pass'.cnt < ShowMax BY <2>3, <2>5, <2>11, MapsAssumption
    <3>4. \A k \in pass'.shown : k <= pass'.prev_key BY <2>4, <2>5, <2>8
    <3>5. UnderWay' BY <1>1, <2>2, <2>5, <2>9, <3>2, <3>3, <3>4 DEF UnderWay, KeyAhead
    <3> QED BY <1>1, <2>5, <3>1, <3>5 DEF PassIsComplete, PassSoFar
  <2> QED BY <2>10, <2>11
<1> QED BY <1>2, <1>3

\* Every step keeps the pass on its way.
LEMMA NextPInv == PInv /\ [Next]_vars => PInv'
<1> SUFFICES ASSUME PInv, [Next]_vars PROVE PInv'
  OBVIOUS
<1>0. MTypes /\ MTypes' BY MapsTypes DEF PInv
<1>1. Keys \subseteq Keys' /\ online' = online BY <1>0, KeysGrow
<1>2. ASSUME NEW t \in Threads, EnterOpenat(t) \/ ExitOpenat(t) PROVE PInv'
  <2>1. UNCHANGED <<main, pass>> BY <1>2 DEF EnterOpenat, ExitOpenat, Fire, mainVars
  <2> QED BY <1>0, <1>1, <2>1, PassAside
<1>3. ASSUME NEW c \in CPUs, ProgStep(c) PROVE PInv'
  <2>1. UNCHANGED <<main, pass>> BY <1>3 DEF ProgStep, Update, Reserve, Submit, mainVars
  <2> QED BY <1>0, <1>1, <2>1, PassAside
<1>4. CASE Consume \/ Signal \/ UNCHANGED vars
  <2>1. UNCHANGED <<main, pass>> BY <1>4 DEF Consume, Signal, vars, mainVars
  <2> QED BY <1>0, <1>1, <2>1, PassAside
<1>5. CASE NextKey BY <1>0, <1>5, NextKeyPInv
<1>6. CASE Show BY <1>0, <1>6, ShowPInv
<1>7. CASE Load \/ Attach("enter", "attach_enter", "attach_exit") \/ Attach("exit", "attach_exit", "ring")
           \/ NewRing \/ Cleanup
  <2>1. /\ pass' = pass /\ main \notin {"loop", "next_key", "show"} /\ main' \notin {"next_key", "show"}
    BY <1>7 DEF Load, Attach, NewRing, Cleanup, MainGoes
  <2>2. Cardinality(online) = 1 => pass = NoPass BY <2>1 DEF PInv, PassSoFar
  <2>3. Cardinality(online') = 1 => PassSoFar' BY <1>1, <2>1, <2>2 DEF PassSoFar
  <2>4. NoPass.first \subseteq NoPass.shown BY DEF NoPass
  <2> QED BY <1>0, <1>1, <2>1, <2>2, <2>3, <2>4 DEF PInv, PassTypes, PassIsComplete
<1>8. CASE Loop
  <2>1. pass' = NoPass /\ main' \notin {"loop", "next_key", "show"} BY <1>8 DEF Loop, MainGoes
  <2>2. PassTypes' BY <1>0, <2>1, NoPassFact DEF PassTypes
  <2> QED BY <1>0, <2>1, <2>2 DEF PInv, PassIsComplete, PassSoFar
<1>9. CASE PollReturns /\ main' = "loop"
  <2>1. pass' = pass /\ main = "poll" BY <1>9 DEF PollReturns, MainGoes
  <2>2. Cardinality(online) = 1 => pass = NoPass BY <2>1 DEF PInv, PassSoFar
  <2>3. NoPass.first \subseteq NoPass.shown BY DEF NoPass
  <2> QED BY <1>0, <1>1, <1>9, <2>1, <2>2, <2>3 DEF PInv, PassTypes, PassIsComplete, PassSoFar
<1>10. CASE PollReturns /\ main' = "next_key"
  <2>1. pass' = [NoPass EXCEPT !.first = Keys] BY <1>10 DEF PollReturns, MainGoes
  <2>2. PassTypes' BY <1>0, <2>1, NoPassFact DEF PassTypes
  <2>3. /\ pass'.first = Keys /\ pass'.shown = {} /\ pass'.cnt = 0
    BY <1>0, <2>1, NoPassFact
  <2>4. Cardinality({}) = 0 BY FS_EmptySet
  <2>5. UnderWay' BY <1>1, <2>3, <2>4, MapsAssumption DEF UnderWay
  <2> QED BY <1>0, <1>10, <2>2, <2>5 DEF PInv, PassIsComplete, PassSoFar
<1>11. PollReturns => main' = "loop" \/ main' = "next_key" BY DEF PollReturns, MainGoes
<1> QED
  BY <1>2, <1>3, <1>4, <1>5, <1>6, <1>7, <1>8, <1>9, <1>10, <1>11 DEF Next, MainStep

\* On one CPU a pass over openat_counts prints every key that was in the map when
\* the pass began, or as many as it may, although the programs go on adding keys
\* before and behind the key the pass has got to.
THEOREM PassesAreComplete == Spec => []PassIsComplete
<1>1. Init => PInv
  <2> SUFFICES ASSUME Init PROVE PInv
    OBVIOUS
  <2>1. MTypes BY InitMTypes
  <2>2. pass = NoPass /\ main = "load" BY DEF Init
  <2>3. PassTypes BY <2>1, <2>2, NoPassFact DEF PassTypes
  <2> QED BY <2>1, <2>2, <2>3 DEF PInv, PassIsComplete, PassSoFar
<1>2. PInv => PassIsComplete BY DEF PInv
<1> QED BY <1>1, <1>2, NextPInv, PTL DEF Spec
=============================================================================
