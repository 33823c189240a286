------------------------- MODULE ResearchAgentProofs -------------------------
(***************************************************************************)
(* Theorems about ResearchAgent for any number of agents, any budget, any  *)
(* number of lost, delayed and repeated requests, and any operator.        *)
(***************************************************************************)
EXTENDS ResearchAgent, TLAPS

Keys == Nat \X Nat \X Nat
Results == (Nat \X {"ok", "fail"} \X Nat) \cup {<<>>}
ProposalRow == [key : Keys, iter : Nat]
ResultRow == [ok : Nat, fail : Nat]
CompleteActs == {"COMPLETED", "FAILED", "REQUEUE"}

Proposals == [kind : {"proposal"}, from : Agents, tok : Nat, key : Keys]
DecisionCalls == [kind : {"decision"}, from : Agents, tok : Nat, key : Results, act : Decisions]
Completions == [kind : {"complete"}, from : Agents, tok : Nat, act : CompleteActs]
Messages == Proposals \cup DecisionCalls \cup Completions

AgentRow ==
    [pc : {"idle", "look", "propose", "wait", "decide", "sent"}, tok : Nat, known : Nat,
     round : Nat, about : Results, loops : Nat, tries : Nat,
     msg : Messages \cup {<<>>}, after : {"idle", "look", "requeue"}]

\* The rows of the server have their types, and the processes their shapes.
Typed ==
    /\ completed \in Nat /\ requeues \in Nat
    /\ props \in Seq(ProposalRow)
    /\ work \in Seq({"pending", "running", "done"}) /\ Len(work) = Len(props)
    /\ res \in Seq(ResultRow) /\ Len(res) = Len(props)
    /\ lease \in [tok : Nat, owner : Agents \cup {NoOne}, live : BOOLEAN, last : Nat]
    /\ net \subseteq Messages
    /\ ag \in [Agents -> AgentRow]

\* A process that waits for an answer holds the request it sent.
SentHolds == \A a \in Agents : ag[a].pc = "sent" => ag[a].msg \in Messages

\* Tokens are numbered, and none is ahead of the lease row.
TokensIssued ==
    /\ lease.tok \in {0, lease.last}
    /\ \A m \in net : m.tok <= lease.last
    /\ \A a \in Agents : ag[a].tok <= lease.last

\* Proposals are stored in the order of their iterations.
IterationsInOrder ==
    /\ \A i \in 1..Len(props) : props[i].iter <= requeues
    /\ \A i, j \in 1..Len(props) : i <= j => props[i].iter <= props[j].iter

\* A decision is about a result of a stored proposal.
DecisionsStored == \A d \in decs : d.res[1] \in 1..Len(props)

\* The id every proposal of this iteration carries, sent or stored.
NowKey == IF Cur = 0 THEN <<completed, requeues, 1>> ELSE props[Cur].key

\* What a process knows while its lease is good: before the first proposal of
\* the iteration, the server's counter; afterwards, the proposal's id.
AgentFits(a) ==
    Holds(ag[a].tok) =>
      /\ Cur = 0 =>
           /\ ag[a].pc \in {"look", "propose"} => ag[a].known = completed /\ ag[a].tries = 0
           /\ ag[a].pc \notin {"wait", "decide"}
           /\ ag[a].pc = "sent" /\ ag[a].after = "look" => ag[a].msg.kind = "proposal"
      /\ ag[a].pc = "propose" => ProposalKey(a) = NowKey /\ (Cur = 0 => completed < Budget)
      /\ ag[a].pc = "decide" => Cur # 0 /\ work[Cur] = "done"

\* The same of a request on its way: it may be handled under the lease.
MessageFits(m) ==
    Holds(m.tok) =>
      /\ m.kind = "proposal" => m.key = NowKey /\ (Cur = 0 => completed < Budget)
      /\ m.kind = "decision" => Cur # 0 /\ work[Cur] = "done"

\* Unless a late attempt stored a result, the decided result of a proposal is
\* its last, and an undecided proposal leaves room in the budget.
DecidedOnce ==
    /\ \A d \in decs : work[d.res[1]] = "done" /\ d.res = TerminalResult(d.res[1])
    /\ Cur # 0 /\ (\A d \in decs : d.res[1] # Cur) => completed < Budget
    /\ completed <= Budget

AInv ==
    /\ Typed /\ SentHolds /\ TokensIssued /\ IterationsInOrder /\ DecisionsStored
    /\ ~refused => /\ \A a \in Agents : AgentFits(a)
                   /\ \A m \in net : MessageFits(m)
    /\ ~refused /\ ~overtaken => DecidedOnce
    /\ OneProposalPerIteration

-----------------------------------------------------------------------------
(* The current iteration                                                   *)

\* The rows a process is judged by.
Rows == <<completed, requeues, props, work, res, decs, lease>>

\* Cur is the last proposal, and 0 only before the first of the iteration.
LEMMA CurFacts ==
  ASSUME Typed, IterationsInOrder
  PROVE  /\ Cur \in 0..Len(props) /\ Len(props) \in Nat
         /\ Cur # 0 => Cur = Len(props) /\ Cur \in 1..Len(props) /\ props[Cur].iter = requeues
         /\ Cur = 0 => \A i \in 1..Len(props) : props[i].iter < requeues
<1>1. Len(props) \in Nat /\ requeues \in Nat
  BY DEF Typed
<1>2. \A i \in 1..Len(props) : props[i].iter \in Nat
  <2>1. \A i \in 1..Len(props) : props[i] \in ProposalRow
    BY DEF Typed
  <2> QED
    BY <2>1 DEF ProposalRow
<1>3. CASE props = <<>>
  BY <1>1, <1>3 DEF Cur
<1>4. CASE props # <<>>
  <2>1. Len(props) \in 1..Len(props)
    BY <1>1, <1>4 DEF Typed
  <2>2. CASE props[Len(props)].iter = requeues
    BY <1>1, <1>4, <2>1, <2>2 DEF Cur
  <2>3. CASE props[Len(props)].iter # requeues
    <3>1. props[Len(props)].iter < requeues
      BY <1>1, <1>2, <2>1, <2>3 DEF IterationsInOrder
    <3>2. \A i \in 1..Len(props) : props[i].iter < requeues
      BY <1>1, <1>2, <2>1, <3>1 DEF IterationsInOrder
    <3> QED
      BY <1>1, <2>3, <3>2 DEF Cur
  <2> QED
    BY <2>2, <2>3
<1> QED
  BY <1>3, <1>4

\* The result the phase answer carries is about the current proposal.
LEMMA CurResultFacts ==
  ASSUME Typed, IterationsInOrder
  PROVE  /\ CurResult \in Results
         /\ CurResult # <<>> => Cur # 0 /\ CurResult = TerminalResult(Cur) /\ CurResult[1] = Cur
<1>1. CASE Cur = 0
  BY <1>1 DEF CurResult, Results
<1>2. CASE Cur # 0
  <2>1. Cur \in 1..Len(res) /\ Cur \in Nat
    BY <1>2, CurFacts DEF Typed
  <2>2. res[Cur].ok \in Nat /\ res[Cur].fail \in Nat
    <3>1. res[Cur] \in ResultRow
      BY <2>1 DEF Typed
    <3> QED
      BY <3>1 DEF ResultRow
  <2>3. CurResult = TerminalResult(Cur)
    BY <1>2 DEF CurResult
  <2>4. TerminalResult(Cur) \in { <<Cur, "ok", res[Cur].ok>>, <<Cur, "fail", res[Cur].fail>>, <<>> }
    BY DEF TerminalResult
  <2>5. <<Cur, "ok", res[Cur].ok>> \in Results /\ <<Cur, "fail", res[Cur].fail>> \in Results
        /\ <<>> \in Results
    BY <2>1, <2>2 DEF Results
  <2> QED
    BY <1>2, <2>3, <2>4, <2>5
<1> QED
  BY <1>1, <1>2

\* Nothing about the iteration depends on anything but the rows.
LEMMA SameRows ==
  ASSUME UNCHANGED Rows
  PROVE  /\ Cur' = Cur /\ NowKey' = NowKey /\ UNCHANGED <<completed, requeues, props, work, res, decs, lease>>
         /\ \A t : Holds(t)' <=> Holds(t)
BY DEF Rows, Cur, NowKey, Holds

-----------------------------------------------------------------------------
(* A step of one process                                                   *)

\* A process moves and may send a request; the rows stay.
LEMMA AgentMoves ==
  ASSUME AInv, NEW a \in Agents, UNCHANGED <<Rows, overtaken>>, ~refused' => ~refused,
         ag' \in [Agents -> AgentRow], \A b \in Agents \ {a} : ag'[b] = ag[b],
         ag'[a].tok <= lease.last,
         ag'[a].pc = "sent" => ag'[a].msg \in Messages,
         net' \subseteq Messages,
         \A m \in net' \ net : m.tok <= lease.last /\ (~refused' => MessageFits(m)),
         ~refused' => AgentFits(a)'
  PROVE  AInv'
<1>1. /\ Cur' = Cur /\ NowKey' = NowKey /\ UNCHANGED <<completed, requeues, props, work, res, decs, lease>>
      /\ \A t : Holds(t)' <=> Holds(t)
  BY SameRows
<1>2. Typed'
  BY <1>1 DEF AInv, Typed
<1>3. SentHolds' /\ TokensIssued'
  BY <1>1 DEF AInv, SentHolds, TokensIssued
<1>4. IterationsInOrder' /\ DecisionsStored' /\ OneProposalPerIteration'
  BY <1>1 DEF AInv, IterationsInOrder, DecisionsStored, OneProposalPerIteration
<1>5. ASSUME ~refused', NEW b \in Agents PROVE AgentFits(b)'
  BY <1>1, <1>5 DEF AInv, AgentFits, ProposalKey, Holds
<1>6. ASSUME ~refused', NEW m \in net' PROVE MessageFits(m)'
  <2>1. MessageFits(m)
    BY <1>6 DEF AInv
  <2> QED
    BY <1>1, <2>1 DEF MessageFits, Holds
<1>7. ~refused' /\ ~overtaken' => DecidedOnce'
  BY <1>1 DEF AInv, DecidedOnce, TerminalResult
<1> QED
  BY <1>2, <1>3, <1>4, <1>5, <1>6, <1>7 DEF AInv

\* Process a is waiting for the answer to m, and goes on at x.
SentShape(a, m, x) ==
    /\ net' = net \cup {m}
    /\ ag' \in [Agents -> AgentRow]
    /\ \A b \in Agents \ {a} : ag'[b] = ag[b]
    /\ ag'[a].pc = "sent" /\ ag'[a].msg = m /\ ag'[a].after = x /\ ag'[a].tok = ag[a].tok

\* /complete is a request.
LEMMA CompleteIsMessage ==
  ASSUME Typed, NEW a \in Agents, NEW act \in CompleteActs
  PROVE  /\ Complete(a, act) \in Messages /\ Complete(a, act).kind = "complete"
         /\ Complete(a, act).tok = ag[a].tok
<1>1. ag[a].tok \in Nat
  BY DEF Typed, AgentRow
<1>2. Complete(a, act) \in Completions
  BY <1>1 DEF Complete, Completions
<1> QED
  BY <1>2 DEF Complete, Messages

\* Sending leaves every other process alone.
LEMMA SendsShape ==
  ASSUME Typed, NEW a \in Agents, NEW m \in Messages, NEW x \in {"idle", "look", "requeue"},
         Sends(a, m, x)
  PROVE  SentShape(a, m, x)
<1>1. ag[a] \in AgentRow /\ ag \in [Agents -> AgentRow]
  BY DEF Typed
<1> DEFINE row == [ag[a] EXCEPT !.pc = "sent", !.msg = m, !.after = x]
<1>2. ag' = [ag EXCEPT ![a] = row]
  BY <1>1 DEF Sends
<1>3. row \in AgentRow /\ row.pc = "sent" /\ row.msg = m /\ row.after = x /\ row.tok = ag[a].tok
  BY <1>1 DEF AgentRow
<1> HIDE DEF row
<1> QED
  BY <1>1, <1>2, <1>3 DEF SentShape, Sends

\* Before the first proposal of the iteration the only request a process
\* repeats after an error is its proposal.
LEMMA SentKeeps ==
  ASSUME AInv, NEW a \in Agents, NEW m \in Messages, NEW x, SentShape(a, m, x),
         UNCHANGED <<Rows, overtaken, refused>>, m.tok = ag[a].tok,
         ~refused => MessageFits(m),
         ~refused /\ x = "look" /\ Holds(ag[a].tok) /\ Cur = 0 => m.kind = "proposal"
  PROVE  AInv'
<1>1. ag[a].tok <= lease.last
  BY DEF AInv, TokensIssued
<1>2. net' \subseteq Messages
  BY DEF AInv, Typed, SentShape
<1>3. ~refused => AgentFits(a)'
  <2>1. Cur' = Cur /\ lease' = lease
    BY SameRows
  <2> QED
    BY <2>1 DEF AgentFits, SentShape, Holds
<1> QED
  BY <1>1, <1>2, <1>3, AgentMoves DEF SentShape

\* A /complete fits wherever it is sent from.
LEMMA CompleteFits ==
  ASSUME AInv, NEW a \in Agents, NEW act \in CompleteActs, NEW x \in {"idle", "look", "requeue"},
         SentShape(a, Complete(a, act), x), UNCHANGED <<Rows, overtaken, refused>>,
         ~refused /\ x = "look" /\ Holds(ag[a].tok) => Cur # 0
  PROVE  AInv'
<1>1. /\ Complete(a, act) \in Messages /\ Complete(a, act).kind = "complete"
      /\ Complete(a, act).tok = ag[a].tok
  BY CompleteIsMessage DEF AInv
<1>2. MessageFits(Complete(a, act))
  BY <1>1 DEF MessageFits
<1> QED
  BY <1>1, <1>2, SentKeeps

\* A process moves without a request.
LEMMA QuietMove ==
  ASSUME AInv, NEW a \in Agents, NEW row \in AgentRow, ag' = [ag EXCEPT ![a] = row],
         net' \subseteq net, UNCHANGED <<Rows, overtaken, refused>>,
         row.tok <= lease.last, row.pc # "sent",
         ~refused => AgentFits(a)'
  PROVE  AInv'
<1>1. ag' \in [Agents -> AgentRow] /\ ag'[a] = row /\ \A b \in Agents \ {a} : ag'[b] = ag[b]
  BY DEF AInv, Typed
<1>2. net' \subseteq Messages
  BY DEF AInv, Typed
<1> QED
  BY <1>1, <1>2, AgentMoves

\* A process that gives up holds nothing.
LEMMA TurnsOff ==
  ASSUME AInv, NEW a \in Agents, ag' = [ag EXCEPT ![a] = Off],
         net' \subseteq net, UNCHANGED <<Rows, overtaken, refused>>
  PROVE  AInv'
<1>1. Off \in AgentRow /\ Off.tok = 0 /\ Off.pc = "idle"
  BY DEF Off, AgentRow, Results
<1>2. ag'[a] = Off
  BY DEF AInv, Typed
<1>3. lease.last \in Nat
  BY DEF AInv, Typed
<1>4. AgentFits(a)'
  BY <1>1, <1>2 DEF AgentFits, Holds
<1>5. PICK row \in AgentRow : row = Off
  BY <1>1
<1>6. row.tok <= lease.last /\ row.pc # "sent" /\ ag' = [ag EXCEPT ![a] = row]
  BY <1>1, <1>3, <1>5
<1> QED
  BY <1>4, <1>6, QuietMove

-----------------------------------------------------------------------------
(* The phase loop                                                          *)

\* What a process learns from the phase.
LEMMA PhaseFacts ==
  /\ Phase = "NEEDS_PROPOSAL" => Cur = 0
  /\ Phase = "WAITING_RESULT" => Cur # 0
  /\ Phase = "NEEDS_DECISION" => Cur # 0 /\ work[Cur] = "done"
  /\ Phase = "NEEDS_COMPLETION" => Cur # 0
BY DEF Phase

\* A claimed run starts with the server's counter.
LEMMA WorkingRow ==
  ASSUME Typed, NEW a \in Agents, NEW t \in Nat
  PROVE  /\ Working(a, t) \in AgentRow
         /\ Working(a, t).pc = "look" /\ Working(a, t).tok = t
         /\ Working(a, t).known = completed /\ Working(a, t).tries = 0
<1>1. completed \in Nat
  BY DEF Typed
<1>2. Off \in AgentRow /\ Off.tries = 0
  BY DEF Off, AgentRow, Results
<1> QED
  BY <1>1, <1>2 DEF Working, AgentRow

\* The phase loop of a process whose lease row stays.
LEMMA LooksKeeps ==
  ASSUME AInv, NEW a \in Agents, Looks(a)
  PROVE  AInv'
<1>0. /\ ag[a].pc = "look" /\ Holds(ag[a].tok) /\ UNCHANGED <<Rows, overtaken, refused>>
  BY DEF Looks, server, history, Rows
<1>1. ag[a] \in AgentRow /\ ag \in [Agents -> AgentRow] /\ requeues \in Nat
  BY DEF AInv, Typed
<1>2. ag[a].tok <= lease.last /\ ~refused => AgentFits(a)
  BY DEF AInv, TokensIssued
<1>3. ag[a].tok <= lease.last
  BY DEF AInv, TokensIssued
<1>4. Cur' = Cur /\ NowKey' = NowKey /\ lease' = lease /\ completed' = completed /\ work' = work
  BY <1>0, SameRows
<1>n. PICK n \in Nat : n = ag[a].loops + 1
  BY <1>1 DEF AgentRow
<1> DEFINE turn == [ag EXCEPT ![a].loops = @ + 1]
<1>5. CASE Phase = "NEEDS_PROPOSAL" /\ ag[a].known < Budget /\ UNCHANGED net
           /\ ag' = [turn EXCEPT ![a].pc = "propose", ![a].round = requeues]
  <2> DEFINE row == [ag[a] EXCEPT !.loops = n, !.pc = "propose", !.round = requeues]
  <2>1. ag' = [ag EXCEPT ![a] = row] /\ ag'[a] = row
    BY <1>1, <1>n, <1>5
  <2>2. /\ row \in AgentRow /\ row.tok = ag[a].tok /\ row.pc = "propose"
        /\ row.known = ag[a].known /\ row.tries = ag[a].tries /\ row.round = requeues
    BY <1>1 DEF AgentRow
  <2> HIDE DEF row
  <2>3. Cur = 0
    BY <1>5, PhaseFacts
  <2>4. ~refused => ag[a].known = completed /\ ag[a].tries = 0
    BY <1>0, <1>2, <1>3, <2>3 DEF AgentFits
  <2>5. ~refused => AgentFits(a)'
    BY <1>4, <1>5, <2>1, <2>2, <2>3, <2>4 DEF AgentFits, ProposalKey, NowKey
  <2>6. row.pc # "sent" /\ row.tok <= lease.last /\ net' \subseteq net
    BY <1>3, <1>5, <2>2
  <2> QED
    BY <1>0, <2>1, <2>2, <2>5, <2>6, QuietMove
<1>6. CASE Sends(a, Complete(a, "COMPLETED"), "requeue")
  <2>1. Complete(a, "COMPLETED") \in Messages
    BY CompleteIsMessage DEF AInv, CompleteActs
  <2>2. SentShape(a, Complete(a, "COMPLETED"), "requeue")
    BY <1>6, <2>1, SendsShape DEF AInv
  <2> QED
    BY <1>0, <2>2, CompleteFits DEF CompleteActs
<1>7. CASE Phase = "WAITING_RESULT" /\ ag' = [turn EXCEPT ![a].pc = "wait"] /\ UNCHANGED net
  <2> DEFINE row == [ag[a] EXCEPT !.loops = n, !.pc = "wait"]
  <2>1. ag' = [ag EXCEPT ![a] = row] /\ ag'[a] = row
    BY <1>1, <1>n, <1>7
  <2>2. row \in AgentRow /\ row.tok = ag[a].tok /\ row.pc = "wait"
    BY <1>1 DEF AgentRow
  <2> HIDE DEF row
  <2>3. Cur # 0
    BY <1>7, PhaseFacts
  <2>4. ~refused => AgentFits(a)'
    BY <1>4, <2>1, <2>2, <2>3 DEF AgentFits
  <2>5. row.pc # "sent" /\ row.tok <= lease.last /\ net' \subseteq net
    BY <1>3, <1>7, <2>2
  <2> QED
    BY <1>0, <2>1, <2>2, <2>4, <2>5, QuietMove
<1>8. CASE Phase = "NEEDS_DECISION" /\ UNCHANGED net
           /\ ag' = [turn EXCEPT ![a].pc = "decide", ![a].about = CurResult]
  <2> DEFINE row == [ag[a] EXCEPT !.loops = n, !.pc = "decide", !.about = CurResult]
  <2>1. ag' = [ag EXCEPT ![a] = row] /\ ag'[a] = row
    BY <1>1, <1>n, <1>8
  <2>2. CurResult \in Results
    BY CurResultFacts DEF AInv
  <2>3. row \in AgentRow /\ row.tok = ag[a].tok /\ row.pc = "decide"
    BY <1>1, <2>2 DEF AgentRow
  <2> HIDE DEF row
  <2>4. Cur # 0 /\ work[Cur] = "done"
    BY <1>8, PhaseFacts
  <2>5. ~refused => AgentFits(a)'
    BY <1>4, <2>1, <2>3, <2>4 DEF AgentFits
  <2>6. row.pc # "sent" /\ row.tok <= lease.last /\ net' \subseteq net
    BY <1>3, <1>8, <2>3
  <2> QED
    BY <1>0, <2>1, <2>3, <2>5, <2>6, QuietMove
<1>9. CASE /\ Phase = "NEEDS_COMPLETION"
           /\ net' = net \cup {Complete(a, FinalAct(a))}
           /\ ag' = [turn EXCEPT ![a].pc = "sent", ![a].msg = Complete(a, FinalAct(a)),
                                 ![a].after = "look"]
  <2> DEFINE m == Complete(a, FinalAct(a))
             row == [ag[a] EXCEPT !.loops = n, !.pc = "sent", !.msg = m, !.after = "look"]
  <2>1. FinalAct(a) \in CompleteActs
    BY DEF FinalAct, CompleteActs
  <2>2. m \in Messages
    BY <2>1, CompleteIsMessage DEF AInv
  <2>3. ag' = [ag EXCEPT ![a] = row] /\ net' = net \cup {m}
    BY <1>1, <1>n, <1>9
  <2> HIDE DEF m
  <2>4. /\ row \in AgentRow /\ row.tok = ag[a].tok /\ row.pc = "sent" /\ row.msg = m
        /\ row.after = "look"
    BY <1>1, <2>2 DEF AgentRow
  <2> HIDE DEF row
  <2>5. SentShape(a, m, "look")
    BY <1>1, <2>3, <2>4 DEF SentShape
  <2>6. Cur # 0
    BY <1>9, PhaseFacts
  <2> QED
    BY <1>0, <2>1, <2>5, <2>6, CompleteFits DEF m
<1> QED
  BY <1>5, <1>6, <1>7, <1>8, <1>9 DEF Looks

\* The other steps of a process under the lease it has.
LEMMA AgentKeeps ==
  ASSUME AInv, NEW a \in Agents,
         \/ Resumes(a) \/ LosesLease(a) \/ RunsOutOfLoops(a) \/ Proposes(a)
         \/ (\E act \in Decisions : Decides(a, act))
         \/ SeesResult(a) \/ WaitTimesOut(a) \/ ThinkingFails(a)
         \/ GivesUp(a) \/ TimesOut(a) \/ Crashes(a)
  PROVE  AInv'
<1>0. UNCHANGED <<Rows, overtaken, refused>>
  BY DEF Resumes, LosesLease, RunsOutOfLoops, Proposes, Decides, SeesResult, WaitTimesOut,
         ThinkingFails, GivesUp, TimesOut, Crashes, server, history, Rows
<1>1. ag[a] \in AgentRow /\ ag \in [Agents -> AgentRow] /\ lease.tok \in Nat /\ lease.last \in Nat
  BY DEF AInv, Typed
<1>2. ag[a].tok <= lease.last /\ lease.tok <= lease.last
  BY <1>1 DEF AInv, TokensIssued
<1>3. ~refused => AgentFits(a)
  BY DEF AInv
<1>4. Cur' = Cur /\ NowKey' = NowKey /\ lease' = lease /\ completed' = completed /\ work' = work
  BY <1>0, SameRows
<1>5. ASSUME NEW act \in CompleteActs, NEW x \in {"idle", "look", "requeue"},
             Sends(a, Complete(a, act), x), ~refused /\ x = "look" /\ Holds(ag[a].tok) => Cur # 0
      PROVE  AInv'
  <2>1. Complete(a, act) \in Messages
    BY CompleteIsMessage DEF AInv
  <2>2. SentShape(a, Complete(a, act), x)
    BY <1>5, <2>1, SendsShape DEF AInv
  <2> QED
    BY <1>0, <1>5, <2>2, CompleteFits
<1>6. CASE Resumes(a)
  <2> DEFINE row == Working(a, lease.tok)
  <2>1. /\ row \in AgentRow /\ row.pc = "look" /\ row.tok = lease.tok
        /\ row.known = completed /\ row.tries = 0
    BY <1>1, WorkingRow DEF AInv
  <2>2. ag' = [ag EXCEPT ![a] = row] /\ UNCHANGED net
    BY <1>6 DEF Resumes
  <2> HIDE DEF row
  <2>3. ag'[a] = row
    BY <1>1, <2>2
  <2>4. AgentFits(a)'
    BY <1>4, <2>1, <2>3 DEF AgentFits
  <2> QED
    BY <1>0, <1>2, <2>1, <2>2, <2>4, QuietMove
<1>7. CASE LosesLease(a) \/ Crashes(a)
  BY <1>0, <1>7, TurnsOff DEF LosesLease, Crashes
<1>8. CASE RunsOutOfLoops(a)
  BY <1>5, <1>8 DEF RunsOutOfLoops, CompleteActs
<1>9. CASE Proposes(a)
  <2>1. PICK t \in Nat : t = ag[a].tries + 1
    BY <1>1 DEF AgentRow
  <2>2. PICK k \in Keys : k = ProposalKey(a)
    <3>1. ag[a].known \in Nat /\ ag[a].round \in Nat
      BY <1>1 DEF AgentRow
    <3> QED
      BY <2>1, <3>1 DEF ProposalKey, Keys
  <2> DEFINE m == [kind |-> "proposal", from |-> a, tok |-> ag[a].tok, key |-> k]
             row == [ag[a] EXCEPT !.pc = "sent", !.msg = m, !.after = "look", !.tries = t]
  <2>3. ag[a].tok \in Nat
    BY <1>1 DEF AgentRow
  <2>4. m \in Messages /\ m.kind = "proposal" /\ m.tok = ag[a].tok /\ m.key = k
    BY <2>3 DEF Messages, Proposals
  <2>5. net' = net \cup {m} /\ ag' = [ag EXCEPT ![a] = row]
    BY <1>1, <1>9, <2>1, <2>2 DEF Proposes
  <2> HIDE DEF m
  <2>6. /\ row \in AgentRow /\ row.pc = "sent" /\ row.msg = m /\ row.after = "look"
        /\ row.tok = ag[a].tok
    BY <1>1, <2>4 DEF AgentRow
  <2> HIDE DEF row
  <2>7. SentShape(a, m, "look")
    BY <1>1, <2>5, <2>6 DEF SentShape
  <2>8. ~refused => MessageFits(m)
    BY <1>3, <1>9, <2>2, <2>4 DEF Proposes, AgentFits, MessageFits
  <2> QED
    BY <1>0, <2>4, <2>7, <2>8, SentKeeps
<1>10. ASSUME NEW act \in Decisions, Decides(a, act) PROVE AInv'
  <2> DEFINE m == [kind |-> "decision", from |-> a, tok |-> ag[a].tok, key |-> ag[a].about, act |-> act]
  <2>1. ag[a].tok \in Nat /\ ag[a].about \in Results
    BY <1>1 DEF AgentRow
  <2>2. m \in Messages /\ m.kind = "decision" /\ m.tok = ag[a].tok
    BY <2>1 DEF Messages, DecisionCalls
  <2>3. Sends(a, m, "look") /\ ag[a].pc = "decide"
    BY <1>10 DEF Decides
  <2> HIDE DEF m
  <2>4. SentShape(a, m, "look")
    BY <2>2, <2>3, SendsShape DEF AInv
  <2>5. ~refused => MessageFits(m) /\ (Holds(ag[a].tok) => Cur # 0)
    BY <1>3, <2>2, <2>3 DEF AgentFits, MessageFits
  <2> QED
    BY <1>0, <2>2, <2>4, <2>5, SentKeeps
<1>11. CASE SeesResult(a)
  <2> DEFINE row == [ag[a] EXCEPT !.pc = "look"]
  <2>1. ag' = [ag EXCEPT ![a] = row] /\ UNCHANGED net /\ Holds(ag[a].tok) /\ ag[a].pc = "wait"
    BY <1>1, <1>11 DEF SeesResult
  <2>2. row \in AgentRow /\ row.pc = "look" /\ row.tok = ag[a].tok
    BY <1>1 DEF AgentRow
  <2> HIDE DEF row
  <2>3. ag'[a] = row
    BY <1>1, <2>1
  <2>4. ~refused => AgentFits(a)'
    BY <1>3, <1>4, <2>1, <2>2, <2>3 DEF AgentFits
  <2> QED
    BY <1>0, <1>2, <2>1, <2>2, <2>4, QuietMove
<1>12. CASE WaitTimesOut(a)
  <2>1. ~refused => Cur # 0
    BY <1>3, <1>12 DEF WaitTimesOut, AgentFits
  <2> QED
    BY <1>5, <1>12, <2>1 DEF WaitTimesOut, CompleteActs
<1>13. CASE ThinkingFails(a)
  BY <1>5, <1>13 DEF ThinkingFails, CompleteActs
<1>14. CASE GivesUp(a) \/ TimesOut(a)
  <2>1. TransportError(a)
    BY <1>14 DEF GivesUp, TimesOut
  <2>2. CASE ag' = [ag EXCEPT ![a] = Off] /\ UNCHANGED net
    BY <1>0, <2>2, TurnsOff
  <2>3. CASE Sends(a, Complete(a, "FAILED"), "idle")
    BY <1>5, <2>3 DEF CompleteActs
  <2> QED
    BY <2>1, <2>2, <2>3 DEF TransportError
<1> QED
  BY <1>6, <1>7, <1>8, <1>9, <1>10, <1>11, <1>12, <1>13, <1>14

-----------------------------------------------------------------------------
(* The lease                                                               *)

\* A lease that ends, or a new one, leaves no request of an earlier holder
\* valid.
LEMMA LeaseMoves ==
  ASSUME AInv, Typed', SentHolds',
         UNCHANGED <<completed, props, work, res, decs, overtaken, refused>>,
         requeues' \in {requeues, requeues + 1},
         lease'.last >= lease.last, lease'.tok \in {0, lease'.last},
         \A m \in net' : m.tok <= lease'.last,
         \A a \in Agents : ag'[a].tok <= lease'.last,
         \A m \in net' : ~Holds(m.tok)',
         \A a \in Agents : Holds(ag[a].tok)' =>
           /\ ag'[a].pc = "look" /\ ag'[a].known = completed /\ ag'[a].tries = 0
  PROVE  AInv'
<1>1. Len(props) \in Nat /\ requeues \in Nat /\ \A i \in 1..Len(props) : props[i].iter \in Nat
  <2>1. \A i \in 1..Len(props) : props[i] \in ProposalRow
    BY DEF AInv, Typed
  <2> QED
    BY <2>1 DEF AInv, Typed, ProposalRow
<1>2. TokensIssued'
  BY DEF TokensIssued
<1>3. IterationsInOrder' /\ DecisionsStored' /\ OneProposalPerIteration'
  BY <1>1 DEF AInv, IterationsInOrder, DecisionsStored, OneProposalPerIteration
<1>4. \A a \in Agents : AgentFits(a)'
  BY DEF AgentFits, Holds
<1>5. \A m \in net' : MessageFits(m)'
  BY DEF MessageFits
<1>6. ~refused /\ ~overtaken => DecidedOnce'
  <2>1. Cur' # 0 => Cur' = Cur
    <3>1. Cur' \in 0..Len(props) /\ Cur \in 0..Len(props)
      BY CurFacts DEF AInv, Cur
    <3>2. requeues' = requeues + 1 => Cur' = 0
      BY <1>1 DEF AInv, IterationsInOrder, Cur, Typed
    <3> QED
      BY <3>1, <3>2 DEF Cur
  <2> QED
    BY <2>1 DEF AInv, DecidedOnce, TerminalResult
<1> QED
  BY <1>2, <1>3, <1>4, <1>5, <1>6 DEF AInv

\* A new token is nobody's but the claimant's.
LEMMA ClaimKeeps ==
  ASSUME AInv, NEW a \in Agents, Claims(a)
  PROVE  AInv'
<1> DEFINE row == Working(a, lease.last + 1)
<1>1. /\ lease.last \in Nat /\ lease.last + 1 \in Nat /\ ag \in [Agents -> AgentRow]
      /\ lease \in [tok : Nat, owner : Agents \cup {NoOne}, live : BOOLEAN, last : Nat]
  BY DEF AInv, Typed
<1>2. /\ row \in AgentRow /\ row.pc = "look" /\ row.tok = lease.last + 1
      /\ row.known = completed /\ row.tries = 0
  BY <1>1, WorkingRow DEF AInv
<1>3. /\ UNCHANGED <<completed, requeues, props, work, res, decs, net, overtaken, refused>>
      /\ lease' = NewLease(a)
      /\ ag' = [ag EXCEPT ![a] = row] \/ ag' = ag
  BY DEF Claims, history
<1> HIDE DEF row
<1>4. /\ lease' \in [tok : Nat, owner : Agents \cup {NoOne}, live : BOOLEAN, last : Nat]
      /\ lease'.tok = lease.last + 1 /\ lease'.last = lease.last + 1
  BY <1>1, <1>3 DEF NewLease
<1>5. ag' \in [Agents -> AgentRow] /\ \A b \in Agents : ag'[b] = ag[b] \/ (b = a /\ ag'[b] = row)
  BY <1>1, <1>2, <1>3
<1>6. Typed'
  BY <1>3, <1>4, <1>5 DEF AInv, Typed
<1>7. SentHolds'
  BY <1>2, <1>5 DEF AInv, SentHolds
<1>8. \A m \in net : m.tok \in Nat /\ m.tok <= lease.last
  BY DEF AInv, Typed, TokensIssued, Messages, Proposals, DecisionCalls, Completions
<1>9. \A b \in Agents : ag[b].tok \in Nat /\ ag[b].tok <= lease.last
  BY <1>1 DEF AInv, TokensIssued, AgentRow
<1>10. \A m \in net' : m.tok <= lease'.last /\ ~Holds(m.tok)'
  BY <1>1, <1>3, <1>4, <1>8 DEF Holds
<1>11. \A b \in Agents : /\ ag'[b].tok <= lease'.last
                         /\ Holds(ag[b].tok)' => ag'[b] = row
  BY <1>1, <1>2, <1>4, <1>5, <1>9 DEF Holds
<1>12. requeues' \in {requeues, requeues + 1} /\ lease'.last >= lease.last
       /\ lease'.tok \in {0, lease'.last}
  BY <1>1, <1>3, <1>4
<1> QED
  BY <1>2, <1>3, <1>6, <1>7, <1>10, <1>11, <1>12, LeaseMoves

\* A lease that runs out leaves nobody in charge.
LEMMA LapseKeeps ==
  ASSUME AInv, LeaseRunsOut \/ HeartbeatsFail
  PROVE  AInv'
<1>1. /\ lease' = [lease EXCEPT !.live = FALSE]
      /\ UNCHANGED <<completed, requeues, props, work, res, decs, net, ag, overtaken, refused>>
  BY DEF LeaseRunsOut, HeartbeatsFail, Lapsed, history
<1>2. /\ lease \in [tok : Nat, owner : Agents \cup {NoOne}, live : BOOLEAN, last : Nat]
      /\ lease.last \in Nat
  BY DEF AInv, Typed
<1>3. /\ lease' \in [tok : Nat, owner : Agents \cup {NoOne}, live : BOOLEAN, last : Nat]
      /\ lease'.tok = lease.tok /\ lease'.last = lease.last /\ ~lease'.live
  BY <1>1, <1>2
<1>4. Typed' /\ SentHolds'
  BY <1>1, <1>3 DEF AInv, Typed, SentHolds
<1>5. \A m \in net' : m.tok <= lease'.last /\ ~Holds(m.tok)'
  BY <1>1, <1>3 DEF AInv, TokensIssued, Holds
<1>6. \A a \in Agents : ag'[a].tok <= lease'.last /\ ~Holds(ag[a].tok)'
  BY <1>1, <1>3 DEF AInv, TokensIssued, Holds
<1>7. requeues' \in {requeues, requeues + 1} /\ lease'.last >= lease.last
      /\ lease'.tok \in {0, lease'.last}
  BY <1>1, <1>2, <1>3 DEF AInv, TokensIssued
<1> QED
  BY <1>1, <1>4, <1>5, <1>6, <1>7, LeaseMoves

-----------------------------------------------------------------------------
(* The handlers                                                            *)

HandlerAnswers == {"LEASE_LOST", "ok", "4xx", "5xx"}

\* Where an answer to m leaves the process that waits for it.
AfterShape(m, answer, row) ==
    LET me == ag[m.from] IN
    \/ row.pc = "idle" /\ row.tok = 0
    \/ /\ row.pc = "sent" /\ row.after = "idle" /\ row.tok = me.tok
       /\ row.msg \in Messages /\ row.msg.kind = "complete" /\ row.msg.tok = me.tok
    \/ /\ row.pc = "look" /\ row.tok = me.tok
       /\ \/ answer = "ok" /\ m.kind \in {"proposal", "decision"}
          \/ answer = "5xx" /\ me.after = "look"

\* Every answer has such an effect.
LEMMA AgentAfterShape ==
  ASSUME Typed, NEW m \in Messages, NEW answer \in HandlerAnswers
  PROVE  AgentAfter(m, answer) \in AgentRow /\ AfterShape(m, answer, AgentAfter(m, answer))
<1> DEFINE a == m.from
           me == ag[a]
           looks == [me EXCEPT !.pc = "look", !.msg = <<>>, !.round = 0, !.about = <<>>]
           act == IF answer = "5xx" THEN "REQUEUE" ELSE "FAILED"
           ends == [me EXCEPT !.pc = "sent", !.after = "idle", !.msg = Complete(a, act)]
<1>1. a \in Agents /\ me \in AgentRow
  BY DEF Typed, Messages, Proposals, DecisionCalls, Completions
<1>2. <<>> \in Results /\ Off \in AgentRow /\ Off.pc = "idle" /\ Off.tok = 0
  BY DEF Results, Off, AgentRow
<1>3. looks \in AgentRow /\ looks.pc = "look" /\ looks.tok = me.tok
  BY <1>1, <1>2 DEF AgentRow
<1>4. PICK n \in Nat : n = me.known + 1
  BY <1>1 DEF AgentRow
<1> DEFINE counts == [me EXCEPT !.pc = "look", !.msg = <<>>, !.about = <<>>, !.known = n]
<1>5. counts \in AgentRow /\ counts.pc = "look" /\ counts.tok = me.tok
  BY <1>1, <1>2 DEF AgentRow
<1>6. /\ Complete(a, act) \in Messages /\ Complete(a, act).kind = "complete"
      /\ Complete(a, act).tok = me.tok
  BY <1>1, CompleteIsMessage DEF CompleteActs
<1>7. ends \in AgentRow /\ ends.pc = "sent" /\ ends.after = "idle" /\ ends.tok = me.tok
      /\ ends.msg = Complete(a, act)
  BY <1>1, <1>6 DEF AgentRow
<1>8. m.kind \in {"proposal", "decision", "complete"}
  BY DEF Messages, Proposals, DecisionCalls, Completions
<1>9. CASE answer = "LEASE_LOST" \/ me.after = "idle" \/ (answer = "ok" /\ m.kind = "complete")
  <2>1. AgentAfter(m, answer) = Off
    BY <1>8, <1>9 DEF AgentAfter
  <2> QED
    BY <1>2, <2>1 DEF AfterShape
<1>10. CASE answer = "ok" /\ me.after # "idle" /\ m.kind = "proposal"
  <2>1. AgentAfter(m, answer) = looks
    BY <1>10 DEF AgentAfter
  <2> QED
    BY <1>3, <1>10, <2>1 DEF AfterShape
<1>11. CASE answer = "ok" /\ me.after # "idle" /\ m.kind = "decision"
  <2>1. AgentAfter(m, answer) = counts
    BY <1>4, <1>11 DEF AgentAfter
  <2> QED
    BY <1>5, <1>11, <2>1 DEF AfterShape
<1>12. CASE answer = "5xx" /\ me.after = "look"
  <2>1. AgentAfter(m, answer) = looks
    BY <1>12 DEF AgentAfter
  <2> QED
    BY <1>3, <1>12, <2>1 DEF AfterShape
<1>13. CASE answer \in {"4xx", "5xx"} /\ me.after # "idle" /\ ~(answer = "5xx" /\ me.after = "look")
  <2>1. AgentAfter(m, answer) = ends
    BY <1>13 DEF AgentAfter
  <2> QED
    BY <1>6, <1>7, <2>1 DEF AfterShape
<1> QED
  BY <1>8, <1>9, <1>10, <1>11, <1>12, <1>13 DEF HandlerAnswers

\* What the answer to m does to the processes and the network.
Replied(m, answer) ==
    /\ m.from \in Agents
    /\ ag' \in [Agents -> AgentRow] /\ net' \subseteq Messages
    /\ \A b \in Agents \ {m.from} : ag'[b] = ag[b]
    /\ \/ ag'[m.from] = ag[m.from]
       \/ /\ ag[m.from].pc = "sent" /\ ag[m.from].msg = m
          /\ AfterShape(m, answer, ag'[m.from])
    /\ \A n \in net' \ net : n.kind = "complete" /\ n.tok = ag[m.from].tok

\* Reply has this effect.
LEMMA ReplyShape ==
  ASSUME AInv, NEW m \in net, NEW answer \in HandlerAnswers, Reply(m, answer)
  PROVE  Replied(m, answer)
<1> DEFINE a == m.from
           row == AgentAfter(m, answer)
<1>1. m \in Messages /\ Typed /\ ag \in [Agents -> AgentRow] /\ net \subseteq Messages
  BY DEF AInv, Typed
<1>2. a \in Agents
  BY <1>1 DEF Messages, Proposals, DecisionCalls, Completions
<1>3. row \in AgentRow /\ AfterShape(m, answer, row)
  BY <1>1, AgentAfterShape
<1> HIDE DEF row
<1>4. CASE ag' = ag /\ net' = net \ {m}
  BY <1>1, <1>2, <1>4 DEF Replied
<1>5. CASE /\ Waiting(m) /\ ag' = [ag EXCEPT ![a] = row]
           /\ net' = (net \ {m}) \cup (IF row.pc = "sent" THEN {row.msg} ELSE {})
  <2>1. ag' \in [Agents -> AgentRow] /\ ag'[a] = row /\ \A b \in Agents \ {a} : ag'[b] = ag[b]
    BY <1>1, <1>2, <1>3, <1>5
  <2>2. row.pc = "sent" => row.msg \in Messages /\ row.msg.kind = "complete" /\ row.msg.tok = ag[a].tok
    BY <1>3 DEF AfterShape
  <2>3. net' \subseteq Messages /\ \A n \in net' \ net : n.kind = "complete" /\ n.tok = ag[a].tok
    BY <1>1, <1>5, <2>2
  <2> QED
    BY <1>2, <1>3, <1>5, <2>1, <2>3 DEF Replied, Waiting
<1> QED
  BY <1>4, <1>5 DEF Reply, row

\* An answer that changes no row: only one that is right about the iteration
\* lets the process go on.
LEMMA ReplyKeeps ==
  ASSUME AInv, NEW m \in net, NEW answer \in HandlerAnswers, Reply(m, answer),
         UNCHANGED <<Rows, overtaken>>, ~refused' => ~refused,
         ~refused' /\ Cur = 0 => /\ answer = "ok" => m.kind = "complete"
                                 /\ answer = "5xx" => m.kind # "proposal"
  PROVE  AInv'
<1> DEFINE a == m.from
<1>1. Replied(m, answer) /\ a \in Agents
  BY ReplyShape DEF Replied
<1>2. Cur' = Cur /\ NowKey' = NowKey /\ lease' = lease /\ completed' = completed /\ work' = work
  BY SameRows
<1>3. ag[a].tok <= lease.last /\ lease.last \in Nat
  BY <1>1 DEF AInv, TokensIssued, Typed
<1>4. ag'[a].tok <= lease.last
  BY <1>1, <1>3 DEF Replied, AfterShape
<1>5. ag'[a].pc = "sent" => ag'[a].msg \in Messages
  BY <1>1 DEF Replied, AfterShape, AInv, SentHolds
<1>6. \A n \in net' \ net : n.tok <= lease.last /\ MessageFits(n)
  BY <1>1, <1>3 DEF Replied, MessageFits
<1>7. ASSUME ~refused' PROVE AgentFits(a)'
  <2>1. AgentFits(a)
    BY <1>1, <1>7 DEF AInv
  <2>2. CASE ag'[a] = ag[a]
    BY <1>2, <2>1, <2>2 DEF AgentFits, ProposalKey, Holds
  <2>3. CASE ag'[a].pc = "idle" /\ ag'[a].tok = 0
    BY <2>3 DEF AgentFits, Holds
  <2>4. CASE ag'[a].pc = "sent" /\ ag'[a].after = "idle"
    BY <2>4 DEF AgentFits
  <2>5. CASE /\ ag'[a].pc = "look" /\ ag'[a].tok = ag[a].tok /\ ag[a].pc = "sent" /\ ag[a].msg = m
             /\ \/ answer = "ok" /\ m.kind \in {"proposal", "decision"}
                \/ answer = "5xx" /\ ag[a].after = "look"
    <3>1. Holds(ag[a].tok) => Cur # 0
      BY <1>7, <2>1, <2>5 DEF AgentFits
    <3> QED
      BY <1>2, <2>5, <3>1 DEF AgentFits, Holds
  <2> QED
    BY <1>1, <2>2, <2>3, <2>4, <2>5 DEF Replied, AfterShape
<1> QED
  BY <1>1, <1>4, <1>5, <1>6, <1>7, AgentMoves DEF Replied

\* The handlers that change no row.
LEMMA RefusalKeeps ==
  ASSUME AInv, NEW m \in net,
         \/ Refuses(m) \/ ProposalRepeated(m) \/ ProposalFails(m) \/ DecisionRefused(m)
         \/ DecisionRepeated(m) \/ DecisionRolledBack(m) \/ CompleteFails(m)
  PROVE  AInv'
<1>1. UNCHANGED <<Rows, overtaken>> /\ (~refused' => ~refused)
  BY DEF Refuses, ProposalRepeated, ProposalFails, DecisionRefused, DecisionRepeated,
         DecisionRolledBack, CompleteFails, server, history, Rows
<1>2. CASE Refuses(m)
  BY <1>1, <1>2, ReplyKeeps DEF Refuses, HandlerAnswers
<1>3. CASE ProposalRepeated(m)
  <2>1. KeyOfThisIteration(m.key) => Cur # 0
    <3>1. Cur = 0 => \A i \in 1..Len(props) : props[i].iter < requeues
      BY CurFacts DEF AInv
    <3>2. requeues \in Nat
      BY DEF AInv, Typed
    <3> QED
      BY <3>1, <3>2 DEF KeyOfThisIteration
  <2>2. CASE KeyOfThisIteration(m.key)
    BY <1>1, <1>3, <2>1, <2>2, ReplyKeeps DEF ProposalRepeated, HandlerAnswers
  <2>3. CASE ~KeyOfThisIteration(m.key)
    BY <1>1, <1>3, <2>3, ReplyKeeps DEF ProposalRepeated, HandlerAnswers
  <2> QED
    BY <2>2, <2>3
<1>4. CASE ProposalFails(m)
  BY <1>1, <1>4, ReplyKeeps DEF ProposalFails, HandlerAnswers
<1>5. CASE DecisionRefused(m) \/ DecisionRolledBack(m)
  BY <1>1, <1>5, ReplyKeeps DEF DecisionRefused, DecisionRolledBack, HandlerAnswers
<1>6. CASE DecisionRepeated(m)
  <2>1. Cur # 0
    BY <1>6, CurResultFacts DEF AInv, DecisionRepeated
  <2> QED
    BY <1>1, <1>6, <2>1, ReplyKeeps DEF DecisionRepeated, HandlerAnswers
<1>7. CASE CompleteFails(m)
  BY <1>1, <1>7, ReplyKeeps DEF CompleteFails, HandlerAnswers
<1> QED
  BY <1>2, <1>3, <1>4, <1>5, <1>6, <1>7

\* An answer keeps requests and tokens in order.
LEMMA RepliedTokens ==
  ASSUME AInv, NEW m \in net, NEW answer, Replied(m, answer)
  PROVE  /\ SentHolds'
         /\ \A n \in net' : n.tok <= lease.last
         /\ \A b \in Agents : ag'[b].tok <= lease.last
<1>1. lease.last \in Nat
  BY DEF AInv, Typed
<1> QED
  BY <1>1 DEF AInv, TokensIssued, SentHolds, Replied, AfterShape

\* A run that is completed or requeued has no lease.
LEMMA CompleteKeeps ==
  ASSUME AInv, NEW m \in net, CompleteAccepted(m)
  PROVE  AInv'
<1>1. /\ Reply(m, "ok") /\ lease' = Released /\ requeues' \in {requeues, requeues + 1}
      /\ UNCHANGED <<completed, props, work, res, decs, overtaken, refused>>
  BY DEF CompleteAccepted, history
<1>2. Replied(m, "ok")
  BY <1>1, ReplyShape DEF HandlerAnswers
<1>3. /\ lease \in [tok : Nat, owner : Agents \cup {NoOne}, live : BOOLEAN, last : Nat]
      /\ lease.last \in Nat /\ requeues \in Nat
  BY DEF AInv, Typed
<1>4. /\ lease' \in [tok : Nat, owner : Agents \cup {NoOne}, live : BOOLEAN, last : Nat]
      /\ lease'.tok = 0 /\ lease'.last = lease.last /\ ~lease'.live
  BY <1>1, <1>3 DEF Released
<1>5. Typed'
  BY <1>1, <1>2, <1>3, <1>4 DEF AInv, Typed, Replied
<1>6. /\ SentHolds'
      /\ \A n \in net' : n.tok <= lease'.last /\ ~Holds(n.tok)'
      /\ \A b \in Agents : ag'[b].tok <= lease'.last /\ ~Holds(ag[b].tok)'
  BY <1>2, <1>4, RepliedTokens DEF Holds
<1>7. lease'.last >= lease.last /\ lease'.tok \in {0, lease'.last}
  BY <1>3, <1>4
<1> QED
  BY <1>1, <1>5, <1>6, <1>7, LeaseMoves

\* An accepted proposal is the first of its iteration: every other one carries
\* the same id.
LEMMA ProposalKeeps ==
  ASSUME AInv, NEW m \in net, ProposalAccepted(m)
  PROVE  AInv'
<1> DEFINE L == Len(props)
           new == [key |-> m.key, iter |-> requeues]
<1>1. /\ m.kind = "proposal" /\ Holds(m.tok) /\ ~KeyUsed(m.key) /\ Reply(m, "ok")
      /\ props' = Append(props, new) /\ work' = Append(work, "pending")
      /\ res' = Append(res, [ok |-> 0, fail |-> 0])
      /\ UNCHANGED <<completed, requeues, decs, lease, overtaken, refused>>
  BY DEF ProposalAccepted, history
<1>2. Replied(m, "ok")
  BY <1>1, ReplyShape DEF HandlerAnswers
<1>3. /\ props \in Seq(ProposalRow) /\ work \in Seq({"pending", "running", "done"})
      /\ res \in Seq(ResultRow) /\ L \in Nat /\ Len(work) = L /\ Len(res) = L
      /\ completed \in Nat /\ requeues \in Nat
  BY DEF AInv, Typed
<1>4. m.key \in Keys
  BY <1>1 DEF AInv, Typed, Messages, Proposals, DecisionCalls, Completions
<1>5. new \in ProposalRow /\ new.key = m.key /\ new.iter = requeues
      /\ [ok |-> 0, fail |-> 0] \in ResultRow
  BY <1>3, <1>4 DEF ProposalRow, ResultRow
<1> HIDE DEF new
<1>6. /\ props' \in Seq(ProposalRow) /\ Len(props') = L + 1
      /\ props'[L + 1] = new /\ \A i \in 1..L : props'[i] = props[i]
  BY <1>1, <1>3, <1>5
<1>7. /\ work' \in Seq({"pending", "running", "done"}) /\ Len(work') = L + 1
      /\ \A i \in 1..L : work'[i] = work[i]
  BY <1>1, <1>3
<1>8. /\ res' \in Seq(ResultRow) /\ Len(res') = L + 1 /\ \A i \in 1..L : res'[i] = res[i]
  BY <1>1, <1>3, <1>5
<1>9. Typed'
  BY <1>1, <1>2, <1>6, <1>7, <1>8 DEF AInv, Typed, Replied
<1>10. SentHolds' /\ TokensIssued'
  BY <1>1, <1>2, RepliedTokens DEF AInv, TokensIssued
<1>11. \A i \in 1..L : props[i].iter \in Nat /\ props[i].iter <= requeues
  <2>1. \A i \in 1..L : props[i] \in ProposalRow
    BY <1>3
  <2> QED
    BY <2>1 DEF ProposalRow, AInv, IterationsInOrder
<1>12. IterationsInOrder' /\ DecisionsStored'
  <2>1. \A i \in 1..(L + 1) : i \in 1..L \/ i = L + 1
    BY <1>3
  <2>2. \A i \in 1..(L + 1) : props'[i].iter \in Nat /\ props'[i].iter <= requeues
    BY <1>3, <1>5, <1>6, <1>11, <2>1
  <2>3. ASSUME NEW i \in 1..(L + 1), NEW j \in 1..(L + 1), i <= j
        PROVE  props'[i].iter <= props'[j].iter
    <3>1. CASE j = L + 1
      BY <1>5, <1>6, <2>2, <3>1
    <3>2. CASE j \in 1..L
      <4>1. i \in 1..L
        BY <1>3, <2>3, <3>2
      <4> QED
        BY <1>6, <2>3, <3>2, <4>1 DEF AInv, IterationsInOrder
    <3> QED
      BY <2>1, <3>1, <3>2
  <2>4. IterationsInOrder'
    BY <1>1, <1>6, <2>2, <2>3 DEF IterationsInOrder
  <2>5. DecisionsStored'
    BY <1>1, <1>3, <1>6 DEF AInv, DecisionsStored
  <2> QED
    BY <2>4, <2>5
<1>13. Cur' = L + 1 /\ NowKey' = m.key /\ L + 1 # 0
  <2>1. props' # <<>>
    BY <1>3, <1>6
  <2>2. Cur' = L + 1
    BY <1>1, <1>3, <1>5, <1>6, <2>1 DEF Cur
  <2> QED
    BY <1>3, <1>5, <1>6, <2>2 DEF NowKey
<1>14. ASSUME ~refused PROVE Cur = 0 /\ NowKey = m.key /\ completed < Budget
  <2>1. m.key = NowKey /\ (Cur = 0 => completed < Budget)
    BY <1>1, <1>14 DEF AInv, MessageFits
  <2>2. Cur # 0 => Cur \in 1..L
    BY CurFacts DEF AInv
  <2>3. Cur # 0 => KeyUsed(m.key)
    BY <2>1, <2>2 DEF NowKey, KeyUsed
  <2> QED
    BY <1>1, <2>1, <2>3
<1>15. OneProposalPerIteration'
  <2> SUFFICES ASSUME ~refused, NEW i \in 1..(L + 1), NEW j \in 1..(L + 1),
                      props'[i].iter = props'[j].iter
               PROVE  i = j
    BY <1>1, <1>6 DEF OneProposalPerIteration
  <2>1. \A k \in 1..L : props[k].iter < requeues
    BY <1>14, CurFacts DEF AInv
  <2>2. \A k \in 1..(L + 1) : k \in 1..L \/ k = L + 1
    BY <1>3
  <2>3. CASE i \in 1..L /\ j \in 1..L
    BY <1>6, <2>3 DEF AInv, OneProposalPerIteration
  <2>4. CASE i = L + 1 /\ j \in 1..L
    BY <1>3, <1>5, <1>6, <1>11, <2>1, <2>4
  <2>5. CASE j = L + 1 /\ i \in 1..L
    BY <1>3, <1>5, <1>6, <1>11, <2>1, <2>5
  <2> QED
    BY <2>2, <2>3, <2>4, <2>5
<1>16. ASSUME ~refused, NEW b \in Agents PROVE AgentFits(b)'
  <2>1. AgentFits(b)
    BY <1>16 DEF AInv
  <2>2. CASE ag'[b] = ag[b]
    <3>1. Holds(ag[b].tok)' <=> Holds(ag[b].tok)
      BY <1>1, <2>2 DEF Holds
    <3>2. ProposalKey(b)' = ProposalKey(b)
      BY <2>2 DEF ProposalKey
    <3> QED
      BY <1>13, <1>14, <1>16, <2>1, <2>2, <3>1, <3>2 DEF AgentFits
  <2>3. CASE ag'[b].pc \in {"idle", "sent", "look"}
    BY <1>13, <2>3 DEF AgentFits
  <2> QED
    BY <1>2, <2>2, <2>3 DEF Replied, AfterShape
<1>17. ASSUME ~refused, NEW n \in net' PROVE MessageFits(n)'
  <2>1. CASE n \in net
    <3>1. MessageFits(n)
      BY <1>17, <2>1 DEF AInv
    <3> QED
      BY <1>1, <1>13, <1>14, <1>17, <3>1 DEF MessageFits, Holds
  <2>2. CASE n \notin net
    BY <1>2, <1>17, <2>2 DEF Replied, MessageFits
  <2> QED
    BY <2>1, <2>2
<1>18. ASSUME ~refused, ~overtaken PROVE DecidedOnce'
  <2>1. \A d \in decs : d.res[1] \in 1..L
    BY DEF AInv, DecisionsStored
  <2>2. \A d \in decs : d.res[1] # L + 1
    BY <1>3, <2>1
  <2>3. DecidedOnce /\ completed < Budget
    BY <1>14, <1>18 DEF AInv
  <2>4. \A d \in decs : work'[d.res[1]] = "done" /\ d.res = TerminalResult(d.res[1])'
    BY <1>7, <1>8, <2>1, <2>3 DEF DecidedOnce, TerminalResult
  <2> QED
    BY <1>1, <1>13, <2>2, <2>3, <2>4 DEF DecidedOnce
<1> QED
  BY <1>1, <1>9, <1>10, <1>12, <1>15, <1>16, <1>17, <1>18 DEF AInv

\* A decision is the first about its proposal, and the proposal left room for it.
LEMMA DecisionKeeps ==
  ASSUME AInv, AgentAssumption, NEW m \in net, DecisionAccepted(m)
  PROVE  AInv'
<1> DEFINE new == [key |-> m.key, res |-> CurResult, act |-> m.act]
<1>1. /\ m.kind = "decision" /\ Holds(m.tok) /\ CurResult # <<>> /\ ~Decided(CurResult)
      /\ Reply(m, "ok") /\ decs' = decs \cup {new} /\ completed' = completed + 1
      /\ UNCHANGED <<requeues, props, work, res, lease, overtaken, refused>>
  BY DEF DecisionAccepted, AlreadyDecided, history
<1>2. new.res = CurResult
  OBVIOUS
<1> HIDE DEF new
<1>3. Replied(m, "ok")
  BY <1>1, ReplyShape DEF HandlerAnswers
<1>4. Cur # 0 /\ CurResult = TerminalResult(Cur) /\ CurResult[1] = Cur /\ Cur \in 1..Len(props)
  BY <1>1, CurResultFacts, CurFacts DEF AInv
<1>5. Cur' = Cur /\ NowKey' = NowKey
  BY <1>1, <1>4 DEF Cur, NowKey
<1>6. completed \in Nat
  BY DEF AInv, Typed
<1>7. Typed'
  BY <1>1, <1>3, <1>6 DEF AInv, Typed, Replied
<1>8. SentHolds' /\ TokensIssued'
  BY <1>1, <1>3, RepliedTokens DEF AInv, TokensIssued
<1>9. IterationsInOrder' /\ OneProposalPerIteration' /\ DecisionsStored'
  BY <1>1, <1>2, <1>4 DEF AInv, IterationsInOrder, OneProposalPerIteration, DecisionsStored
<1>10. ASSUME ~refused, NEW b \in Agents PROVE AgentFits(b)'
  <2>1. AgentFits(b)
    BY <1>10 DEF AInv
  <2>2. CASE ag'[b] = ag[b]
    BY <1>1, <1>4, <1>5, <2>1, <2>2 DEF AgentFits, ProposalKey, Holds
  <2>3. CASE ag'[b].pc \in {"idle", "sent", "look"}
    BY <1>4, <1>5, <2>3 DEF AgentFits
  <2> QED
    BY <1>3, <2>2, <2>3 DEF Replied, AfterShape
<1>11. ASSUME ~refused, NEW n \in net' PROVE MessageFits(n)'
  <2>1. CASE n \in net
    <3>1. MessageFits(n)
      BY <1>11, <2>1 DEF AInv
    <3> QED
      BY <1>1, <1>4, <1>5, <3>1 DEF MessageFits, Holds
  <2>2. CASE n \notin net
    BY <1>3, <1>11, <2>2 DEF Replied, MessageFits
  <2> QED
    BY <2>1, <2>2
<1>12. ASSUME ~refused, ~overtaken PROVE DecidedOnce'
  <2>1. DecidedOnce /\ work[Cur] = "done"
    BY <1>1, <1>12 DEF AInv, MessageFits
  <2>2. \A d \in decs : d.res[1] # Cur
    BY <1>1, <1>4, <2>1 DEF DecidedOnce, Decided
  <2>3. completed < Budget
    BY <1>4, <2>1, <2>2 DEF DecidedOnce
  <2>4. completed + 1 <= Budget
    BY <1>6, <2>3 DEF AgentAssumption
  <2>5. \A d \in decs' : work[d.res[1]] = "done" /\ d.res = TerminalResult(d.res[1])
    BY <1>1, <1>2, <1>4, <2>1 DEF DecidedOnce
  <2>6. \A i : TerminalResult(i)' = TerminalResult(i)
    BY <1>1 DEF TerminalResult
  <2>7. new \in decs' /\ new.res[1] = Cur
    BY <1>1, <1>2, <1>4
  <2> QED
    BY <1>1, <1>5, <2>4, <2>5, <2>6, <2>7 DEF DecidedOnce
<1> QED
  BY <1>1, <1>7, <1>8, <1>9, <1>10, <1>11, <1>12 DEF AInv

-----------------------------------------------------------------------------
(* The queue and the operator                                              *)

\* What a step of the queue does to the rows of proposal i.
Queued(i) ==
    /\ work' \in Seq({"pending", "running", "done"}) /\ Len(work') = Len(work)
    /\ res' \in Seq(ResultRow) /\ Len(res') = Len(res)
    /\ \A j \in 1..Len(work) : j # i => work'[j] = work[j] /\ res'[j] = res[j]
    /\ work[i] = "done" => work' = work /\ overtaken'
    /\ overtaken => overtaken'
    /\ UNCHANGED <<completed, requeues, props, decs, lease, net, ag, refused>>

\* Storing a result keeps the rows of the others.
LEMMA StoredShape ==
  ASSUME Typed, NEW i \in 1..Len(work), NEW kind \in {"ok", "fail"}
  PROVE  /\ Stored(i, kind) \in Seq(ResultRow) /\ Len(Stored(i, kind)) = Len(res)
         /\ \A j \in 1..Len(work) : j # i => Stored(i, kind)[j] = res[j]
<1>1. res \in Seq(ResultRow) /\ Len(res) = Len(work) /\ Len(work) \in Nat
  BY DEF Typed
<1>2. res[i] \in ResultRow
  BY <1>1
<1>3. PICK n \in Nat : n = res[i][kind] + 1
  BY <1>2 DEF ResultRow
<1>4. [res[i] EXCEPT ![kind] = n] \in ResultRow
  BY <1>2 DEF ResultRow
<1>5. PICK row \in ResultRow : row = [res[i] EXCEPT ![kind] = n]
  BY <1>4
<1>6. Stored(i, kind) = [res EXCEPT ![i] = row]
  BY <1>1, <1>3, <1>5 DEF Stored
<1> QED
  BY <1>1, <1>6

\* Every step of the queue has this effect.
LEMMA QueueShape ==
  ASSUME Typed, NEW i \in 1..Len(work),
         \/ \E q \in Sessions : StepsStart(q, i)
         \/ StepsEnd(i) \/ StepsRetry(i)
         \/ \E kind \in {"ok", "fail"} : LateResult(i, kind)
  PROVE  Queued(i)
<1>1. /\ res \in Seq(ResultRow) /\ Len(res) = Len(work) /\ Len(work) \in Nat
      /\ work \in Seq({"pending", "running", "done"})
  BY DEF Typed
<1>2. \A s \in {"pending", "running", "done"} :
        /\ [work EXCEPT ![i] = s] \in Seq({"pending", "running", "done"})
        /\ Len([work EXCEPT ![i] = s]) = Len(work)
        /\ \A j \in 1..Len(work) : j # i => [work EXCEPT ![i] = s][j] = work[j]
  BY <1>1
<1>3. CASE \E q \in Sessions : StepsStart(q, i)
  BY <1>1, <1>2, <1>3 DEF StepsStart, Queued, history
<1>4. CASE StepsEnd(i)
  <2>1. PICK s \in {"pending", "running", "done"} : work' = [work EXCEPT ![i] = s]
    BY <1>4 DEF StepsEnd
  <2>2. \/ res' = res \/ \E kind \in {"ok", "fail"} : res' = Stored(i, kind)
    BY <1>4 DEF StepsEnd
  <2>3. /\ res' \in Seq(ResultRow) /\ Len(res') = Len(res)
        /\ \A j \in 1..Len(work) : j # i => res'[j] = res[j]
    BY <1>1, <2>2, StoredShape
  <2> QED
    BY <1>2, <1>4, <2>1, <2>3 DEF StepsEnd, Queued, history
<1>5. CASE StepsRetry(i)
  <2>1. /\ res' \in Seq(ResultRow) /\ Len(res') = Len(res)
        /\ \A j \in 1..Len(work) : j # i => res'[j] = res[j]
    BY <1>5, StoredShape DEF StepsRetry
  <2> QED
    BY <1>2, <1>5, <2>1 DEF StepsRetry, Queued, history
<1>6. ASSUME NEW kind \in {"ok", "fail"}, LateResult(i, kind) PROVE Queued(i)
  <2>1. /\ res' \in Seq(ResultRow) /\ Len(res') = Len(res)
        /\ \A j \in 1..Len(work) : j # i => res'[j] = res[j]
    BY <1>6, StoredShape DEF LateResult
  <2> QED
    BY <1>1, <1>6, <2>1 DEF LateResult, Queued
<1> QED
  BY <1>3, <1>4, <1>5, <1>6

\* A proposal that was decided is done, so only a late result touches it.
LEMMA QueueKeeps ==
  ASSUME AInv, NEW i \in 1..Len(work),
         \/ \E q \in Sessions : StepsStart(q, i)
         \/ StepsEnd(i) \/ StepsRetry(i)
         \/ \E kind \in {"ok", "fail"} : LateResult(i, kind)
  PROVE  AInv'
<1>1. Queued(i)
  BY QueueShape DEF AInv
<1>2. UNCHANGED <<completed, requeues, props, decs, lease, net, ag, refused>>
  BY <1>1 DEF Queued
<1>3. Typed'
  BY <1>1 DEF AInv, Typed, Queued
<1>4. /\ SentHolds' /\ TokensIssued' /\ IterationsInOrder' /\ DecisionsStored'
      /\ OneProposalPerIteration'
  BY <1>2 DEF AInv, SentHolds, TokensIssued, IterationsInOrder, DecisionsStored,
              OneProposalPerIteration
<1>5. Cur' = Cur /\ NowKey' = NowKey
  BY <1>2 DEF Cur, NowKey
<1>6. Cur # 0 /\ work[Cur] = "done" => work'[Cur] = "done"
  <2>1. Cur # 0 => Cur \in 1..Len(work)
    BY CurFacts DEF AInv, Typed
  <2> QED
    BY <1>1, <2>1 DEF Queued
<1>7. ASSUME ~refused, NEW b \in Agents PROVE AgentFits(b)'
  <2>1. AgentFits(b)
    BY <1>7 DEF AInv
  <2> QED
    BY <1>2, <1>5, <1>6, <2>1 DEF AgentFits, ProposalKey, Holds
<1>8. ASSUME ~refused, NEW n \in net PROVE MessageFits(n)'
  <2>1. MessageFits(n)
    BY <1>8 DEF AInv
  <2> QED
    BY <1>2, <1>5, <1>6, <2>1 DEF MessageFits, Holds
<1>9. ASSUME ~refused, ~overtaken' PROVE DecidedOnce'
  <2>1. ~overtaken /\ work[i] # "done"
    BY <1>1, <1>9 DEF Queued
  <2>2. DecidedOnce
    BY <1>9, <2>1 DEF AInv
  <2>3. ASSUME NEW d \in decs
        PROVE  work'[d.res[1]] = "done" /\ d.res = TerminalResult(d.res[1])'
    <3>1. d.res[1] \in 1..Len(work) /\ d.res[1] # i
      BY <2>1, <2>2 DEF AInv, DecisionsStored, Typed, DecidedOnce
    <3>2. work'[d.res[1]] = work[d.res[1]] /\ res'[d.res[1]] = res[d.res[1]]
      BY <1>1, <3>1 DEF Queued
    <3> QED
      BY <2>2, <3>2 DEF DecidedOnce, TerminalResult
  <2> QED
    BY <1>2, <1>5, <2>2, <2>3 DEF DecidedOnce
<1> QED
  BY <1>2, <1>3, <1>4, <1>7, <1>8, <1>9 DEF AInv

\* The operator moves the run and nothing a process is judged by.
LEMMA RunMoves ==
  ASSUME AInv, UNCHANGED <<Rows, net, ag, overtaken, refused>>
  PROVE  AInv'
<1>1. /\ Cur' = Cur /\ NowKey' = NowKey
      /\ UNCHANGED <<completed, requeues, props, work, res, decs, lease>>
      /\ \A t : Holds(t)' <=> Holds(t)
  BY SameRows
<1>2. /\ Typed' /\ SentHolds' /\ TokensIssued' /\ IterationsInOrder' /\ DecisionsStored'
      /\ OneProposalPerIteration'
  BY <1>1 DEF AInv, Typed, SentHolds, TokensIssued, IterationsInOrder, DecisionsStored,
              OneProposalPerIteration
<1>3. ASSUME ~refused, NEW b \in Agents PROVE AgentFits(b)'
  BY <1>1, <1>3 DEF AInv, AgentFits, ProposalKey, Holds
<1>4. ASSUME ~refused, NEW n \in net PROVE MessageFits(n)'
  BY <1>1, <1>4 DEF AInv, MessageFits, Holds
<1>5. ~refused /\ ~overtaken => DecidedOnce'
  BY <1>1 DEF AInv, DecidedOnce, TerminalResult
<1> QED
  BY <1>2, <1>3, <1>4, <1>5 DEF AInv

-----------------------------------------------------------------------------
(* The theorems                                                            *)

\* The invariant holds at the start ...
LEMMA AInvInit == Init => AInv
<1> SUFFICES ASSUME Init PROVE AInv
  OBVIOUS
<1>1. Off \in AgentRow /\ Off.tok = 0 /\ Off.pc = "idle"
  BY DEF Off, AgentRow, Results
<1>2. /\ props = <<>> /\ work = <<>> /\ res = <<>> /\ decs = {} /\ net = {}
      /\ completed = 0 /\ requeues = 0
      /\ lease = [tok |-> 0, owner |-> NoOne, live |-> FALSE, last |-> 0]
      /\ ag = [a \in Agents |-> Off]
  BY DEF Init
<1>3. Typed
  BY <1>1, <1>2 DEF Typed
<1>4. SentHolds /\ TokensIssued
  BY <1>1, <1>2 DEF SentHolds, TokensIssued
<1>5. IterationsInOrder /\ DecisionsStored /\ OneProposalPerIteration
  BY <1>2 DEF IterationsInOrder, DecisionsStored, OneProposalPerIteration
<1>6. ~lease.live /\ Cur = 0
  BY <1>2 DEF Cur
<1>7. (\A a \in Agents : AgentFits(a)) /\ (\A m \in net : MessageFits(m))
  BY <1>6 DEF AgentFits, MessageFits, Holds
<1>8. DecidedOnce
  BY <1>2, <1>6, AgentAssumption DEF DecidedOnce, AgentAssumption
<1> QED
  BY <1>3, <1>4, <1>5, <1>7, <1>8 DEF AInv

\* ... and every step keeps it.
LEMMA AInvNext == AInv /\ [Next]_vars => AInv'
<1> SUFFICES ASSUME AInv, [Next]_vars PROVE AInv'
  OBVIOUS
<1>1. ASSUME NEW a \in Agents,
             AgentStep(a) \/ ThinkingFails(a) \/ GivesUp(a) \/ TimesOut(a) \/ Crashes(a)
      PROVE  AInv'
  BY <1>1, AgentKeeps, LooksKeeps, ClaimKeeps DEF AgentStep
<1>2. CASE LeaseRunsOut \/ HeartbeatsFail
  BY <1>2, LapseKeeps
<1>3. ASSUME NEW m \in net, Handles(m) PROVE AInv'
  BY <1>3, RefusalKeeps, ProposalKeeps, DecisionKeeps, CompleteKeeps, AgentAssumption DEF Handles
<1>4. ASSUME NEW i \in 1..Len(work),
             \/ \E q \in Sessions : StepsStart(q, i)
             \/ StepsEnd(i) \/ StepsRetry(i)
             \/ \E kind \in {"ok", "fail"} : LateResult(i, kind)
      PROVE  AInv'
  BY <1>4, QueueKeeps
<1>5. CASE \E to \in {"PAUSED", "RUNNING", "CANCELLED", "EVALUATING"} : OperatorReads(to)
  BY <1>5, RunMoves DEF OperatorReads, server, history, Rows
<1>6. CASE OperatorWrites \/ Iterates
  BY <1>6, RunMoves DEF OperatorWrites, Iterates, history, Rows
<1>7. CASE UNCHANGED vars
  BY <1>7, RunMoves DEF vars, Rows
<1>8. CASE \E q \in Sessions : QueueLoads(q) \/ QueueStops(q)
  BY <1>8, RunMoves DEF QueueLoads, QueueStops, history, Rows
<1> QED
  BY <1>1, <1>2, <1>3, <1>4, <1>5, <1>6, <1>7, <1>8 DEF Next

\* Every reachable state satisfies it.
LEMMA AInvHolds == Spec => []AInv
BY AInvInit, AInvNext, PTL DEF Spec

\* One hypothesis per iteration, for every order in which repeated, delayed
\* and abandoned proposals arrive (save_proposal's client_request_id).
THEOREM IterationsHaveOneProposal == Spec => []OneProposalPerIteration
<1>1. AInv => OneProposalPerIteration
  BY DEF AInv
<1> QED
  BY <1>1, AInvHolds, PTL

\* The agent's own copy of the experiment counter is enough to keep the run
\* within its budget, whoever crashes and takes over, unless a proposal was
\* answered with a server error or an overtaken attempt stored a result.
THEOREM RunsStayInBudget == Spec => []BudgetRespected
<1>1. AInv => BudgetRespected
  BY DEF AInv, DecidedOnce, BudgetRespected
<1> QED
  BY <1>1, AInvHolds, PTL

\* save_decision stores one decision about a result, whatever is repeated.
THEOREM ResultsAreDecidedOnce == Spec => []OneDecisionPerResult
<1>1. Init => OneDecisionPerResult
  BY DEF Init, OneDecisionPerResult
<1>2. OneDecisionPerResult /\ [Next]_vars => OneDecisionPerResult'
  <2> SUFFICES ASSUME OneDecisionPerResult, [Next]_vars PROVE OneDecisionPerResult'
    OBVIOUS
  <2>1. ASSUME NEW m \in net, DecisionAccepted(m) PROVE OneDecisionPerResult'
    <3> DEFINE new == [key |-> m.key, res |-> CurResult, act |-> m.act]
    <3>1. new.res = CurResult
      OBVIOUS
    <3> HIDE DEF new
    <3>2. decs' = decs \cup {new} /\ \A d \in decs : d.res # CurResult
      BY <2>1 DEF DecisionAccepted, AlreadyDecided, Decided, new
    <3> QED
      BY <3>1, <3>2 DEF OneDecisionPerResult
  <2>2. CASE UNCHANGED decs
    BY <2>2 DEF OneDecisionPerResult
  <2>3. ASSUME NEW m \in net, Handles(m) PROVE DecisionAccepted(m) \/ UNCHANGED decs
    BY <2>3 DEF Handles, Refuses, ProposalRepeated, ProposalAccepted, ProposalFails, DecisionRefused,
                DecisionRepeated, DecisionRolledBack, CompleteAccepted, CompleteFails, server
  <2>4. ASSUME NEW a \in Agents,
               AgentStep(a) \/ ThinkingFails(a) \/ GivesUp(a) \/ TimesOut(a) \/ Crashes(a)
        PROVE  UNCHANGED decs
    BY <2>4 DEF AgentStep, Resumes, Claims, LosesLease, RunsOutOfLoops, Looks, Proposes, SeesResult,
                WaitTimesOut, Decides, ThinkingFails, GivesUp, TimesOut, Crashes, server
  <2>5. CASE LeaseRunsOut \/ HeartbeatsFail \/ OperatorWrites \/ Iterates \/ UNCHANGED vars
    BY <2>2, <2>5 DEF LeaseRunsOut, HeartbeatsFail, OperatorWrites, Iterates, vars
  <2>6. ASSUME NEW i \in 1..Len(work),
               \/ \E q \in Sessions : StepsStart(q, i)
               \/ StepsEnd(i) \/ StepsRetry(i)
               \/ \E kind \in {"ok", "fail"} : LateResult(i, kind)
        PROVE  UNCHANGED decs
    BY <2>6 DEF StepsStart, StepsEnd, StepsRetry, LateResult
  <2>7. CASE \E to \in {"PAUSED", "RUNNING", "CANCELLED", "EVALUATING"} : OperatorReads(to)
    BY <2>2, <2>7 DEF OperatorReads, server
  <2>8. CASE \E q \in Sessions : QueueLoads(q) \/ QueueStops(q)
    BY <2>2, <2>8 DEF QueueLoads, QueueStops
  <2> QED
    BY <2>1, <2>2, <2>3, <2>4, <2>5, <2>6, <2>7, <2>8 DEF Next
<1> QED
  BY <1>1, <1>2, PTL DEF Spec

\* What a queue session holds of the run.
Copies == {"none", "PLANNING", "RUNNING"}
BatchTyped == batch \in [Sessions -> Copies]

LEMMA BatchesTyped == Spec => []BatchTyped
<1>1. Init => BatchTyped
  BY DEF Init, BatchTyped, Copies
<1>2. BatchTyped /\ [Next]_vars => BatchTyped'
  <2> SUFFICES ASSUME BatchTyped, [Next]_vars PROVE BatchTyped'
    OBVIOUS
  <2>1. ASSUME NEW q \in Sessions,
               QueueLoads(q) \/ QueueStops(q) \/ \E i \in 1..Len(work) : StepsStart(q, i)
        PROVE  BatchTyped'
    BY <2>1 DEF QueueLoads, QueueStops, StepsStart, BatchTyped, Copies
  <2>2. CASE UNCHANGED batch
    BY <2>2 DEF BatchTyped
  <2>3. ASSUME NEW m \in net, Handles(m) PROVE UNCHANGED batch
    BY <2>3 DEF Handles, Refuses, ProposalRepeated, ProposalAccepted, ProposalFails, DecisionRefused,
                DecisionRepeated, DecisionAccepted, DecisionRolledBack, CompleteAccepted,
                CompleteFails, server
  <2>4. ASSUME NEW a \in Agents,
               AgentStep(a) \/ ThinkingFails(a) \/ GivesUp(a) \/ TimesOut(a) \/ Crashes(a)
        PROVE  UNCHANGED batch
    BY <2>4 DEF AgentStep, Resumes, Claims, LosesLease, RunsOutOfLoops, Looks, Proposes, SeesResult,
                WaitTimesOut, Decides, ThinkingFails, GivesUp, TimesOut, Crashes, server
  <2>5. CASE LeaseRunsOut \/ HeartbeatsFail \/ OperatorWrites \/ Iterates \/ UNCHANGED vars
    BY <2>2, <2>5 DEF LeaseRunsOut, HeartbeatsFail, OperatorWrites, Iterates, vars
  <2>6. ASSUME NEW i \in 1..Len(work),
               \/ StepsEnd(i) \/ StepsRetry(i)
               \/ \E kind \in {"ok", "fail"} : LateResult(i, kind)
        PROVE  UNCHANGED batch
    BY <2>6 DEF StepsEnd, StepsRetry, LateResult
  <2>7. CASE \E to \in {"PAUSED", "RUNNING", "CANCELLED", "EVALUATING"} : OperatorReads(to)
    BY <2>2, <2>7 DEF OperatorReads, server
  <2> QED
    BY <2>1, <2>2, <2>3, <2>4, <2>5, <2>6, <2>7 DEF Next
<1> QED
  BY <1>1, <1>2, PTL DEF Spec

\* transition_run lets no agent request, however late, take the run out of a
\* final status: only an operator call or a queue session that had loaded the
\* run before does.
THEOREM FinalStatusStays == Spec => FinalUnlessReadBefore
<1> DEFINE Fin == (run \in Final /\ run' # run) => EarlierReaderWrites
<1>1. AInv /\ BatchTyped /\ [Next]_vars => [Fin]_vars
  <2> SUFFICES ASSUME AInv, BatchTyped, [Next]_vars, run \in Final, run' # run
               PROVE  EarlierReaderWrites
    OBVIOUS
  <2>1. run \notin Claimable /\ run # "PAUSED"
    BY DEF Final, Claimable, Settled
  <2>2. ASSUME NEW a \in Agents,
               AgentStep(a) \/ ThinkingFails(a) \/ GivesUp(a) \/ TimesOut(a) \/ Crashes(a)
        PROVE  FALSE
    BY <2>1, <2>2 DEF AgentStep, Resumes, Claims, LosesLease, RunsOutOfLoops, Looks, Proposes, SeesResult,
                WaitTimesOut, Decides, ThinkingFails, GivesUp, TimesOut, Crashes, server
  <2>3. ASSUME NEW m \in net, Handles(m) PROVE FALSE
    <3>1. CASE CompleteAccepted(m)
      <4>1. m.act \in CompleteActs
        BY <3>1 DEF AInv, Typed, Messages, Proposals, DecisionCalls, Completions, CompleteAccepted
      <4>2. run \in CompleteFrom(m.act)
        BY <3>1 DEF CompleteAccepted
      <4>3. run \in Claimable \cup {"PAUSED"}
        BY <4>1, <4>2 DEF CompleteFrom, CompleteActs, Claimable
      <4> QED
        BY <2>1, <4>3
    <3>2. CASE DecisionAccepted(m)
      BY <2>1, <3>2 DEF DecisionAccepted, RunAfterDecision, Claimable
    <3>3. CASE ProposalAccepted(m)
      BY <2>1, <3>3 DEF ProposalAccepted, Claimable
    <3> QED
      BY <2>3, <3>1, <3>2, <3>3 DEF Handles, Refuses, ProposalRepeated, ProposalFails, DecisionRefused,
                  DecisionRepeated, DecisionRolledBack, CompleteFails, server
  <2>4. ASSUME NEW i \in 1..Len(work),
               \/ StepsEnd(i) \/ StepsRetry(i)
               \/ \E kind \in {"ok", "fail"} : LateResult(i, kind)
        PROVE  FALSE
    BY <2>1, <2>4 DEF StepsEnd, StepsRetry, LateResult, Claimable
  <2>5. ~LeaseRunsOut /\ ~HeartbeatsFail /\ ~Iterates /\ ~UNCHANGED vars
    BY <2>1 DEF LeaseRunsOut, HeartbeatsFail, Iterates, vars, Claimable
  <2>6. ~\E to \in {"PAUSED", "RUNNING", "CANCELLED", "EVALUATING"} : OperatorReads(to)
    BY DEF OperatorReads, server
  <2>7. CASE OperatorWrites
    BY <2>7 DEF OperatorWrites, EarlierReaderWrites
  <2>8. ASSUME NEW q \in Sessions, NEW i \in 1..Len(work), StepsStart(q, i) PROVE EarlierReaderWrites
    <3>1. batch[q] = "PLANNING" /\ run' = "RUNNING"
      BY <2>8 DEF StepsStart
    <3>2. PICK left \in {"RUNNING", "none"} : batch' = [batch EXCEPT ![q] = left]
      BY <2>8 DEF StepsStart
    <3>3. batch'[q] = left
      BY <3>2 DEF BatchTyped
    <3> QED
      BY <3>1, <3>3 DEF EarlierReaderWrites
  <2>9. ~\E q \in Sessions : QueueLoads(q) \/ QueueStops(q)
    BY DEF QueueLoads, QueueStops
  <2> QED
    BY <2>2, <2>3, <2>4, <2>5, <2>6, <2>7, <2>8, <2>9 DEF Next
<1> HIDE DEF Fin
<1>2. Spec => [][Fin]_vars
  BY <1>1, AInvHolds, BatchesTyped, PTL DEF Spec
<1> QED
  BY <1>2 DEF Fin, FinalUnlessReadBefore
=============================================================================
