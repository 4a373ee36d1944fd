--------------------------- MODULE VoteNewsProofs ---------------------------
(* What subscribers learn of votes, for any votes, clients, hosts and      *)
(* ports.                                                                  *)
EXTENDS VoteNews, TLAPS

Told(v) == {c \in Client : <<c, v>> \in delivered}

(* One outcome, true of the vote, for the hub, the counter and the reply. *)
VerdictInv(v) ==
    /\ stage[v] \in {"idle", "pending"} => verdict[v] = None
    /\ stage[v] \in {"decided", "announcing", "count", "reply"} => verdict[v] \in Votes!Verdict
    /\ stage[v] \in {"idle", "pending", "decided"} => announced[v] = None
    /\ stage[v] \in {"announcing", "count", "reply"} => announced[v] # None
    /\ announced[v] # None => announced[v] = Votes!Outcome(v) /\ verdict[v] \in Votes!Verdict
    /\ stage[v] = "replied" <=> reply[v] # None
    /\ reply[v] = "invalid" => announced[v] = None
    /\ reply[v] \in {"ok", "failed"} => reply[v] = announced[v]
    /\ verdict[v] = "credited" => v \in credited
    /\ verdict[v] = "refused" => v \notin credited

(* The broadcast runs while the handler is in BroadcastVote. *)
BroadcastInv(v) ==
    /\ broadcast[v] # "idle" => announced[v] # None
    /\ stage[v] \in {"count", "reply"} \/ reply[v] \in {"ok", "failed"} => broadcast[v] = "returned"
    /\ stage[v] = "replied" => broadcast[v] # "running"
    /\ broadcast[v] = "idle" => Told(v) = {} /\ due[v] \subseteq subscribers[ServerKey(v)]
    /\ broadcast[v] # "idle" => due[v] \subseteq addressees[v] \cup Told(v)
    /\ broadcast[v] = "returned" => addressees[v] = {}

OrderInv(w) == \A v \in before[w] : stage[v] = "replied"

IndInv ==
    /\ TypeOK
    /\ \A v \in Vote : VerdictInv(v)
    /\ \A v \in Vote : BroadcastInv(v)
    /\ \A v \in Vote : OrderInv(v)

-----------------------------------------------------------------------------
(* Of all keys, a vote concerns the one it is announced under. *)
LEMMA KeyFits ==
  ASSUME NEW v \in Vote
  PROVE  ServerKey(v) \in Server /\ \A s \in Server : Concerns(s, v) <=> s = ServerKey(v)
<1>1. PICK h \in Host, p \in Port \cup {0} : Address[v] = <<h, p>>
  BY AddressAssumption
<1>2. ServerKey(v) = <<h, IF p = 0 THEN DefaultPort ELSE p>>
  BY <1>1 DEF ServerKey
<1>3. ServerKey(v) \in Server
  BY <1>2, AddressAssumption DEF Server
<1>4. ASSUME NEW s \in Server PROVE Concerns(s, v) <=> s = ServerKey(v)
  <2>1. PICK g \in Host, q \in Port \cup {None} : s = <<g, q>>
    BY DEF Server
  <2> QED
    BY <1>1, <1>2, <2>1 DEF Concerns
<1> QED
  BY <1>3, <1>4

LEMMA AudienceIs ==
  ASSUME TypeOK, NEW v \in Vote
  PROVE  UNION {subscribers[s] : s \in {t \in Server : Concerns(t, v)}} = subscribers[ServerKey(v)]
<1>1. {t \in Server : Concerns(t, v)} = {ServerKey(v)}
  BY KeyFits
<1> QED
  BY <1>1

LEMMA NoneIsNothing ==
    None \notin {"ok", "failed", "invalid", "panic"} /\ None \notin {"credited", "sent", "refused", "unknown"}
  BY NoneAssumption

-----------------------------------------------------------------------------
(* The two halves of a step. *)
LEMMA VoteTypes == ASSUME Votes!TypeOK, Votes!Next \/ UNCHANGED voteVars PROVE Votes!TypeOK'
<1> USE DEF Votes!TypeOK, Votes!GoTo, Votes!Answer, Votes!Outcome, Votes!Verdict
<1>1. CASE UNCHANGED voteVars
  BY <1>1 DEF voteVars
<1>2. ASSUME NEW v \in Vote, Votes!Reject(v) PROVE Votes!TypeOK'
  BY <1>2 DEF Votes!Reject
<1>3. ASSUME NEW v \in Vote, Votes!Submit(v) PROVE Votes!TypeOK'
  BY <1>3 DEF Votes!Submit
<1>4. ASSUME NEW v \in Vote, Votes!Credit(v) PROVE Votes!TypeOK'
  BY <1>4 DEF Votes!Credit
<1>5. ASSUME NEW v \in Vote, NEW d \in Votes!Verdict, Votes!Decide(v, d) PROVE Votes!TypeOK'
  BY <1>5 DEF Votes!Decide
<1>6. ASSUME NEW v \in Vote, Votes!Announce(v) PROVE Votes!TypeOK'
  BY <1>6 DEF Votes!Announce
<1>7. ASSUME NEW v \in Vote, Votes!AnnounceReturns(v) PROVE Votes!TypeOK'
  BY <1>7 DEF Votes!AnnounceReturns
<1>8. ASSUME NEW v \in Vote, Votes!AnnouncePanics(v) PROVE Votes!TypeOK'
  BY <1>8 DEF Votes!AnnouncePanics
<1>9. ASSUME NEW v \in Vote, Votes!Count(v) PROVE Votes!TypeOK'
  BY <1>9 DEF Votes!Count
<1>10. ASSUME NEW v \in Vote, Votes!Reply(v) PROVE Votes!TypeOK'
  BY <1>10 DEF Votes!Reply
<1> QED
  BY <1>1, <1>2, <1>3, <1>4, <1>5, <1>6, <1>7, <1>8, <1>9, <1>10 DEF Votes!Next

LEMMA HubTypes == ASSUME Hub!TypeOK, Hub!Next \/ UNCHANGED hubVars PROVE Hub!TypeOK'
<1> USE DEF Hub!TypeOK
<1>1. CASE UNCHANGED hubVars
  BY <1>1 DEF hubVars
<1>2. ASSUME NEW c \in Client, NEW s \in Server, Hub!Subscribe(c, s) PROVE Hub!TypeOK'
  BY <1>2 DEF Hub!Subscribe
<1>3. ASSUME NEW c \in Client, NEW s \in Server, Hub!Unsubscribe(c, s) PROVE Hub!TypeOK'
  BY <1>3 DEF Hub!Unsubscribe
<1>4. ASSUME NEW v \in Vote, NEW s \in Server, Hub!Publish(v, s) PROVE Hub!TypeOK'
  BY <1>4 DEF Hub!Publish
<1>5. ASSUME NEW v \in Vote, NEW c \in Client, Hub!Deliver(v, c) PROVE Hub!TypeOK'
  BY <1>5 DEF Hub!Deliver
<1>6. ASSUME NEW v \in Vote, NEW c \in Client, Hub!Drop(v, c) PROVE Hub!TypeOK'
  BY <1>6 DEF Hub!Drop
<1>7. ASSUME NEW v \in Vote, Hub!Return(v) PROVE Hub!TypeOK'
  BY <1>7 DEF Hub!Return
<1>8. ASSUME NEW v \in Vote, Hub!Panic(v) PROVE Hub!TypeOK'
  BY <1>8 DEF Hub!Panic
<1> QED
  BY <1>1, <1>2, <1>3, <1>4, <1>5, <1>6, <1>7, <1>8 DEF Hub!Next

(* A step is one of the votes, one of the hub, or one of each. *)
LEMMA StepOfBoth ==
  ASSUME Next
  PROVE  (Votes!Next \/ UNCHANGED voteVars) /\ (Hub!Next \/ UNCHANGED hubVars)
<1>1. ASSUME NEW v \in Vote, Handle(v) PROVE Votes!Next /\ UNCHANGED hubVars
  BY <1>1 DEF Handle, Votes!Next
<1>2. ASSUME NEW v \in Vote, Announce(v) PROVE Votes!Next /\ UNCHANGED hubVars
  BY <1>2 DEF Announce, Votes!Next
<1>3. ASSUME NEW v \in Vote, Publish(v) PROVE UNCHANGED voteVars /\ Hub!Next
  BY <1>3, KeyFits DEF Publish, Hub!Next
<1>4. ASSUME NEW v \in Vote, BroadcastEnds(v) PROVE UNCHANGED voteVars /\ Hub!Next
  BY <1>4 DEF BroadcastEnds, Hub!Next
<1>5. ASSUME NEW v \in Vote, AnnounceReturns(v) \/ AnnouncePanics(v) PROVE Votes!Next /\ UNCHANGED hubVars
  BY <1>5 DEF AnnounceReturns, AnnouncePanics, Votes!Next
<1>6. ASSUME NEW v \in Vote, NEW c \in Client, Deliver(v, c) \/ Drop(v, c) PROVE UNCHANGED voteVars /\ Hub!Next
  BY <1>6 DEF Deliver, Drop, Hub!Next
<1>7. ASSUME NEW c \in Client, NEW s \in Server, Subscribe(c, s) \/ Unsubscribe(c, s)
      PROVE  UNCHANGED voteVars /\ Hub!Next
  BY <1>7 DEF Subscribe, Unsubscribe, Hub!Next
<1> QED
  BY <1>1, <1>2, <1>3, <1>4, <1>5, <1>6, <1>7 DEF Next

-----------------------------------------------------------------------------
LEMMA TypeStep == ASSUME TypeOK, Next PROVE TypeOK'
<1>1. Votes!TypeOK' /\ Hub!TypeOK'
  BY StepOfBoth, VoteTypes, HubTypes DEF TypeOK
<1> USE DEF TypeOK
<1>2. ASSUME NEW v \in Vote, Handle(v) PROVE TypeOK'
  BY <1>1, <1>2 DEF Handle
<1>3. ASSUME NEW v \in Vote, Announce(v) PROVE TypeOK'
  <2>1. subscribers[ServerKey(v)] \subseteq Client
    BY KeyFits DEF Hub!TypeOK
  <2> QED
    BY <1>1, <1>3, <2>1, AudienceIs DEF Announce
<1>4. ASSUME NEW v \in Vote, Publish(v) \/ BroadcastEnds(v) \/ AnnounceReturns(v) \/ AnnouncePanics(v)
      PROVE  TypeOK'
  BY <1>1, <1>4 DEF Publish, BroadcastEnds, AnnounceReturns, AnnouncePanics
<1>5. ASSUME NEW v \in Vote, NEW c \in Client, Deliver(v, c) \/ Drop(v, c) PROVE TypeOK'
  BY <1>1, <1>5 DEF Deliver, Drop
<1>6. ASSUME NEW c \in Client, NEW s \in Server, Subscribe(c, s) PROVE TypeOK'
  BY <1>1, <1>6 DEF Subscribe
<1>7. ASSUME NEW c \in Client, NEW s \in Server, Unsubscribe(c, s) PROVE TypeOK'
  BY <1>1, <1>7 DEF Unsubscribe
<1> QED
  BY <1>2, <1>3, <1>4, <1>5, <1>6, <1>7 DEF Next

(* What the votes do keeps their own invariant, whatever the hub does. *)
LEMMA VerdictStep ==
  ASSUME Votes!TypeOK, \A v \in Vote : VerdictInv(v), Votes!Next \/ UNCHANGED voteVars, NEW u \in Vote
  PROVE  VerdictInv(u)'
<1>0. VerdictInv(u)
  OBVIOUS
<1> USE NoneIsNothing DEF VerdictInv, Votes!TypeOK, Votes!GoTo, Votes!Answer, Votes!Outcome, Votes!Verdict
<1>1. CASE UNCHANGED voteVars
  BY <1>0, <1>1 DEF voteVars
<1>2. ASSUME NEW v \in Vote, Votes!Reject(v) PROVE VerdictInv(u)'
  BY <1>0, <1>2 DEF Votes!Reject
<1>3. ASSUME NEW v \in Vote, Votes!Submit(v) PROVE VerdictInv(u)'
  BY <1>0, <1>3 DEF Votes!Submit
<1>4. ASSUME NEW v \in Vote, Votes!Credit(v) PROVE VerdictInv(u)'
  BY <1>0, <1>4 DEF Votes!Credit
<1>5. ASSUME NEW v \in Vote, NEW d \in Votes!Verdict, Votes!Decide(v, d) PROVE VerdictInv(u)'
  BY <1>0, <1>5 DEF Votes!Decide
<1>6. ASSUME NEW v \in Vote, Votes!Announce(v) PROVE VerdictInv(u)'
  BY <1>0, <1>6 DEF Votes!Announce
<1>7. ASSUME NEW v \in Vote, Votes!AnnounceReturns(v) PROVE VerdictInv(u)'
  BY <1>0, <1>7 DEF Votes!AnnounceReturns
<1>8. ASSUME NEW v \in Vote, Votes!AnnouncePanics(v) PROVE VerdictInv(u)'
  BY <1>0, <1>8 DEF Votes!AnnouncePanics
<1>9. ASSUME NEW v \in Vote, Votes!Count(v) PROVE VerdictInv(u)'
  BY <1>0, <1>9 DEF Votes!Count
<1>10. ASSUME NEW v \in Vote, Votes!Reply(v) PROVE VerdictInv(u)'
  BY <1>0, <1>10 DEF Votes!Reply
<1> QED
  BY <1>1, <1>2, <1>3, <1>4, <1>5, <1>6, <1>7, <1>8, <1>9, <1>10 DEF Votes!Next

(* The handler waits for the broadcast. *)
LEMMA HandlerStep ==
  ASSUME TypeOK, NEW u \in Vote, VerdictInv(u), BroadcastInv(u), UNCHANGED hubVars, NEW v \in Vote,
         \/ Handle(v) \/ AnnounceReturns(v) \/ AnnouncePanics(v)
  PROVE  BroadcastInv(u)'
<1>1. UNCHANGED <<Told(u), due, hubVars>>
  BY DEF Handle, AnnounceReturns, AnnouncePanics, Told, hubVars
<1> USE NoneIsNothing DEF TypeOK, Votes!TypeOK, VerdictInv, BroadcastInv, hubVars, Votes!GoTo, Votes!Answer, Votes!Outcome
<1>2. CASE Votes!Reject(v)
  BY <1>1, <1>2 DEF Votes!Reject
<1>3. CASE Votes!Submit(v)
  BY <1>1, <1>3 DEF Votes!Submit
<1>4. CASE Votes!Credit(v)
  BY <1>1, <1>4 DEF Votes!Credit
<1>5. ASSUME NEW d \in Votes!Verdict, Votes!Decide(v, d) PROVE BroadcastInv(u)'
  BY <1>1, <1>5 DEF Votes!Decide
<1>6. CASE Votes!Count(v)
  BY <1>1, <1>6 DEF Votes!Count
<1>7. CASE Votes!Reply(v)
  BY <1>1, <1>7 DEF Votes!Reply
<1>8. CASE AnnounceReturns(v)
  BY <1>1, <1>8 DEF AnnounceReturns, Votes!AnnounceReturns
<1>9. CASE AnnouncePanics(v)
  BY <1>1, <1>9 DEF AnnouncePanics, Votes!AnnouncePanics
<1> QED
  BY <1>2, <1>3, <1>4, <1>5, <1>6, <1>7, <1>8, <1>9 DEF Handle

(* The hub does not lose whom a broadcast has to reach. *)
LEMMA BroadcastStep ==
  ASSUME TypeOK, NEW u \in Vote, VerdictInv(u), BroadcastInv(u), Next
  PROVE  BroadcastInv(u)'
<1>0. ServerKey(u) \in Server /\ \A s \in Server : Concerns(s, u) <=> s = ServerKey(u)
  BY KeyFits
<1>1. ASSUME NEW v \in Vote, Handle(v) \/ AnnounceReturns(v) \/ AnnouncePanics(v) PROVE BroadcastInv(u)'
  <2>1. UNCHANGED hubVars
    BY <1>1 DEF Handle, AnnounceReturns, AnnouncePanics
  <2> QED
    BY <1>1, <2>1, HandlerStep
<1> USE DEF TypeOK, BroadcastInv, Told
<1>2. ASSUME NEW v \in Vote, Announce(v) PROVE BroadcastInv(u)'
  <2>1. due' = [due EXCEPT ![v] = subscribers[ServerKey(v)]] /\ UNCHANGED hubVars
    BY <1>2, AudienceIs DEF Announce
  <2>2. u = v => broadcast[u] = "idle"
    BY <1>2, NoneIsNothing DEF Announce, Votes!Announce, VerdictInv
  <2> QED
    BY <1>2, <2>1, <2>2, NoneIsNothing DEF Announce, Votes!Announce, Votes!GoTo, VerdictInv, Votes!TypeOK,
       Votes!Outcome, hubVars
<1>3. ASSUME NEW v \in Vote, Publish(v) PROVE BroadcastInv(u)'
  BY <1>3, NoneIsNothing DEF Publish, Hub!Publish, Hub!TypeOK, voteVars, VerdictInv
<1>4. ASSUME NEW v \in Vote, BroadcastEnds(v) PROVE BroadcastInv(u)'
  BY <1>4 DEF BroadcastEnds, Hub!Return, Hub!Panic, Hub!TypeOK, voteVars, VerdictInv
<1>5. ASSUME NEW v \in Vote, NEW c \in Client, Deliver(v, c) PROVE BroadcastInv(u)'
  BY <1>5 DEF Deliver, Hub!Deliver, Hub!TypeOK, voteVars
<1>6. ASSUME NEW v \in Vote, NEW c \in Client, Drop(v, c) PROVE BroadcastInv(u)'
  BY <1>6 DEF Drop, Hub!Drop, Hub!TypeOK, voteVars
<1>7. ASSUME NEW c \in Client, NEW s \in Server, Subscribe(c, s) PROVE BroadcastInv(u)'
  BY <1>0, <1>7 DEF Subscribe, Hub!Subscribe, Hub!TypeOK, voteVars
<1>8. ASSUME NEW c \in Client, NEW s \in Server, Unsubscribe(c, s) PROVE BroadcastInv(u)'
  BY <1>0, <1>8 DEF Unsubscribe, Hub!Unsubscribe, Hub!TypeOK, voteVars
<1> QED
  BY <1>1, <1>2, <1>3, <1>4, <1>5, <1>6, <1>7, <1>8 DEF Next

(* A reply is final. *)
LEMMA RepliedStays ==
  ASSUME Votes!TypeOK, Votes!Next \/ UNCHANGED voteVars, NEW u \in Vote, stage[u] = "replied"
  PROVE  stage'[u] = "replied"
<1> USE DEF Votes!TypeOK, Votes!GoTo, Votes!Answer
<1>1. CASE UNCHANGED voteVars
  BY <1>1 DEF voteVars
<1>2. CASE Votes!Next
  BY <1>2 DEF Votes!Next, Votes!Reject, Votes!Submit, Votes!Credit, Votes!Decide, Votes!Announce,
     Votes!AnnounceReturns, Votes!AnnouncePanics, Votes!Count, Votes!Reply
<1> QED
  BY <1>1, <1>2

LEMMA OrderStep ==
  ASSUME TypeOK, NEW w \in Vote, OrderInv(w), Next
  PROVE  OrderInv(w)'
<1>1. \A u \in Vote : stage[u] = "replied" => stage'[u] = "replied"
  BY StepOfBoth, RepliedStays DEF TypeOK
<1>2. before'[w] \subseteq before[w] \cup {u \in Vote : stage[u] = "replied"}
  BY DEF TypeOK, Next, Handle, Announce, Publish, BroadcastEnds, AnnounceReturns, AnnouncePanics,
     Deliver, Drop, Subscribe, Unsubscribe
<1>3. before[w] \subseteq Vote
  BY DEF TypeOK
<1> QED
  BY <1>1, <1>2, <1>3 DEF OrderInv

-----------------------------------------------------------------------------
LEMMA InitInv == Init => IndInv
<1> SUFFICES ASSUME Init PROVE IndInv
  OBVIOUS
<1> USE NoneIsNothing DEF Init, Votes!Init, Hub!Init
<1>1. TypeOK
  BY DEF TypeOK, Votes!TypeOK, Hub!TypeOK
<1>2. \A v \in Vote : VerdictInv(v)
  BY DEF VerdictInv
<1>3. \A v \in Vote : BroadcastInv(v)
  BY DEF BroadcastInv, Told
<1>4. \A v \in Vote : OrderInv(v)
  BY DEF OrderInv
<1> QED
  BY <1>1, <1>2, <1>3, <1>4 DEF IndInv

LEMMA NextInv == IndInv /\ [Next]_vars => IndInv'
<1> SUFFICES ASSUME IndInv, [Next]_vars PROVE IndInv'
  OBVIOUS
<1>1. CASE Next
  <2>1. TypeOK'
    BY <1>1, TypeStep DEF IndInv
  <2>2. \A v \in Vote : VerdictInv(v)'
    BY <1>1, StepOfBoth, VerdictStep DEF IndInv, TypeOK
  <2>3. \A v \in Vote : BroadcastInv(v)' /\ OrderInv(v)'
    BY <1>1, BroadcastStep, OrderStep DEF IndInv
  <2> QED
    BY <2>1, <2>2, <2>3 DEF IndInv
<1>2. CASE UNCHANGED vars
  BY <1>2 DEF IndInv, TypeOK, Votes!TypeOK, Hub!TypeOK, VerdictInv, BroadcastInv, OrderInv, Told,
     Votes!Outcome, Votes!Verdict, vars, voteVars, hubVars
<1> QED
  BY <1>1, <1>2

(* The inductive invariant holds in every state. *)
THEOREM NewsInvariant == Spec => []IndInv
  BY InitInv, NextInv, PTL DEF Spec

(* Type correctness. *)
THEOREM NewsTypes == Spec => []TypeOK
<1>1. IndInv => TypeOK
  BY DEF IndInv
<1> QED
  BY <1>1, NewsInvariant, PTL

(* What a subscriber is told of a vote is true of it and stays so, and the *)
(* submitter is not told otherwise (vote.go:67-89 with hub.go:143-179).    *)
THEOREM SubscribersAreToldTheTruth == Spec => []NewsIsTrue
<1>1. IndInv => NewsIsTrue
  <2> SUFFICES ASSUME IndInv, NEW c \in Client, NEW v \in Vote, <<c, v>> \in delivered
               PROVE  /\ announced[v] \in {"ok", "failed"}
                      /\ announced[v] = "ok" => v \in credited \/ verdict[v] = "sent"
                      /\ announced[v] = "failed" => v \notin credited \/ verdict[v] = "unknown"
                      /\ reply[v] \in {announced[v], "panic", None}
    BY DEF NewsIsTrue
  <2>1. VerdictInv(v) /\ BroadcastInv(v) /\ TypeOK
    BY DEF IndInv
  <2>2. announced[v] # None
    BY <2>1 DEF BroadcastInv, Told
  <2>3. announced[v] = Votes!Outcome(v) /\ verdict[v] \in Votes!Verdict
    BY <2>1, <2>2 DEF VerdictInv
  <2>4. reply[v] \in {announced[v], "panic", None}
    BY <2>1, <2>2 DEF VerdictInv, TypeOK, Votes!TypeOK
  <2> QED
    BY <2>1, <2>3, <2>4 DEF VerdictInv, Votes!Outcome, Votes!Verdict
<1> QED
  BY <1>1, NewsInvariant, PTL

(* Subscribers have the news before the submitter has the reply: the       *)
(* handler is in BroadcastVote until every one of them has been written to.*)
THEOREM SubscribersHearFirst == Spec => []NewsBeforeReply
<1>1. IndInv => NewsBeforeReply
  BY DEF IndInv, BroadcastInv, Told, NewsBeforeReply, TypeOK
<1> QED
  BY <1>1, NewsInvariant, PTL

(* A vote that was replied to is no news any more, so that a later one     *)
(* cannot be overtaken by it.                                              *)
THEOREM NewsComeInOrder == Spec => NewsInOrder
<1>1. IndInv /\ [Next]_vars =>
        [\A c \in Client, w \in Vote : \A v \in before[w] :
            <<c, v>> \in delivered' \ delivered => <<c, w>> \notin delivered]_vars
  <2> SUFFICES ASSUME IndInv, Next, NEW c \in Client, NEW w \in Vote, NEW v \in before[w],
                      <<c, v>> \in delivered' \ delivered
               PROVE  FALSE
    BY DEF vars
  <2>1. v \in Vote /\ stage[v] = "replied"
    BY DEF IndInv, TypeOK, OrderInv
  <2>2. broadcast[v] # "running"
    BY <2>1 DEF IndInv, BroadcastInv
  <2>3. delivered' # delivered
    OBVIOUS
  <2>4. PICK u \in Vote, b \in Client : Deliver(u, b)
    BY <2>3 DEF Next, Handle, Announce, Publish, BroadcastEnds, AnnounceReturns, AnnouncePanics, Drop,
       Subscribe, Unsubscribe, hubVars, Hub!Publish, Hub!Return, Hub!Panic, Hub!Drop,
       Hub!Subscribe, Hub!Unsubscribe
  <2>5. broadcast[u] = "running" /\ u = v
    BY <2>4 DEF Deliver, Hub!Deliver
  <2> QED
    BY <2>2, <2>5
<1> QED
  BY <1>1, NewsInvariant, PTL DEF Spec, NewsInOrder

-----------------------------------------------------------------------------
(* Nothing the composition does is more than a step of either part: what   *)
(* they promise holds here too.                                            *)
THEOREM NewsKeepBothPromises == Spec => Votes!Spec /\ Hub!Spec
<1>1. Init => Votes!Init /\ Hub!Init
  BY DEF Init
<1>2. [Next]_vars => [Votes!Next]_(Votes!vars) /\ [Hub!Next]_(Hub!vars)
  BY StepOfBoth DEF vars, voteVars, hubVars, Votes!vars, Hub!vars
<1> QED
  BY <1>1, <1>2, PTL DEF Spec, Votes!Spec, Hub!Spec
=============================================================================
