------------------------ MODULE VoteForwardingProofs ------------------------
(* What the outcome of a vote says of the vote, for any number of votes,   *)
(* any lengths and any limit of the key.                                   *)
EXTENDS VoteForwarding, Integers, FiniteSetTheorems, TLAPS

InService == {"greeting", "send", "response"}
AfterService == {"announce", "announcing", "count", "reply", "replied"}

(* There is a connection from the dial on, and it is open only inside the  *)
(* service, where nothing has failed yet.                                  *)
ConnectionInv(v) ==
    /\ conn[v] = "none" <=> plugin[v] = "none"
    /\ conn[v] = "open" <=> pc[v] \in InService
    /\ pc[v] \in {"idle", "dial"} => conn[v] = "none"
    /\ pc[v] \notin AfterService => err[v] = None

(* What was not sent cannot be credited, and what the plugin says is so.   *)
WireInv(v) ==
    /\ pc[v] \in {"idle", "dial", "greeting", "send"} => packet[v] = None
    /\ err[v] \in Error \ {"lost", "unparsed", "refused"} => packet[v] = None
    /\ packet[v] = None => plugin[v] \in {"none", "accepted", "greeted", "gone"} /\ credits[v] = 0
    /\ plugin[v] \in {"none", "accepted", "greeted", "refused"} => credits[v] = 0
    /\ plugin[v] \in {"none", "accepted", "greeted", "credited", "refused"} => response[v] = None
    /\ plugin[v] = "credited" => credits[v] = 1
    /\ credits[v] <= 1
    /\ response[v] = "ok" => credits[v] = 1
    /\ response[v] = "error" => credits[v] = 0

(* The error is what the answer, or its absence, makes of it. *)
OutcomeInv(v) ==
    /\ err[v] = "refused" => response[v] = "error"
    /\ err[v] = "unparsed" => response[v] = "malformed"
    /\ err[v] = "lost" => plugin[v] = "gone"
    /\ reply[v] = "invalid" => conn[v] = "none"
    /\ /\ method[v] = "v2"
       /\ err[v] = None
       /\ pc[v] \in AfterService
       => response[v] = "ok" \/ reply[v] = "invalid"

(* It is announced, counted and replied without a change. *)
ToldInv(v) ==
    /\ reply[v] = None <=> pc[v] # "replied"
    /\ announced[v] # None => announced[v] = Outcome(v) /\ pc[v] \in AfterService \ {"announce"}
    /\ pc[v] \in {"announcing", "count", "reply"} => announced[v] = Outcome(v)
    /\ pc[v] = "count" => err[v] = None
    /\ reply[v] \in {"ok", "failed"} => reply[v] = announced[v]
    /\ reply[v] = "invalid" => announced[v] = None

IsCounted(v) == announced[v] = "ok" /\ pc[v] \in {"reply", "replied"} /\ reply[v] # "panic"

Counted == {v \in Vote : IsCounted(v)}

CountInv == IsFiniteSet(Counted) /\ votesTotal = Cardinality(Counted)

VoteInv(v) == ConnectionInv(v) /\ WireInv(v) /\ OutcomeInv(v) /\ ToldInv(v)

IndInv == TypeOK /\ (\A v \in Vote : VoteInv(v)) /\ CountInv

-----------------------------------------------------------------------------
(* A step of one vote.                                                     *)
Step(v) == RejectInvalid(v) \/ Accept(v) \/ SendVote(v) \/ Finish(v) \/ Plugin(v)

(* What the step of another vote leaves of v. *)
Same(v) ==
    /\ pc'[v] = pc[v] /\ method'[v] = method[v] /\ err'[v] = err[v] /\ conn'[v] = conn[v]
    /\ packet'[v] = packet[v] /\ response'[v] = response[v]
    /\ announced'[v] = announced[v] /\ reply'[v] = reply[v]
    /\ plugin'[v] = plugin[v] /\ credits'[v] = credits[v]

LEMMA NoneIsNothing ==
    /\ None \notin Word /\ None \notin Error /\ None \notin {"ok", "failed", "invalid", "panic"}
    /\ None \notin {"ok", "error", "malformed"} /\ None \notin {"v1", "v2", "noChallenge"}
    /\ None \notin {"credited", "sent", "refused", "unknown"}
  BY NoneAssumption DEF Error

LEMMA WordIsNat == WordSize \in Nat \ {0} /\ Word \subseteq Nat
<1>1. WordSize \in Nat \ {0}
  BY DEF WordSize
<1> QED
  BY <1>1 DEF Word

LEMMA LengthInWord == ASSUME NEW n \in Nat PROVE LengthField(n) \in Word
  BY WordIsNat DEF LengthField, Word

LEMMA SizeType == ASSUME TypeOK, NEW v \in Vote PROVE size[v] \in Size \cup {0}
  BY DEF TypeOK

LEMMA LengthType == ASSUME TypeOK, NEW v \in Vote PROVE LengthField(size[v]) \in Word
<1>1. PICK n \in Size \cup {0} : n = size[v]
  BY SizeType
<1>2. n \in Nat
  BY SizeAssumption
<1>3. LengthField(n) \in Word
  BY <1>2, LengthInWord
<1> QED
  BY <1>1, <1>3

LEMMA PacketType ==
  ASSUME TypeOK, NEW v \in Vote, packet' = [packet EXCEPT ![v] = LengthField(size[v])]
  PROVE  /\ packet' \in [Vote -> Nat \cup {None}]
         /\ \A u \in Vote : packet'[u] # None => packet'[u] \in Word
<1>1. PICK n \in Word : n = LengthField(size[v])
  BY LengthType
<1>2. n \in Nat
  BY WordIsNat
<1>3. packet \in [Vote -> Nat \cup {None}] /\ \A u \in Vote : packet[u] # None => packet[u] \in Word
  BY DEF TypeOK
<1>4. packet' = [packet EXCEPT ![v] = n]
  BY <1>1
<1> QED
  BY <1>2, <1>3, <1>4

LEMMA TypeStep == ASSUME TypeOK, NEW v \in Vote, Step(v) PROVE TypeOK'
<1> USE DEF TypeOK, requestVars, wireVars, outcomeVars, pluginVars
<1>1. CASE RejectInvalid(v)
  BY <1>1 DEF RejectInvalid
<1>2. CASE Accept(v)
  BY <1>2 DEF Accept, Error
<1>3. CASE Dial(v)
  BY <1>3 DEF Dial
<1>4. CASE DialFails(v)
  BY <1>4 DEF DialFails, Error
<1>5. CASE ReadGreeting(v)
  BY <1>5 DEF ReadGreeting
<1>6. CASE ReadGreetingUnfit(v)
  BY <1>6 DEF ReadGreetingUnfit, Return, Error
<1>7. CASE ReadFails(v)
  BY <1>7 DEF ReadFails, Return, Error
<1>8. CASE EncryptFails(v)
  BY <1>8 DEF EncryptFails, Return, Error
<1>9. CASE SendV1(v)
  BY <1>9, PacketType DEF SendV1, Return
<1>10. CASE SendV2(v)
  BY <1>10, PacketType DEF SendV2
<1>11. CASE SendFails(v)
  BY <1>11 DEF SendFails, Return, Error
<1>12. CASE ReadResponse(v)
  BY <1>12 DEF ReadResponse, Return, Answered, Error
<1>13. CASE Announce(v)
  BY <1>13 DEF Announce, Outcome
<1>14. CASE AnnounceReturns(v)
  BY <1>14 DEF AnnounceReturns
<1>15. CASE AnnouncePanics(v)
  BY <1>15 DEF AnnouncePanics
<1>16. CASE Count(v)
  BY <1>16 DEF Count
<1>17. CASE Reply(v)
  BY <1>17 DEF Reply, Outcome
<1>18. CASE PluginGreets(v)
  BY <1>18 DEF PluginGreets
<1>19. CASE PluginCredits(v)
  BY <1>19 DEF PluginCredits
<1>20. CASE PluginRefuses(v)
  BY <1>20 DEF PluginRefuses
<1>21. CASE PluginAnswers(v)
  BY <1>21 DEF PluginAnswers
<1>22. CASE PluginGoes(v)
  BY <1>22 DEF PluginGoes
<1> QED
  BY <1>1, <1>2, <1>3, <1>4, <1>5, <1>6, <1>7, <1>8, <1>9, <1>10, <1>11, <1>12, <1>13, <1>14, <1>15, <1>16, <1>17, <1>18, <1>19, <1>20, <1>21, <1>22 DEF Step, SendVote, Finish, Plugin

LEMMA OthersSame == ASSUME TypeOK, NEW v \in Vote, Step(v), NEW u \in Vote \ {v} PROVE Same(u)
<1> USE DEF TypeOK, Same, requestVars, wireVars, outcomeVars, pluginVars
<1>1. CASE RejectInvalid(v)
  BY <1>1 DEF RejectInvalid
<1>2. CASE Accept(v)
  BY <1>2 DEF Accept
<1>3. CASE Dial(v)
  BY <1>3 DEF Dial
<1>4. CASE DialFails(v)
  BY <1>4 DEF DialFails
<1>5. CASE ReadGreeting(v)
  BY <1>5 DEF ReadGreeting
<1>6. CASE ReadGreetingUnfit(v)
  BY <1>6 DEF ReadGreetingUnfit, Return
<1>7. CASE ReadFails(v)
  BY <1>7 DEF ReadFails, Return
<1>8. CASE EncryptFails(v)
  BY <1>8 DEF EncryptFails, Return
<1>9. CASE SendV1(v)
  BY <1>9 DEF SendV1, Return
<1>10. CASE SendV2(v)
  BY <1>10 DEF SendV2
<1>11. CASE SendFails(v)
  BY <1>11 DEF SendFails, Return
<1>12. CASE ReadResponse(v)
  BY <1>12 DEF ReadResponse, Return
<1>13. CASE Announce(v)
  BY <1>13 DEF Announce
<1>14. CASE AnnounceReturns(v)
  BY <1>14 DEF AnnounceReturns
<1>15. CASE AnnouncePanics(v)
  BY <1>15 DEF AnnouncePanics
<1>16. CASE Count(v)
  BY <1>16 DEF Count
<1>17. CASE Reply(v)
  BY <1>17 DEF Reply
<1>18. CASE PluginGreets(v)
  BY <1>18 DEF PluginGreets
<1>19. CASE PluginCredits(v)
  BY <1>19 DEF PluginCredits
<1>20. CASE PluginRefuses(v)
  BY <1>20 DEF PluginRefuses
<1>21. CASE PluginAnswers(v)
  BY <1>21 DEF PluginAnswers
<1>22. CASE PluginGoes(v)
  BY <1>22 DEF PluginGoes
<1> QED
  BY <1>1, <1>2, <1>3, <1>4, <1>5, <1>6, <1>7, <1>8, <1>9, <1>10, <1>11, <1>12, <1>13, <1>14, <1>15, <1>16, <1>17, <1>18, <1>19, <1>20, <1>21, <1>22 DEF Step, SendVote, Finish, Plugin

LEMMA SameInv == ASSUME NEW v \in Vote, VoteInv(v), Same(v) PROVE VoteInv(v)'
  BY DEF VoteInv, ConnectionInv, WireInv, OutcomeInv, ToldInv, Same, Outcome

LEMMA OwnStep == ASSUME TypeOK, NEW v \in Vote, VoteInv(v), Step(v) PROVE VoteInv(v)'
<1> USE NoneIsNothing DEF TypeOK, Error, VoteInv, ConnectionInv, WireInv, OutcomeInv, ToldInv, InService, AfterService, Outcome, requestVars, wireVars, outcomeVars, pluginVars
<1>1. CASE RejectInvalid(v)
  BY <1>1 DEF RejectInvalid
<1>2. CASE Accept(v)
  BY <1>2 DEF Accept
<1>3. CASE Dial(v)
  BY <1>3 DEF Dial
<1>4. CASE DialFails(v)
  BY <1>4 DEF DialFails
<1>5. CASE ReadGreeting(v)
  BY <1>5 DEF ReadGreeting
<1>6. CASE ReadGreetingUnfit(v)
  BY <1>6 DEF ReadGreetingUnfit, Return
<1>7. CASE ReadFails(v)
  BY <1>7 DEF ReadFails, Return
<1>8. CASE EncryptFails(v)
  BY <1>8 DEF EncryptFails, Return
<1>9. CASE SendV1(v)
  BY <1>9 DEF SendV1, Return, CanSend, LengthField
<1>10. CASE SendV2(v)
  BY <1>10 DEF SendV2, CanSend, LengthField
<1>11. CASE SendFails(v)
  BY <1>11 DEF SendFails, Return, CanSend
<1>12. CASE ReadResponse(v)
  BY <1>12 DEF ReadResponse, Return, Answered
<1>13. CASE Announce(v)
  BY <1>13 DEF Announce, Outcome
<1>14. CASE AnnounceReturns(v)
  BY <1>14 DEF AnnounceReturns
<1>15. CASE AnnouncePanics(v)
  BY <1>15 DEF AnnouncePanics
<1>16. CASE Count(v)
  BY <1>16 DEF Count
<1>17. CASE Reply(v)
  BY <1>17 DEF Reply, Outcome
<1>18. CASE PluginGreets(v)
  BY <1>18 DEF PluginGreets
<1>19. CASE PluginCredits(v)
  BY <1>19 DEF PluginCredits
<1>20. CASE PluginRefuses(v)
  BY <1>20 DEF PluginRefuses
<1>21. CASE PluginAnswers(v)
  BY <1>21 DEF PluginAnswers
<1>22. CASE PluginGoes(v)
  BY <1>22 DEF PluginGoes
<1> QED
  BY <1>1, <1>2, <1>3, <1>4, <1>5, <1>6, <1>7, <1>8, <1>9, <1>10, <1>11, <1>12, <1>13, <1>14, <1>15, <1>16, <1>17, <1>18, <1>19, <1>20, <1>21, <1>22 DEF Step, SendVote, Finish, Plugin

(* Only Count changes who is counted. *)
LEMMA CountedSame ==
  ASSUME TypeOK, NEW v \in Vote, VoteInv(v), Step(v), ~ Count(v)
  PROVE  votesTotal' = votesTotal /\ IsCounted(v)' = IsCounted(v)
<1> USE NoneIsNothing DEF TypeOK, VoteInv, ToldInv, AfterService, IsCounted, Outcome, requestVars, wireVars, outcomeVars, pluginVars
<1>1. CASE RejectInvalid(v)
  BY <1>1 DEF RejectInvalid
<1>2. CASE Accept(v)
  BY <1>2 DEF Accept
<1>3. CASE Dial(v)
  BY <1>3 DEF Dial
<1>4. CASE DialFails(v)
  BY <1>4 DEF DialFails
<1>5. CASE ReadGreeting(v)
  BY <1>5 DEF ReadGreeting
<1>6. CASE ReadGreetingUnfit(v)
  BY <1>6 DEF ReadGreetingUnfit, Return
<1>7. CASE ReadFails(v)
  BY <1>7 DEF ReadFails, Return
<1>8. CASE EncryptFails(v)
  BY <1>8 DEF EncryptFails, Return
<1>9. CASE SendV1(v)
  BY <1>9 DEF SendV1, Return, CanSend
<1>10. CASE SendV2(v)
  BY <1>10 DEF SendV2, CanSend
<1>11. CASE SendFails(v)
  BY <1>11 DEF SendFails, Return, CanSend
<1>12. CASE ReadResponse(v)
  BY <1>12 DEF ReadResponse, Return
<1>13. CASE Announce(v)
  BY <1>13 DEF Announce
<1>14. CASE AnnounceReturns(v)
  BY <1>14 DEF AnnounceReturns
<1>15. CASE AnnouncePanics(v)
  BY <1>15 DEF AnnouncePanics
<1>16. CASE Reply(v)
  BY <1>16 DEF Reply
<1>17. CASE PluginGreets(v)
  BY <1>17 DEF PluginGreets
<1>18. CASE PluginCredits(v)
  BY <1>18 DEF PluginCredits
<1>19. CASE PluginRefuses(v)
  BY <1>19 DEF PluginRefuses
<1>20. CASE PluginAnswers(v)
  BY <1>20 DEF PluginAnswers
<1>21. CASE PluginGoes(v)
  BY <1>21 DEF PluginGoes
<1> QED
  BY <1>1, <1>2, <1>3, <1>4, <1>5, <1>6, <1>7, <1>8, <1>9, <1>10, <1>11, <1>12, <1>13, <1>14, <1>15, <1>16, <1>17, <1>18, <1>19, <1>20, <1>21 DEF Step, SendVote, Finish, Plugin

LEMMA CountStep ==
  ASSUME TypeOK, \A u \in Vote : VoteInv(u), CountInv, NEW v \in Vote, Step(v)
  PROVE  CountInv'
<1>1. \A u \in Vote \ {v} : IsCounted(u)' = IsCounted(u)
  BY OthersSame DEF Same, IsCounted
<1>2. CASE Count(v)
  <2>1. ~ IsCounted(v) /\ IsCounted(v)' /\ votesTotal' = votesTotal + 1
    BY <1>2, NoneIsNothing DEF Count, VoteInv, ToldInv, IsCounted, Outcome, TypeOK
  <2>2. Counted' = Counted \cup {v} /\ v \notin Counted
    BY <1>1, <2>1 DEF Counted
  <2>3. IsFiniteSet(Counted') /\ Cardinality(Counted') = Cardinality(Counted) + 1
    BY <2>2, FS_AddElement DEF CountInv
  <2> QED
    BY <2>1, <2>3 DEF CountInv
<1>3. CASE ~ Count(v)
  <2>1. votesTotal' = votesTotal /\ IsCounted(v)' = IsCounted(v)
    BY <1>3, CountedSame
  <2>2. Counted' = Counted
    BY <1>1, <2>1 DEF Counted
  <2> QED
    BY <2>1, <2>2 DEF CountInv
<1> QED
  BY <1>2, <1>3

-----------------------------------------------------------------------------
LEMMA InitInv == Init => IndInv
<1> SUFFICES ASSUME Init PROVE IndInv
  OBVIOUS
<1>1. TypeOK
  BY NoneIsNothing DEF Init, TypeOK
<1>2. \A v \in Vote : VoteInv(v)
  BY NoneIsNothing DEF Init, VoteInv, ConnectionInv, WireInv, OutcomeInv, ToldInv, InService, AfterService, Error
<1>3. Counted = {}
  BY NoneIsNothing DEF Init, Counted, IsCounted
<1>4. CountInv
  BY <1>3, FS_EmptySet DEF Init, CountInv
<1> QED
  BY <1>1, <1>2, <1>4 DEF IndInv

LEMMA NextInv == IndInv /\ [Next]_vars => IndInv'
<1> SUFFICES ASSUME IndInv, [Next]_vars PROVE IndInv'
  OBVIOUS
<1> USE DEF IndInv
<1>1. CASE Next
  <2>1. PICK v \in Vote : Step(v)
    BY <1>1 DEF Next, Step
  <2>2. TypeOK'
    BY <2>1, TypeStep
  <2>3. ASSUME NEW u \in Vote PROVE VoteInv(u)'
    <3>1. CASE u = v
      BY <2>1, <3>1, OwnStep
    <3>2. CASE u # v
      <4>1. Same(u)
        BY <2>1, <3>2, OthersSame
      <4> QED
        BY <4>1, SameInv
    <3> QED
      BY <3>1, <3>2
  <2>4. CountInv'
    BY <2>1, CountStep
  <2> QED
    BY <2>2, <2>3, <2>4
<1>2. CASE UNCHANGED vars
  BY <1>2 DEF vars, requestVars, wireVars, outcomeVars, pluginVars, TypeOK, VoteInv, ConnectionInv,
     WireInv, OutcomeInv, ToldInv, Outcome, CountInv, Counted, IsCounted
<1> QED
  BY <1>1, <1>2

(* The inductive invariant holds in every state. *)
THEOREM VoteInvariant == Spec => []IndInv
  BY InitInv, NextInv, PTL DEF Spec

(* Type correctness. *)
THEOREM VoteTypes == Spec => []TypeOK
<1>1. IndInv => TypeOK
  BY DEF IndInv
<1> QED
  BY <1>1, VoteInvariant, PTL

(* A v2 vote that is announced or replied as sent has been credited, and   *)
(* the plugin was there to credit it.                                      *)
THEOREM SuccessMeansCredited == Spec => []OkMeansCredited
<1>1. IndInv => OkMeansCredited
  <2> SUFFICES ASSUME IndInv, NEW v \in Vote, method[v] = "v2", announced[v] = "ok" \/ reply[v] = "ok"
               PROVE  credits[v] > 0
    BY DEF OkMeansCredited
  <2>1. VoteInv(v) /\ TypeOK
    BY DEF IndInv
  <2>2. announced[v] = "ok"
    BY <2>1 DEF VoteInv, ToldInv
  <2>3. err[v] = None /\ pc[v] \in AfterService /\ reply[v] # "invalid"
    BY <2>1, <2>2, NoneIsNothing DEF VoteInv, ToldInv, Outcome
  <2>4. credits[v] = 1
    BY <2>1, <2>3 DEF VoteInv, OutcomeInv, WireInv
  <2> QED
    BY <2>4
<1> QED
  BY <1>1, VoteInvariant, PTL

(* No request makes the plugin credit twice. *)
THEOREM OneCredit == Spec => []CreditedOnce
<1>1. IndInv => CreditedOnce
  BY DEF IndInv, VoteInv, WireInv, CreditedOnce
<1> QED
  BY <1>1, VoteInvariant, PTL

(* Whoever is shown an error other than a lost or unreadable answer may    *)
(* vote again: nothing has been credited.                                  *)
THEOREM FailureMeansNotCredited == Spec => []FailedMeansNotCredited
<1>1. IndInv => FailedMeansNotCredited
  <2> SUFFICES ASSUME IndInv, NEW v \in Vote, err[v] \notin {None, "lost", "unparsed"}
               PROVE  credits[v] = 0
    BY DEF FailedMeansNotCredited
  <2>1. VoteInv(v) /\ err[v] \in Error \cup {None}
    BY DEF IndInv, TypeOK
  <2>2. CASE err[v] = "refused"
    BY <2>1, <2>2 DEF VoteInv, OutcomeInv, WireInv
  <2>3. CASE err[v] # "refused"
    BY <2>1, <2>3 DEF VoteInv, WireInv
  <2> QED
    BY <2>2, <2>3
<1> QED
  BY <1>1, VoteInvariant, PTL

(* Subscribers, submitter and counter are told the same. *)
THEOREM EveryoneToldTheSame == Spec => []ToldTheSame
<1>1. IndInv => ToldTheSame
  <2> SUFFICES ASSUME IndInv PROVE ToldTheSame
    OBVIOUS
  <2>1. \A v \in Vote : reply[v] \in {"ok", "failed"} => reply[v] = announced[v]
    BY DEF IndInv, VoteInv, ToldInv
  <2>2. Counted = {v \in Vote : /\ announced[v] = "ok"
                               /\ pc[v] \in {"reply", "replied"}
                               /\ reply[v] # "panic"}
    BY DEF Counted, IsCounted
  <2> QED
    BY <2>1, <2>2 DEF ToldTheSame, IndInv, CountInv
<1> QED
  BY <1>1, VoteInvariant, PTL

-----------------------------------------------------------------------------
(* How far a vote has come: its request and the plugin's side of it.       *)
RequestStage ==
    [idle |-> 0, dial |-> 1, greeting |-> 2, send |-> 3, response |-> 4, announce |-> 5,
     announcing |-> 6, count |-> 7, reply |-> 8, replied |-> 9]

PluginStage ==
    [none |-> 0, accepted |-> 1, greeted |-> 2, credited |-> 3, refused |-> 3,
     answered |-> 4, gone |-> 5]

Stage(v) == RequestStage[pc[v]] + PluginStage[plugin[v]]

LEMMA StageType == ASSUME TypeOK, NEW v \in Vote PROVE Stage(v) \in 0..14
<1>1. RequestStage[pc[v]] \in 0..9
  BY DEF TypeOK, RequestStage
<1>2. PluginStage[plugin[v]] \in 0..5
  BY DEF TypeOK, PluginStage
<1> QED
  BY <1>1, <1>2 DEF Stage

LEMMA StageGrows == ASSUME TypeOK, NEW v \in Vote, VoteInv(v), Step(v) PROVE Stage(v)' > Stage(v)
<1> USE DEF TypeOK, VoteInv, ConnectionInv, Stage, RequestStage, PluginStage,
            requestVars, wireVars, outcomeVars, pluginVars
<1>1. CASE RejectInvalid(v)
  BY <1>1 DEF RejectInvalid
<1>2. CASE Accept(v)
  BY <1>2 DEF Accept
<1>3. CASE Dial(v)
  BY <1>3 DEF Dial
<1>4. CASE DialFails(v)
  BY <1>4 DEF DialFails
<1>5. CASE ReadGreeting(v)
  BY <1>5 DEF ReadGreeting
<1>6. CASE ReadGreetingUnfit(v)
  BY <1>6 DEF ReadGreetingUnfit, Return
<1>7. CASE ReadFails(v)
  BY <1>7 DEF ReadFails, Return
<1>8. CASE EncryptFails(v)
  BY <1>8 DEF EncryptFails, Return
<1>9. CASE SendV1(v)
  BY <1>9 DEF SendV1, CanSend, Return
<1>10. CASE SendV2(v)
  BY <1>10 DEF SendV2, CanSend
<1>11. CASE SendFails(v)
  BY <1>11 DEF SendFails, CanSend, Return
<1>12. CASE ReadResponse(v)
  BY <1>12 DEF ReadResponse, Return
<1>13. CASE Announce(v)
  BY <1>13 DEF Announce
<1>14. CASE AnnounceReturns(v)
  BY <1>14 DEF AnnounceReturns
<1>15. CASE AnnouncePanics(v)
  BY <1>15 DEF AnnouncePanics
<1>16. CASE Count(v)
  BY <1>16 DEF Count
<1>17. CASE Reply(v)
  BY <1>17 DEF Reply
<1>18. CASE PluginGreets(v)
  BY <1>18 DEF PluginGreets
<1>19. CASE PluginCredits(v)
  BY <1>19 DEF PluginCredits
<1>20. CASE PluginRefuses(v)
  BY <1>20 DEF PluginRefuses
<1>21. CASE PluginAnswers(v)
  BY <1>21 DEF PluginAnswers
<1>22. CASE PluginGoes(v)
  BY <1>22 DEF PluginGoes
<1> QED
  BY <1>1, <1>2, <1>3, <1>4, <1>5, <1>6, <1>7, <1>8, <1>9, <1>10, <1>11, <1>12, <1>13, <1>14, <1>15, <1>16, <1>17, <1>18, <1>19, <1>20, <1>21, <1>22
     DEF Step, SendVote, Finish, Plugin

(* Every step takes one vote further and leaves the others where they are.  *)
OnlyGoesOn ==
    /\ [](\A v \in Vote : Stage(v) \in 0..14)
    /\ [][\E v \in Vote : /\ Stage(v)' > Stage(v)
                          /\ \A u \in Vote \ {v} : Stage(u)' = Stage(u)]_vars

(* SendVote of the handler and of the service never go back and never try   *)
(* again (vote.go, votifier.go): fourteen steps of its request and of the   *)
(* plugin end a vote.                                                       *)
THEOREM VotesOnlyGoOn == Spec => OnlyGoesOn
<1>1. IndInv => \A v \in Vote : Stage(v) \in 0..14
  BY StageType DEF IndInv
<1>2. IndInv /\ [Next]_vars =>
        [\E v \in Vote : /\ Stage(v)' > Stage(v)
                         /\ \A u \in Vote \ {v} : Stage(u)' = Stage(u)]_vars
  <2> SUFFICES ASSUME IndInv, Next
               PROVE  \E v \in Vote : /\ Stage(v)' > Stage(v)
                                      /\ \A u \in Vote \ {v} : Stage(u)' = Stage(u)
    OBVIOUS
  <2>1. PICK v \in Vote : Step(v)
    BY DEF Next, Step
  <2>2. Stage(v)' > Stage(v)
    BY <2>1, StageGrows DEF IndInv
  <2>3. ASSUME NEW u \in Vote \ {v} PROVE Stage(u)' = Stage(u)
    <3>1. Same(u)
      BY <2>1, OthersSame DEF IndInv
    <3> QED
      BY <3>1 DEF Same, Stage
  <2> QED
    BY <2>2, <2>3
<1> QED
  BY <1>1, <1>2, VoteInvariant, PTL DEF Spec, OnlyGoesOn

-----------------------------------------------------------------------------
(* Whose turn it is on a connection.                                       *)
RequestReads(v) ==
    \/ pc[v] = "greeting" /\ greeting[v] = None
    \/ pc[v] = "response" /\ response[v] = None

PluginsTurn(v) ==
    \/ plugin[v] = "accepted"
    \/ plugin[v] = "greeted" /\ packet[v] # None
    \/ plugin[v] \in {"credited", "refused"} /\ method[v] = "v2"
    \/ plugin[v] = "gone"

WaitsForPlugin == \A v \in Vote : RequestReads(v) => PluginsTurn(v)

TurnInv(v) ==
    /\ plugin[v] \in {"none", "accepted"} => greeting[v] = None
    /\ greeting[v] = None => plugin[v] \in {"none", "accepted", "gone"}
    /\ pc[v] \in {"send", "response"} => greeting[v] # None
    /\ pc[v] = "response" => packet[v] # None /\ method[v] = "v2"
    /\ plugin[v] = "answered" => response[v] # None

LEMMA TurnStep == ASSUME TypeOK, NEW v \in Vote, VoteInv(v), TurnInv(v), Step(v) PROVE TurnInv(v)'
<1> USE NoneIsNothing DEF TypeOK, VoteInv, ConnectionInv, WireInv, TurnInv,
            requestVars, wireVars, outcomeVars, pluginVars
<1>1. CASE RejectInvalid(v)
  BY <1>1 DEF RejectInvalid
<1>2. CASE Accept(v)
  BY <1>2 DEF Accept
<1>3. CASE Dial(v)
  BY <1>3 DEF Dial
<1>4. CASE DialFails(v)
  BY <1>4 DEF DialFails
<1>5. CASE ReadGreeting(v)
  BY <1>5 DEF ReadGreeting
<1>6. CASE ReadGreetingUnfit(v)
  BY <1>6 DEF ReadGreetingUnfit, Return
<1>7. CASE ReadFails(v)
  BY <1>7 DEF ReadFails, Return
<1>8. CASE EncryptFails(v)
  BY <1>8 DEF EncryptFails, Return
<1>9. CASE SendV1(v)
  BY <1>9 DEF SendV1, CanSend, Return
<1>10. CASE SendV2(v)
  BY <1>10, LengthType DEF SendV2, CanSend
<1>11. CASE SendFails(v)
  BY <1>11 DEF SendFails, CanSend, Return
<1>12. CASE ReadResponse(v)
  BY <1>12 DEF ReadResponse, Return
<1>13. CASE Announce(v)
  BY <1>13 DEF Announce
<1>14. CASE AnnounceReturns(v)
  BY <1>14 DEF AnnounceReturns
<1>15. CASE AnnouncePanics(v)
  BY <1>15 DEF AnnouncePanics
<1>16. CASE Count(v)
  BY <1>16 DEF Count
<1>17. CASE Reply(v)
  BY <1>17 DEF Reply
<1>18. CASE PluginGreets(v)
  BY <1>18 DEF PluginGreets
<1>19. CASE PluginCredits(v)
  BY <1>19 DEF PluginCredits
<1>20. CASE PluginRefuses(v)
  BY <1>20 DEF PluginRefuses
<1>21. CASE PluginAnswers(v)
  BY <1>21 DEF PluginAnswers
<1>22. CASE PluginGoes(v)
  BY <1>22 DEF PluginGoes
<1> QED
  BY <1>1, <1>2, <1>3, <1>4, <1>5, <1>6, <1>7, <1>8, <1>9, <1>10, <1>11, <1>12, <1>13, <1>14, <1>15, <1>16, <1>17, <1>18, <1>19, <1>20, <1>21, <1>22
     DEF Step, SendVote, Finish, Plugin

LEMMA SameTurn ==
    ASSUME NEW v \in Vote, TurnInv(v), Same(v), greeting'[v] = greeting[v] PROVE TurnInv(v)'
  BY DEF Same, TurnInv

LEMMA OthersGreeting ==
    ASSUME TypeOK, NEW v \in Vote, Step(v), NEW u \in Vote \ {v} PROVE greeting'[u] = greeting[u]
<1> USE DEF TypeOK, requestVars, wireVars, outcomeVars, pluginVars
<1>1. CASE RejectInvalid(v)
  BY <1>1 DEF RejectInvalid
<1>2. CASE Accept(v)
  BY <1>2 DEF Accept
<1>3. CASE Dial(v)
  BY <1>3 DEF Dial
<1>4. CASE DialFails(v)
  BY <1>4 DEF DialFails
<1>5. CASE ReadGreeting(v)
  BY <1>5 DEF ReadGreeting
<1>6. CASE ReadGreetingUnfit(v)
  BY <1>6 DEF ReadGreetingUnfit, Return
<1>7. CASE ReadFails(v)
  BY <1>7 DEF ReadFails, Return
<1>8. CASE EncryptFails(v)
  BY <1>8 DEF EncryptFails, Return
<1>9. CASE SendV1(v)
  BY <1>9 DEF SendV1, CanSend, Return
<1>10. CASE SendV2(v)
  BY <1>10 DEF SendV2, CanSend
<1>11. CASE SendFails(v)
  BY <1>11 DEF SendFails, CanSend, Return
<1>12. CASE ReadResponse(v)
  BY <1>12 DEF ReadResponse, Return
<1>13. CASE Announce(v)
  BY <1>13 DEF Announce
<1>14. CASE AnnounceReturns(v)
  BY <1>14 DEF AnnounceReturns
<1>15. CASE AnnouncePanics(v)
  BY <1>15 DEF AnnouncePanics
<1>16. CASE Count(v)
  BY <1>16 DEF Count
<1>17. CASE Reply(v)
  BY <1>17 DEF Reply
<1>18. CASE PluginGreets(v)
  BY <1>18 DEF PluginGreets
<1>19. CASE PluginCredits(v)
  BY <1>19 DEF PluginCredits
<1>20. CASE PluginRefuses(v)
  BY <1>20 DEF PluginRefuses
<1>21. CASE PluginAnswers(v)
  BY <1>21 DEF PluginAnswers
<1>22. CASE PluginGoes(v)
  BY <1>22 DEF PluginGoes
<1> QED
  BY <1>1, <1>2, <1>3, <1>4, <1>5, <1>6, <1>7, <1>8, <1>9, <1>10, <1>11, <1>12, <1>13, <1>14, <1>15, <1>16, <1>17, <1>18, <1>19, <1>20, <1>21, <1>22
     DEF Step, SendVote, Finish, Plugin

(* Request and plugin never wait for one another: while the request reads   *)
(* from the connection (votifier.go:67, 116, 174), the plugin has a line to *)
(* write or has gone.                                                       *)
THEOREM NeverWaitForEachOther == Spec => []WaitsForPlugin
<1> DEFINE Turns == \A v \in Vote : TurnInv(v)
<1>1. Init => Turns
  BY DEF Init, TurnInv
<1>2. IndInv /\ Turns /\ [Next]_vars => Turns'
  <2> SUFFICES ASSUME IndInv, Turns, [Next]_vars, NEW u \in Vote PROVE TurnInv(u)'
    OBVIOUS
  <2>1. CASE Next
    <3>1. PICK v \in Vote : Step(v)
      BY <2>1 DEF Next, Step
    <3>2. CASE u = v
      BY <3>1, <3>2, TurnStep DEF IndInv
    <3>3. CASE u # v
      BY <3>1, <3>3, OthersSame, OthersGreeting, SameTurn DEF IndInv
    <3> QED
      BY <3>2, <3>3
  <2>2. CASE UNCHANGED vars
    BY <2>2 DEF vars, requestVars, wireVars, pluginVars, TurnInv
  <2> QED
    BY <2>1, <2>2
<1>3. IndInv /\ Turns => WaitsForPlugin
  BY DEF IndInv, TypeOK, VoteInv, ConnectionInv, WireInv, TurnInv, WaitsForPlugin,
     RequestReads, PluginsTurn, InService
<1> QED
  BY <1>1, <1>2, <1>3, VoteInvariant, PTL DEF Spec

-----------------------------------------------------------------------------
(* The refinement of VoteVerdict: what the step of one vote is there.       *)
Stages == [u \in Vote |-> StageOf[pc[u]]]
Verdicts == [u \in Vote |-> VerdictOf(u)]
Credited == {u \in Vote : credits[u] > 0}

(* The maps change at the vote that takes the step and nowhere else.        *)
LEMMA OthersMapped ==
  ASSUME TypeOK, NEW v \in Vote, Step(v)
  PROVE  /\ Stages' = [Stages EXCEPT ![v] = StageOf[pc'[v]]]
         /\ Verdicts' = [Verdicts EXCEPT ![v] = VerdictOf(v)']
         /\ VerdictOf(v)' = VerdictOf(v) => Verdicts' = Verdicts
         /\ credits'[v] = credits[v] => Credited' = Credited
         /\ credits'[v] > 0 => Credited' = Credited \cup {v}
<1>1. \A u \in Vote \ {v} : Same(u)
  BY OthersSame
<1>2. \A u \in Vote \ {v} : VerdictOf(u)' = VerdictOf(u)
  BY <1>1 DEF Same, VerdictOf, Undecided
<1>3. \A u \in Vote \ {v} : StageOf[pc[u]]' = StageOf[pc[u]]
  BY <1>1 DEF Same
<1>4. \A u \in Vote \ {v} : credits'[u] = credits[u]
  BY <1>1 DEF Same
<1> QED
  BY <1>2, <1>3, <1>4 DEF Stages, Verdicts, Credited

(* A vote with nothing but a verdict to tell. *)
LEMMA VerdictIs ==
  ASSUME NEW v \in Vote, TypeOK, VoteInv(v)
  PROVE  /\ Undecided(v) => VerdictOf(v) = None
         /\ ~ Undecided(v) => VerdictOf(v) \in {"credited", "sent", "refused", "unknown"}
         /\ VerdictOf(v) \in {"credited", "sent"} <=> ~ Undecided(v) /\ err[v] = None
         /\ VerdictOf(v) = "sent" <=> ~ Undecided(v) /\ err[v] = None /\ method[v] = "v1"
         /\ VerdictOf(v) = "credited" => credits[v] > 0
         /\ VerdictOf(v) = "refused" => credits[v] = 0
  BY NoneIsNothing DEF VerdictOf, Undecided, TypeOK, VoteInv, ConnectionInv, WireInv, OutcomeInv, AfterService, Error

(* Inside the service nothing of it is to be seen. *)
LEMMA Hidden ==
  ASSUME TypeOK, NEW v \in Vote, Step(v), StageOf[pc'[v]] = StageOf[pc[v]],
         VerdictOf(v)' = VerdictOf(v), credits' = credits, UNCHANGED outcomeVars
  PROVE  UNCHANGED VoteVerdict!vars
<1>1. Stages' = Stages /\ Verdicts' = Verdicts /\ Credited' = Credited
  BY OthersMapped DEF Stages, Verdicts
<1> QED
  BY <1>1 DEF VoteVerdict!vars, Stages, Verdicts, Credited, outcomeVars

(* When the service returns, its error is a verdict that is true. *)
LEMMA Decides ==
  ASSUME TypeOK, TypeOK', NEW v \in Vote, VoteInv(v), VoteInv(v)', Step(v),
         StageOf[pc[v]] \in {"idle", "pending"}, pc'[v] = "announce",
         credits' = credits, UNCHANGED outcomeVars
  PROVE  \E d \in VoteVerdict!Verdict : VoteVerdict!Decide(v, d)
<1> DEFINE d == VerdictOf(v)'
<1>1. reply'[v] = None /\ ~ Undecided(v)'
  BY NoneIsNothing DEF VoteInv, ToldInv, Undecided
<1>2. d \in VoteVerdict!Verdict
  BY <1>1 DEF VerdictOf, VoteVerdict!Verdict
<1>3. d = "credited" => credits'[v] > 0
  BY <1>1, NoneIsNothing DEF VerdictOf, TypeOK, VoteInv, OutcomeInv, WireInv, AfterService
<1>4. d = "refused" => credits'[v] = 0
  BY <1>1, NoneIsNothing DEF VerdictOf, TypeOK, VoteInv, OutcomeInv, WireInv, Error
<1>5. /\ Stages' = [Stages EXCEPT ![v] = "decided"]
      /\ Verdicts' = [Verdicts EXCEPT ![v] = d]
      /\ Credited' = Credited
  BY OthersMapped DEF StageOf
<1>6. Stages[v] \in {"idle", "pending"} /\ (d = "credited" => v \in Credited) /\ (d = "refused" => v \notin Credited)
  BY <1>3, <1>4 DEF Stages, Credited
<1>7. VoteVerdict!Decide(v, d)
  BY <1>5, <1>6 DEF VoteVerdict!Decide, VoteVerdict!GoTo, Stages, Verdicts, Credited, outcomeVars
<1> QED
  BY <1>2, <1>7

(* After it, the vote goes from stage to stage and keeps its verdict. *)
LEMMA Keeps ==
  ASSUME TypeOK, NEW v \in Vote, VoteInv(v), Step(v),
         StageOf[pc[v]] \in {"decided", "announcing", "count", "reply"},
         reply'[v] # "invalid", pc'[v] \in AfterService,
         err' = err, method' = method, credits' = credits
  PROVE  /\ Stages' = [Stages EXCEPT ![v] = StageOf[pc'[v]]]
         /\ Verdicts' = Verdicts
         /\ Credited' = Credited
         /\ Stages[v] = StageOf[pc[v]]
         /\ VoteVerdict!Outcome(v) = Outcome(v)
<1>1. pc[v] \in AfterService \ {"replied"} /\ ~ Undecided(v) /\ ~ Undecided(v)'
  BY NoneIsNothing DEF TypeOK, VoteInv, ToldInv, StageOf, AfterService, Undecided
<1>2. VerdictOf(v)' = VerdictOf(v)
  BY <1>1 DEF VerdictOf
<1>3. VerdictOf(v) \in {"credited", "sent"} <=> err[v] = None
  BY <1>1, VerdictIs
<1> QED
  BY <1>2, <1>3, OthersMapped DEF Stages, Verdicts, Outcome, VoteVerdict!Outcome

LEMMA MapsStep ==
  ASSUME TypeOK, TypeOK', NEW v \in Vote, VoteInv(v), VoteInv(v)', Step(v)
  PROVE  VoteVerdict!Next \/ UNCHANGED VoteVerdict!vars
<1> USE DEF requestVars, wireVars, outcomeVars, pluginVars
<1>1. CASE Dial(v)
  <2>1. StageOf[pc'[v]] = StageOf[pc[v]] /\ VerdictOf(v)' = VerdictOf(v)
    BY <1>1 DEF Dial, TypeOK, StageOf, VerdictOf, Undecided
  <2>2. credits' = credits /\ UNCHANGED outcomeVars
    BY <1>1 DEF Dial
  <2> QED
    BY <2>1, <2>2, Hidden
<1>2. CASE ReadGreeting(v)
  <2>1. StageOf[pc'[v]] = StageOf[pc[v]] /\ VerdictOf(v)' = VerdictOf(v)
    BY <1>2 DEF ReadGreeting, TypeOK, StageOf, VerdictOf, Undecided
  <2>2. credits' = credits /\ UNCHANGED outcomeVars
    BY <1>2 DEF ReadGreeting
  <2> QED
    BY <2>1, <2>2, Hidden
<1>3. CASE SendV2(v)
  <2>1. StageOf[pc'[v]] = StageOf[pc[v]] /\ VerdictOf(v)' = VerdictOf(v)
    BY <1>3 DEF SendV2, CanSend, TypeOK, StageOf, VerdictOf, Undecided
  <2>2. credits' = credits /\ UNCHANGED outcomeVars
    BY <1>3 DEF SendV2
  <2> QED
    BY <2>1, <2>2, Hidden
<1>4. CASE PluginGreets(v)
  <2>1. StageOf[pc'[v]] = StageOf[pc[v]] /\ VerdictOf(v)' = VerdictOf(v)
    BY <1>4 DEF PluginGreets, TypeOK, StageOf, VerdictOf, Undecided
  <2>2. credits' = credits /\ UNCHANGED outcomeVars
    BY <1>4 DEF PluginGreets
  <2> QED
    BY <2>1, <2>2, Hidden
<1>5. CASE PluginRefuses(v)
  <2>1. StageOf[pc'[v]] = StageOf[pc[v]] /\ VerdictOf(v)' = VerdictOf(v)
    BY <1>5 DEF PluginRefuses, TypeOK, StageOf, VerdictOf, Undecided
  <2>2. credits' = credits /\ UNCHANGED outcomeVars
    BY <1>5 DEF PluginRefuses
  <2> QED
    BY <2>1, <2>2, Hidden
<1>6. CASE PluginAnswers(v)
  <2>1. StageOf[pc'[v]] = StageOf[pc[v]] /\ VerdictOf(v)' = VerdictOf(v)
    BY <1>6 DEF PluginAnswers, TypeOK, StageOf, VerdictOf, Undecided
  <2>2. credits' = credits /\ UNCHANGED outcomeVars
    BY <1>6 DEF PluginAnswers
  <2> QED
    BY <2>1, <2>2, Hidden
<1>7. CASE PluginGoes(v)
  <2>1. StageOf[pc'[v]] = StageOf[pc[v]] /\ VerdictOf(v)' = VerdictOf(v)
    BY <1>7 DEF PluginGoes, TypeOK, StageOf, VerdictOf, Undecided
  <2>2. credits' = credits /\ UNCHANGED outcomeVars
    BY <1>7 DEF PluginGoes
  <2> QED
    BY <2>1, <2>2, Hidden
<1>8. CASE DialFails(v)
  <2>1. StageOf[pc[v]] \in {"idle", "pending"} /\ pc'[v] = "announce"
    BY <1>8 DEF DialFails, TypeOK, StageOf
  <2>2. credits' = credits /\ UNCHANGED outcomeVars
    BY <1>8 DEF DialFails
  <2> QED
    BY <2>1, <2>2, Decides DEF VoteVerdict!Next
<1>9. CASE ReadGreetingUnfit(v)
  <2>1. StageOf[pc[v]] \in {"idle", "pending"} /\ pc'[v] = "announce"
    BY <1>9 DEF ReadGreetingUnfit, Return, TypeOK, StageOf
  <2>2. credits' = credits /\ UNCHANGED outcomeVars
    BY <1>9 DEF ReadGreetingUnfit
  <2> QED
    BY <2>1, <2>2, Decides DEF VoteVerdict!Next
<1>10. CASE ReadFails(v)
  <2>1. StageOf[pc[v]] \in {"idle", "pending"} /\ pc'[v] = "announce"
    BY <1>10 DEF ReadFails, Return, TypeOK, StageOf
  <2>2. credits' = credits /\ UNCHANGED outcomeVars
    BY <1>10 DEF ReadFails
  <2> QED
    BY <2>1, <2>2, Decides DEF VoteVerdict!Next
<1>11. CASE EncryptFails(v)
  <2>1. StageOf[pc[v]] \in {"idle", "pending"} /\ pc'[v] = "announce"
    BY <1>11 DEF EncryptFails, Return, TypeOK, StageOf
  <2>2. credits' = credits /\ UNCHANGED outcomeVars
    BY <1>11 DEF EncryptFails
  <2> QED
    BY <2>1, <2>2, Decides DEF VoteVerdict!Next
<1>12. CASE SendV1(v)
  <2>1. StageOf[pc[v]] \in {"idle", "pending"} /\ pc'[v] = "announce"
    BY <1>12 DEF SendV1, CanSend, Return, TypeOK, StageOf
  <2>2. credits' = credits /\ UNCHANGED outcomeVars
    BY <1>12 DEF SendV1
  <2> QED
    BY <2>1, <2>2, Decides DEF VoteVerdict!Next
<1>13. CASE SendFails(v)
  <2>1. StageOf[pc[v]] \in {"idle", "pending"} /\ pc'[v] = "announce"
    BY <1>13 DEF SendFails, CanSend, Return, TypeOK, StageOf
  <2>2. credits' = credits /\ UNCHANGED outcomeVars
    BY <1>13 DEF SendFails
  <2> QED
    BY <2>1, <2>2, Decides DEF VoteVerdict!Next
<1>14. CASE ReadResponse(v)
  <2>1. StageOf[pc[v]] \in {"idle", "pending"} /\ pc'[v] = "announce"
    BY <1>14 DEF ReadResponse, Return, TypeOK, StageOf
  <2>2. credits' = credits /\ UNCHANGED outcomeVars
    BY <1>14 DEF ReadResponse
  <2> QED
    BY <2>1, <2>2, Decides DEF VoteVerdict!Next
<1>15. CASE RejectInvalid(v)
  <2>1. VerdictOf(v)' = VerdictOf(v) /\ pc'[v] = "replied"
    BY <1>15 DEF RejectInvalid, TypeOK, VerdictOf, Undecided
  <2>2. Stages' = [Stages EXCEPT ![v] = "replied"] /\ Verdicts' = Verdicts /\ Credited' = Credited
    BY <1>15, <2>1, OthersMapped DEF RejectInvalid, StageOf
  <2>3. VoteVerdict!Reject(v)
    BY <1>15, <2>2 DEF RejectInvalid, VoteVerdict!Reject, VoteVerdict!Answer, VoteVerdict!GoTo,
       Stages, Verdicts, Credited, StageOf
  <2> QED
    BY <2>3 DEF VoteVerdict!Next
<1>16. CASE Accept(v)
  <2>1. pc[v] = "idle" /\ pc'[v] \in {"dial", "announce"} /\ credits' = credits /\ UNCHANGED outcomeVars
    BY <1>16 DEF Accept, TypeOK
  <2>2. CASE pc'[v] = "announce"
    BY <2>1, <2>2, Decides DEF VoteVerdict!Next, StageOf
  <2>3. CASE pc'[v] = "dial"
    <3>1. VerdictOf(v)' = VerdictOf(v)
      BY <2>1, <2>3 DEF VerdictOf, Undecided
    <3>2. Stages' = [Stages EXCEPT ![v] = "pending"] /\ Verdicts' = Verdicts /\ Credited' = Credited
      BY <2>1, <2>3, <3>1, OthersMapped DEF StageOf
    <3>3. VoteVerdict!Submit(v)
      BY <2>1, <3>2 DEF VoteVerdict!Submit, VoteVerdict!GoTo, Stages, Verdicts, Credited, StageOf
    <3> QED
      BY <3>3 DEF VoteVerdict!Next
  <2> QED
    BY <2>1, <2>2, <2>3
<1>17. CASE PluginCredits(v)
  <2>1. StageOf[pc[v]] = "pending" \/ VerdictOf(v) = "sent"
    BY <1>17, NoneIsNothing DEF PluginCredits, TypeOK, VoteInv, ConnectionInv, WireInv, OutcomeInv,
       InService, AfterService, Error, StageOf, VerdictOf, Undecided
  <2>2. VerdictOf(v)' = VerdictOf(v) /\ pc' = pc
    BY <1>17 DEF PluginCredits, VerdictOf, Undecided
  <2>3. credits[v] = 0 /\ credits'[v] = 1
    BY <1>17 DEF PluginCredits, TypeOK, VoteInv, WireInv
  <2>4. Verdicts' = Verdicts /\ Credited' = Credited \cup {v}
    BY <2>2, <2>3, OthersMapped
  <2>5. Stages' = Stages /\ v \notin Credited
    BY <2>2, <2>3 DEF Stages, Credited
  <2>6. VoteVerdict!Credit(v)
    BY <1>17, <2>1, <2>4, <2>5 DEF PluginCredits, VoteVerdict!Credit, Stages, Verdicts, Credited
  <2> QED
    BY <2>6 DEF VoteVerdict!Next
<1>18. CASE Announce(v)
  <2>1. StageOf[pc[v]] = "decided" /\ StageOf[pc'[v]] = "announcing"
    BY <1>18, NoneIsNothing DEF Announce, TypeOK, StageOf, Outcome
  <2>2. /\ Stages' = [Stages EXCEPT ![v] = StageOf[pc'[v]]] /\ Verdicts' = Verdicts
        /\ Credited' = Credited /\ VoteVerdict!Outcome(v) = Outcome(v)
    BY <1>18, <2>1, Keeps, NoneIsNothing DEF Announce, TypeOK, VoteInv, ToldInv, AfterService, Outcome
  <2>3. VoteVerdict!Announce(v)
    BY <1>18, <2>1, <2>2 DEF Announce, VoteVerdict!Announce, VoteVerdict!Answer, VoteVerdict!GoTo,
       Stages, Verdicts, Credited
  <2> QED
    BY <2>3 DEF VoteVerdict!Next
<1>19. CASE AnnounceReturns(v)
  <2>1. StageOf[pc[v]] = "announcing" /\ StageOf[pc'[v]] = (IF Outcome(v) = "ok" THEN "count" ELSE "reply")
    BY <1>19, NoneIsNothing DEF AnnounceReturns, TypeOK, StageOf, Outcome
  <2>2. /\ Stages' = [Stages EXCEPT ![v] = StageOf[pc'[v]]] /\ Verdicts' = Verdicts
        /\ Credited' = Credited /\ VoteVerdict!Outcome(v) = Outcome(v)
    BY <1>19, <2>1, Keeps, NoneIsNothing DEF AnnounceReturns, TypeOK, VoteInv, ToldInv, AfterService, Outcome
  <2>3. VoteVerdict!AnnounceReturns(v)
    BY <1>19, <2>1, <2>2 DEF AnnounceReturns, VoteVerdict!AnnounceReturns, VoteVerdict!Answer, VoteVerdict!GoTo,
       Stages, Verdicts, Credited
  <2> QED
    BY <2>3 DEF VoteVerdict!Next
<1>20. CASE AnnouncePanics(v)
  <2>1. StageOf[pc[v]] = "announcing" /\ StageOf[pc'[v]] = "replied"
    BY <1>20, NoneIsNothing DEF AnnouncePanics, TypeOK, StageOf, Outcome
  <2>2. /\ Stages' = [Stages EXCEPT ![v] = StageOf[pc'[v]]] /\ Verdicts' = Verdicts
        /\ Credited' = Credited /\ VoteVerdict!Outcome(v) = Outcome(v)
    BY <1>20, <2>1, Keeps, NoneIsNothing DEF AnnouncePanics, TypeOK, VoteInv, ToldInv, AfterService, Outcome
  <2>3. VoteVerdict!AnnouncePanics(v)
    BY <1>20, <2>1, <2>2 DEF AnnouncePanics, VoteVerdict!AnnouncePanics, VoteVerdict!Answer, VoteVerdict!GoTo,
       Stages, Verdicts, Credited
  <2> QED
    BY <2>3 DEF VoteVerdict!Next
<1>21. CASE Count(v)
  <2>1. StageOf[pc[v]] = "count" /\ StageOf[pc'[v]] = "reply"
    BY <1>21, NoneIsNothing DEF Count, TypeOK, StageOf, Outcome
  <2>2. /\ Stages' = [Stages EXCEPT ![v] = StageOf[pc'[v]]] /\ Verdicts' = Verdicts
        /\ Credited' = Credited /\ VoteVerdict!Outcome(v) = Outcome(v)
    BY <1>21, <2>1, Keeps, NoneIsNothing DEF Count, TypeOK, VoteInv, ToldInv, AfterService, Outcome
  <2>3. VoteVerdict!Count(v)
    BY <1>21, <2>1, <2>2 DEF Count, VoteVerdict!Count, VoteVerdict!Answer, VoteVerdict!GoTo,
       Stages, Verdicts, Credited
  <2> QED
    BY <2>3 DEF VoteVerdict!Next
<1>22. CASE Reply(v)
  <2>1. StageOf[pc[v]] = "reply" /\ StageOf[pc'[v]] = "replied"
    BY <1>22, NoneIsNothing DEF Reply, TypeOK, StageOf, Outcome
  <2>2. /\ Stages' = [Stages EXCEPT ![v] = StageOf[pc'[v]]] /\ Verdicts' = Verdicts
        /\ Credited' = Credited /\ VoteVerdict!Outcome(v) = Outcome(v)
    BY <1>22, <2>1, Keeps, NoneIsNothing DEF Reply, TypeOK, VoteInv, ToldInv, AfterService, Outcome
  <2>3. VoteVerdict!Reply(v)
    BY <1>22, <2>1, <2>2 DEF Reply, VoteVerdict!Reply, VoteVerdict!Answer, VoteVerdict!GoTo,
       Stages, Verdicts, Credited
  <2> QED
    BY <2>3 DEF VoteVerdict!Next
<1> QED
  BY <1>1, <1>2, <1>3, <1>4, <1>5, <1>6, <1>7, <1>8, <1>9, <1>10, <1>11, <1>12, <1>13, <1>14, <1>15, <1>16, <1>17, <1>18, <1>19, <1>20, <1>21, <1>22
     DEF Step, SendVote, Finish, Plugin

(* POST /api/vote implements VoteVerdict: over either protocol, against any *)
(* plugin, a vote comes to one verdict, which stays true of it, and which   *)
(* is what is announced, counted and replied (vote.go:44-103, votifier.go). *)
THEOREM VotesKeepTheirWord == Spec => VerdictSpec
<1>1. Init => VoteVerdict!Init
  BY DEF Init, VoteVerdict!Init, StageOf, VerdictOf, Undecided
<1>2. IndInv /\ IndInv' /\ [Next]_vars => [VoteVerdict!Next]_(VoteVerdict!vars)
  <2>1. ASSUME IndInv, IndInv', Next PROVE VoteVerdict!Next \/ UNCHANGED VoteVerdict!vars
    <3>1. PICK v \in Vote : Step(v)
      BY <2>1 DEF Next, Step
    <3> QED
      BY <2>1, <3>1, MapsStep DEF IndInv
  <2>2. ASSUME UNCHANGED vars PROVE UNCHANGED VoteVerdict!vars
    BY <2>2 DEF vars, requestVars, wireVars, outcomeVars, pluginVars, VoteVerdict!vars, VerdictOf, Undecided
  <2> QED
    BY <2>1, <2>2
<1> QED
  BY <1>1, <1>2, VoteInvariant, PTL DEF Spec, VerdictSpec, VoteVerdict!Spec
=============================================================================
