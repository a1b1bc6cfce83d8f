-------------------------- MODULE SubmissionProofs --------------------------
(***************************************************************************)
(* Proofs about Submission, for every set of sizes, quotes, results and    *)
(* coins: what had been checked when a transaction left, and that an       *)
(* abandoned transaction cannot land after its successor.                  *)
(*                                                                         *)
(* SentIsVetted rests on the guard's verdict still standing when the       *)
(* transaction leaves: only an answer or a restart changes what the guard  *)
(* knows, and either ends the attempt (PassedGate).  NoLateTwin rests on   *)
(* the choice of coins: what an order pays with is closed under "larger"   *)
(* as long as it can land, so that any two orders that can land share a    *)
(* coin (Payable), and landing spends it for good (Past).                  *)
(* OvershootBounded rests on the guard's figure being the sum of what it   *)
(* was told (Accounts): nothing is sent before the last answer came or     *)
(* was given up, so that one result at most is missing from it.            *)
(***************************************************************************)
EXTENDS Submission, DataLemmas, FiniteSetTheorems, SequenceTheorems, TLAPS

\* An attempt has been counted when it was begun; what is awaited has been sent.
Room == /\ Len(sent) <= MaxSent
        /\ stage \in {"dryrun", "gate", "sign", "send"} => Len(sent) < MaxSent
        /\ stage = "await" => Len(sent) > 0

\* No more can have landed than was sent.
LandedIn(s) == {i \in 1 .. Len(s) : s[i].status = "landed"}

\* A coin is spent by what landed, and by nothing else.
VersionsCount == \A c \in Coin : wallet[c].version <= Cardinality(LandedIn(sent))

TypeInv == TypeOK /\ Room /\ VersionsCount

\* The dry run cleared the floor; from the signature on the guard has agreed, and
\* would agree again.
PassedGate ==
  /\ order # None => order.net >= MinProfit
  /\ stage \in {"sign", "send", "await"} => ShouldSubmit /\ SubmitEnabled

Vetted == PassedGate /\ SentIsVetted

\* An order's coins are as it names them.
Fresh(o) == \A c \in DOMAIN o.coins : o.coins[c] = wallet[c].version

\* Larger coins are taken first.
Closed(cs) == cs # {} /\ \A c \in cs, d \in Coin : Before(d, c) => d \in cs

Payable(o) == Fresh(o) => Closed(DOMAIN o.coins)

\* A version that has passed does not come back.
Past(o) == \A c \in DOMAIN o.coins : o.coins[c] <= wallet[c].version

CoinsInv ==
  /\ order # None => Payable(order) /\ Past(order)
  /\ \A i \in 1 .. Len(sent) :
       Past(sent[i].order) /\ (sent[i].status = "flying" => Payable(sent[i].order))
  /\ NoLateTwin

-----------------------------------------------------------------------------
(* Types and counts *)

\* What Send appends and what Land and Answer change, as facts about a sequence.
LEMMA SentAppend ==
  ASSUME NEW x, sent \in Seq(Sent), sent' = Append(sent, x), x \in Sent
  PROVE  /\ sent' \in Seq(Sent) /\ Len(sent') = Len(sent) + 1
         /\ \A i \in 1 .. Len(sent) : sent'[i] = sent[i]
         /\ sent'[Len(sent) + 1] = x
  BY AppendProperties

\* What has landed is a finite part of what was sent.
LEMMA LandedFinite ==
  ASSUME NEW s \in Seq(Sent)
  PROVE  /\ IsFiniteSet(LandedIn(s)) /\ Cardinality(LandedIn(s)) \in Nat
         /\ Cardinality(LandedIn(s)) <= Len(s) /\ Len(s) \in Nat
<1>1. Len(s) \in Nat
  BY LenProperties
<1>2. IsFiniteSet(1 .. Len(s)) /\ Cardinality(1 .. Len(s)) = Len(s)
  BY <1>1, FS_Interval
<1>3. LandedIn(s) \in SUBSET (1 .. Len(s))
  BY DEF LandedIn
<1> QED
  BY <1>1, <1>2, <1>3, FS_Subset, FS_CardinalityType

\* What is known of the transactions sent.
LEMMA SentTypes ==
  ASSUME TypeOK
  PROVE  /\ DOMAIN sent = 1 .. Len(sent)
         /\ \A i \in 1 .. Len(sent) : sent[i] \in Sent /\ sent[i].order \in Order
<1>1. sent \in Seq(Sent)
  BY DEF TypeOK
<1>2. \A i \in 1 .. Len(sent) : sent[i] \in Sent
  BY <1>1, ElementOfSeq
<1>3. DOMAIN sent = 1 .. Len(sent)
  BY <1>1, LenProperties
<1> QED
  BY <1>2, <1>3 DEF Sent

\* Nothing has been sent at the start.
LEMMA InitTypeInv == Init => TypeInv
<1> SUFFICES ASSUME Init PROVE TypeInv
  OBVIOUS
<1>1. Len(sent) = 0 /\ sent \in Seq(Sent)
  BY EmptySeq DEF Init
<1>2. TypeOK
  <2>1. wallet \in [Coin -> CoinState]
    BY DEF Init, CoinState
  <2>2. (stage \in {"gate", "sign", "send", "await"}) = (order # None)
    BY DEF Init
  <2>3. /\ owned \in Modes /\ stage \in Stage /\ expected = None /\ left \subseteq Sizes
        /\ order = None /\ realized \in Int
    BY DEF Init, Stage
  <2>4. age \in 0 .. MaxQuoteAge + 1 /\ restarts \in 0 .. MaxRestarts
    BY SubmissionAssumption DEF Init, SubmissionAssumption
  <2>5. listedPool \in BOOLEAN
    BY Zenon DEF Init
  <2> QED
    BY <1>1, <2>1, <2>2, <2>3, <2>4, <2>5 DEF TypeOK
<1>3. Room
  BY <1>1, SubmissionAssumption DEF Init, Room, SubmissionAssumption
<1>4. VersionsCount
  <2>1. Cardinality(LandedIn(sent)) \in Nat
    BY <1>1, LandedFinite
  <2> QED
    BY <2>1 DEF Init, VersionsCount
<1> QED
  BY <1>2, <1>3, <1>4 DEF TypeInv

\* Steps of the bot that send nothing: the counts are left as they are.
LEMMA QuietTypeInv ==
  ASSUME TypeInv, UNCHANGED <<sent, wallet>>, TypeOK',
         stage' \in {"gate", "sign", "send"} => stage \in {"dryrun", "gate", "sign", "send"},
         stage' = "dryrun" => Len(sent) < MaxSent,
         stage' # "await"
  PROVE  TypeInv'
<1>1. Room'
  BY DEF TypeInv, Room
<1>2. VersionsCount'
  BY DEF TypeInv, VersionsCount
<1> QED
  BY <1>1, <1>2 DEF TypeInv

\* A candidate starts an attempt.
LEMMA CandidateTypeInv ==
  ASSUME TypeInv, NEW quote \in Quotes, NEW limit \in Limits, NEW listed \in BOOLEAN,
         Candidate(quote, limit, listed)
  PROVE  TypeInv'
<1>1. left' \subseteq Sizes
  BY DEF Candidate
<1>2. TypeOK'
  BY <1>1 DEF Candidate, TypeInv, TypeOK, Stage
<1> QED
  BY <1>2, QuietTypeInv DEF Candidate

\* The versions an order names fit, because nothing lands more often than it is sent.
LEMMA OrderType ==
  ASSUME TypeInv, NEW s \in Sizes, NEW net \in DryNets, NEW cs \in SUBSET Coin
  PROVE  [size |-> s, net |-> net, coins |-> [c \in cs |-> wallet[c].version]] \in Order
<1>1. \A c \in Coin : wallet[c].version \in Nat /\ wallet[c].version <= Cardinality(LandedIn(sent))
  BY DEF TypeInv, TypeOK, VersionsCount, CoinState
<1>2. Cardinality(LandedIn(sent)) <= MaxSent /\ Cardinality(LandedIn(sent)) \in Nat
  <2>1. Cardinality(LandedIn(sent)) <= Len(sent) /\ Cardinality(LandedIn(sent)) \in Nat /\ Len(sent) \in Nat
    BY LandedFinite DEF TypeInv, TypeOK
  <2> QED
    BY <2>1, SubmissionAssumption DEF TypeInv, Room, SubmissionAssumption
<1>3. [c \in cs |-> wallet[c].version] \in [cs -> 0 .. MaxSent]
  BY <1>1, <1>2, SubmissionAssumption DEF SubmissionAssumption
<1> QED
  BY <1>3 DEF Order

\* A dry run that clears leaves an order.
LEMMA DryRunTypeInv ==
  ASSUME TypeInv, NEW s \in Sizes, NEW net \in DryNets \union {None}, DryRun(s, net)
  PROVE  TypeInv'
<1>1. CASE net # None /\ net >= MinProfit
  <2>1. PICK cs \in SUBSET Coin :
          order' = [size |-> s, net |-> net, coins |-> [c \in cs |-> wallet[c].version]]
    BY <1>1 DEF DryRun
  <2>2. order' \in Order /\ order' # None
    BY <1>1, <2>1, OrderType, NoneAssumption
  <2>3. /\ UNCHANGED <<owned, expected, realized, listedPool, wallet, sent, restarts>>
        /\ age' = 0 /\ stage' = "gate" /\ left' = left \ {s}
    BY <1>1 DEF DryRun
  <2>4. TypeOK'
    BY <1>1, <2>2, <2>3, SubmissionAssumption
    DEF TypeInv, TypeOK, Stage, SubmissionAssumption
  <2> QED
    BY <1>1, <2>4, QuietTypeInv DEF DryRun
<1>2. CASE ~(net # None /\ net >= MinProfit)
  <2>1. TypeOK'
    BY <1>2 DEF DryRun, GiveUpSize, TypeInv, TypeOK, Stage
  <2> QED
    BY <1>2, <2>1, QuietTypeInv DEF DryRun, GiveUpSize, TypeInv, Room
<1> QED
  BY <1>1, <1>2

\* The end of an attempt keeps the types.
LEMMA BackToIdleTypeOK ==
  ASSUME TypeOK, BackToIdle, UNCHANGED <<owned, wallet>>,
         realized' \in Int, sent' \in Seq(Sent), restarts' \in 0 .. MaxRestarts
  PROVE  TypeOK'
  BY SubmissionAssumption DEF BackToIdle, TypeOK, Stage, SubmissionAssumption

\* The gate lets the order on or ends the attempt.
LEMMA GateTypeInv ==
  ASSUME TypeInv, RiskGate \/ Elapse \/ Sign \/ RpcError \/ Restart
  PROVE  TypeInv'
<1>1. CASE BackToIdle /\ (RiskGate \/ RpcError \/ Restart)
  <2>1. UNCHANGED <<sent, wallet, owned>> /\ realized' \in Int /\ restarts' \in 0 .. MaxRestarts
    BY <1>1, SubmissionAssumption
    DEF RiskGate, RpcError, Restart, TypeInv, TypeOK, SubmissionAssumption
  <2>2. TypeOK'
    BY <1>1, <2>1, BackToIdleTypeOK DEF TypeInv, TypeOK
  <2> QED
    BY <1>1, <2>1, <2>2, QuietTypeInv DEF BackToIdle
<1>2. CASE ~BackToIdle /\ RiskGate
  <2>1. TypeOK'
    BY <1>2 DEF RiskGate, TypeInv, TypeOK, Stage
  <2> QED
    BY <1>2, <2>1, QuietTypeInv DEF RiskGate
<1>3. CASE Elapse \/ Sign
  <2>1. TypeOK'
    <3>1. age' \in 0 .. MaxQuoteAge + 1 /\ stage' \in Stage
      BY <1>3, SubmissionAssumption
      DEF Elapse, Sign, TypeInv, TypeOK, Stage, SubmissionAssumption
    <3>2. (stage' \in {"gate", "sign", "send", "await"}) = (order' # None)
      BY <1>3 DEF Elapse, Sign, TypeInv, TypeOK
    <3> QED
      BY <1>3, <3>1, <3>2 DEF Elapse, Sign, TypeInv, TypeOK
  <2> QED
    BY <1>3, <2>1, QuietTypeInv DEF Elapse, Sign
<1> QED
  BY <1>1, <1>2, <1>3 DEF RpcError, Restart

\* What is sent is recorded as it stands, still flying.
Departing == [order |-> order, age |-> age, pnl |-> realized, clean |-> ~listedPool,
              status |-> "flying", earned |-> 0, told |-> FALSE]

\* An order whose quote is young is fit to be recorded as sent.
LEMMA DepartingType ==
  ASSUME TypeOK, stage = "send", age <= MaxQuoteAge
  PROVE  Departing \in Sent
<1>1. order \in Order /\ age \in Nat /\ realized \in Int
  BY DEF TypeOK
<1> QED
  BY <1>1 DEF Departing, Sent

\* A submission adds one record, or a quote too old ends the attempt.
LEMMA SendTypeInv ==
  ASSUME TypeInv, Send
  PROVE  TypeInv'
<1>1. CASE age > MaxQuoteAge
  <2>1. BackToIdle /\ UNCHANGED <<sent, realized, wallet, owned, restarts>>
    BY <1>1 DEF Send
  <2>2. TypeOK'
    BY <2>1, BackToIdleTypeOK DEF TypeInv, TypeOK
  <2> QED
    BY <2>1, <2>2, QuietTypeInv DEF BackToIdle
<1>2. CASE ~(age > MaxQuoteAge)
  <2>1. sent' = Append(sent, Departing) /\ stage = "send" /\ stage' = "await" /\ sent \in Seq(Sent)
        /\ UNCHANGED <<expected, left, order, age, listedPool, realized, wallet, owned, restarts>>
    BY <1>2 DEF Send, Departing, TypeInv, TypeOK
  <2>2. age <= MaxQuoteAge
    BY <1>2, SubmissionAssumption DEF TypeInv, TypeOK, SubmissionAssumption
  <2>3. Departing \in Sent
    BY <2>1, <2>2, DepartingType DEF TypeInv
  <2>4. /\ sent' \in Seq(Sent) /\ Len(sent') = Len(sent) + 1 /\ Len(sent) \in Nat
        /\ \A i \in 1 .. Len(sent) : sent'[i] = sent[i]
    BY <2>1, <2>3, SentAppend, LandedFinite
  <2>5. TypeOK'
    BY <2>1, <2>4 DEF TypeInv, TypeOK, Stage
  <2>6. Room'
    BY <2>1, <2>4, SubmissionAssumption DEF TypeInv, Room, SubmissionAssumption
  <2>7. VersionsCount'
    <3>1. LandedIn(sent) \in SUBSET LandedIn(sent')
      BY <2>4, LandedFinite DEF LandedIn
    <3>2. /\ IsFiniteSet(LandedIn(sent')) /\ Cardinality(LandedIn(sent')) \in Nat
          /\ Cardinality(LandedIn(sent)) \in Nat
      BY <2>1, <2>4, LandedFinite
    <3>3. Cardinality(LandedIn(sent)) <= Cardinality(LandedIn(sent'))
      BY <3>1, <3>2, FS_Subset
    <3> QED
      BY <2>1, <3>2, <3>3 DEF TypeInv, TypeOK, CoinState, VersionsCount
  <2> QED
    BY <2>5, <2>6, <2>7 DEF TypeInv
<1> QED
  BY <1>1, <1>2

\* What a change of one record of sent keeps.
LEMMA SentChange ==
  ASSUME sent \in Seq(Sent), NEW i \in 1 .. Len(sent), NEW x \in Sent,
         sent' = [sent EXCEPT ![i] = x]
  PROVE  /\ sent' \in Seq(Sent) /\ Len(sent') = Len(sent)
         /\ sent'[i] = x /\ \A j \in 1 .. Len(sent) : j # i => sent'[j] = sent[j]
  BY ExceptSeq

\* A transaction lands: one more has landed, and no coin moves on by more than one.
LEMMA LandTypeInv ==
  ASSUME TypeInv, NEW i \in 1 .. Len(sent), NEW r \in Results, NEW after \in [Coin -> Balances],
         Land(i, r, after)
  PROVE  TypeInv'
<1> DEFINE x == [sent[i] EXCEPT !.status = "landed", !.earned = r.base - r.gas]
<1>1. sent[i] \in Sent /\ sent[i].status = "flying" /\ sent \in Seq(Sent)
  BY ElementOfSeq DEF TypeInv, TypeOK, Land, Landable
<1>2. x \in Sent
  <2>1. r.base - r.gas \in Int
    BY SubmissionAssumption DEF SubmissionAssumption
  <2> QED
    BY <1>1, <2>1 DEF Sent
<1>3. sent' = [sent EXCEPT ![i] = x]
  BY DEF Land
<1> HIDE DEF x
<1>4. /\ sent' \in Seq(Sent) /\ Len(sent') = Len(sent)
      /\ sent'[i] = x /\ \A j \in 1 .. Len(sent) : j # i => sent'[j] = sent[j]
  BY <1>1, <1>2, <1>3, SentChange
<1>5. x.status = "landed"
  BY <1>1 DEF x, Sent
<1>6. LandedIn(sent') = LandedIn(sent) \union {i} /\ i \notin LandedIn(sent)
  BY <1>1, <1>4, <1>5 DEF LandedIn
<1>7. /\ Cardinality(LandedIn(sent')) = Cardinality(LandedIn(sent)) + 1
      /\ Cardinality(LandedIn(sent)) \in Nat
  BY <1>1, <1>6, LandedFinite, FS_AddElement
<1>8. /\ wallet' \in [Coin -> CoinState]
      /\ \A c \in Coin : wallet'[c].version <= wallet[c].version + 1
  <2> DEFINE w(c) == [version |-> wallet[c].version
                                  + (IF c \in DOMAIN sent[i].order.coins THEN 1 ELSE 0),
                      balance |-> after[c]]
  <2>1. wallet' = [c \in Coin |-> w(c)]
    BY DEF Land
  <2>2. ASSUME NEW c \in Coin PROVE w(c) \in CoinState /\ w(c).version <= wallet[c].version + 1
    BY DEF TypeInv, TypeOK, CoinState
  <2> HIDE DEF w
  <2> QED
    BY <2>1, <2>2
<1>9. TypeOK'
  BY <1>4, <1>8 DEF Land, bot, TypeInv, TypeOK
<1>10. Room'
  BY <1>4 DEF Land, bot, TypeInv, Room
<1>11. VersionsCount'
  <2> SUFFICES ASSUME NEW c \in Coin
               PROVE  wallet'[c].version <= Cardinality(LandedIn(sent'))
    BY DEF VersionsCount
  <2>1. wallet[c].version \in Nat /\ wallet'[c].version \in Nat
        /\ wallet[c].version <= Cardinality(LandedIn(sent))
    BY <1>8 DEF TypeInv, TypeOK, CoinState, VersionsCount
  <2> QED
    BY <1>7, <1>8, <2>1
<1> QED
  BY <1>9, <1>10, <1>11 DEF TypeInv

\* An answer ends the attempt.
LEMMA AnswerTypeInv ==
  ASSUME TypeInv, NEW r \in Results, Answer(r)
  PROVE  TypeInv'
<1> DEFINE i == Len(sent)
           x == [sent[i] EXCEPT !.told = TRUE]
<1>1. sent \in Seq(Sent) /\ i \in Nat
  BY LenProperties DEF TypeInv, TypeOK
<1>2. CASE UNCHANGED <<realized, sent>>
  <2>1. TypeOK'
    BY <1>2, BackToIdleTypeOK DEF Answer, TypeInv, TypeOK
  <2> QED
    BY <1>2, <2>1, QuietTypeInv DEF Answer, BackToIdle
<1>3. CASE ~UNCHANGED <<realized, sent>>
  <2>1. realized' = realized + r.base - (IF BaseIsSui THEN r.gas ELSE 0)
        /\ sent' = [sent EXCEPT ![i] = x] /\ BackToIdle /\ UNCHANGED <<wallet, owned, restarts>>
    BY <1>3 DEF Answer
  <2>2. realized' \in Int
    BY <2>1, SubmissionAssumption DEF SubmissionAssumption, TypeInv, TypeOK
  <2>3. i \in 1 .. Len(sent)
    BY <1>1 DEF Answer, TypeInv, Room
  <2>4. sent[i] \in Sent /\ x \in Sent /\ x.status = sent[i].status
    <3>1. sent[i] \in Sent
      BY <1>1, <2>3, ElementOfSeq
    <3>2. x.status = sent[i].status
      BY <3>1 DEF Sent
    <3>3. x \in Sent
      BY <3>1, Zenon DEF Sent
    <3> QED
      BY <3>1, <3>2, <3>3
  <2> HIDE DEF x
  <2>5. /\ sent' \in Seq(Sent) /\ Len(sent') = Len(sent)
        /\ sent'[i] = x /\ \A j \in 1 .. Len(sent) : j # i => sent'[j] = sent[j]
    BY <1>1, <2>1, <2>3, <2>4, SentChange
  <2>6. TypeOK'
    BY <2>1, <2>2, <2>5, BackToIdleTypeOK DEF TypeInv, TypeOK
  <2>7. Room'
    BY <2>1, <2>5 DEF BackToIdle, TypeInv, Room
  <2>8. VersionsCount'
    <3>1. LandedIn(sent') = LandedIn(sent)
      BY <2>4, <2>5 DEF LandedIn
    <3> QED
      BY <2>1, <3>1 DEF TypeInv, VersionsCount
  <2> QED
    BY <2>6, <2>7, <2>8 DEF TypeInv
<1> QED
  BY <1>2, <1>3

\* The type invariant survives every step.
LEMMA NextTypeInv == TypeInv /\ [Next]_vars => TypeInv'
<1> SUFFICES ASSUME TypeInv, [Next]_vars PROVE TypeInv'
  OBVIOUS
<1>1. ASSUME NEW quote \in Quotes, NEW limit \in Limits, NEW listed \in BOOLEAN,
             Candidate(quote, limit, listed)
      PROVE  TypeInv'
  BY <1>1, CandidateTypeInv
<1>2. ASSUME NEW s \in Sizes, NEW net \in DryNets \union {None}, DryRun(s, net)
      PROVE  TypeInv'
  BY <1>2, DryRunTypeInv
<1>3. CASE RiskGate \/ Elapse \/ Sign \/ RpcError \/ Restart
  BY <1>3, GateTypeInv
<1>4. CASE Send
  BY <1>4, SendTypeInv
<1>5. ASSUME NEW r \in Results, Answer(r) PROVE TypeInv'
  BY <1>5, AnswerTypeInv
<1>6. ASSUME NEW i \in 1 .. Len(sent), NEW r \in Results, NEW after \in [Coin -> Balances],
             Land(i, r, after)
      PROVE  TypeInv'
  BY <1>6, LandTypeInv
<1>7. CASE UNCHANGED vars
  BY <1>7 DEF vars, bot, TypeInv, TypeOK, Room, VersionsCount
<1> QED
  BY <1>1, <1>2, <1>3, <1>4, <1>5, <1>6, <1>7 DEF Next, Attempt

-----------------------------------------------------------------------------
(* What had been checked when a transaction left *)

\* What a record of sent says of the moment it was sent.
SameDeparture(x, y) ==
  x.order = y.order /\ x.age = y.age /\ x.pnl = y.pnl /\ x.clean = y.clean

SentKept == /\ Len(sent') = Len(sent)
            /\ \A i \in 1 .. Len(sent) : SameDeparture(sent'[i], sent[i])

\* No record is rewritten in these: a landing and an answer write elsewhere in it.
LEMMA LandKeepsDepartures ==
  ASSUME TypeInv, NEW i \in 1 .. Len(sent), NEW r \in Results, NEW after \in [Coin -> Balances],
         Land(i, r, after)
  PROVE  SentKept
<1>1. sent \in Seq(Sent) /\ sent[i] \in Sent
  BY ElementOfSeq DEF TypeInv, TypeOK
<1>2. DOMAIN sent = 1 .. Len(sent)
  BY <1>1, LenProperties
<1>3. sent' = [sent EXCEPT ![i].status = "landed", ![i].earned = r.base - r.gas]
  BY DEF Land
<1>4. DOMAIN sent' = DOMAIN sent /\ Len(sent') = Len(sent)
  <2>1. [sent[i] EXCEPT !.status = "landed", !.earned = r.base - r.gas] \in Sent
    <3>1. r.base - r.gas \in Int
      BY SubmissionAssumption DEF SubmissionAssumption
    <3> QED
      BY <1>1, <3>1 DEF Sent
  <2> QED
    BY <1>1, <1>3, <2>1, SentChange, LenProperties
<1>5. ASSUME NEW j \in 1 .. Len(sent) PROVE SameDeparture(sent'[j], sent[j])
  <2>1. CASE j = i
    BY <1>1, <1>2, <1>3, <2>1 DEF Sent, SameDeparture
  <2>2. CASE j # i
    BY <1>2, <1>3, <2>2 DEF SameDeparture
  <2> QED
    BY <2>1, <2>2
<1> QED
  BY <1>4, <1>5 DEF SentKept

\* An answer changes what became of a transaction, not what it rested on.
LEMMA AnswerKeepsDepartures ==
  ASSUME TypeInv, NEW r \in Results, Answer(r)
  PROVE  SentKept
<1> DEFINE n == Len(sent)
<1>1. sent \in Seq(Sent) /\ n \in Nat /\ n \in 1 .. Len(sent)
  BY LenProperties DEF TypeInv, TypeOK, Room, Answer
<1>2. sent[n] \in Sent /\ DOMAIN sent = 1 .. Len(sent)
  BY <1>1, ElementOfSeq, LenProperties
<1>3. CASE UNCHANGED sent
  BY <1>3 DEF SentKept, SameDeparture
<1>4. CASE sent' = [sent EXCEPT ![n].told = TRUE]
  <2>1. [sent[n] EXCEPT !.told = TRUE] \in Sent
    BY <1>2, Zenon DEF Sent
  <2>2. Len(sent') = Len(sent)
    BY <1>1, <1>4, <2>1, SentChange
  <2>3. ASSUME NEW j \in 1 .. Len(sent) PROVE SameDeparture(sent'[j], sent[j])
    <3>1. CASE j = n
      BY <1>2, <1>4, <3>1 DEF Sent, SameDeparture
    <3>2. CASE j # n
      BY <1>2, <1>4, <3>2 DEF SameDeparture
    <3> QED
      BY <3>1, <3>2
  <2> QED
    BY <2>2, <2>3 DEF SentKept
<1> QED
  BY <1>3, <1>4 DEF Answer

\* What had been checked at departure stays so.
LEMMA KeptVetted ==
  ASSUME SentIsVetted, SentKept
  PROVE  SentIsVetted'
  BY DEF SentIsVetted, SentKept, SameDeparture

\* Ending an attempt leaves nothing to be checked.
LEMMA BackToIdleVetted ==
  ASSUME Vetted, BackToIdle, SentKept
  PROVE  Vetted'
<1>1. PassedGate'
  BY DEF BackToIdle, PassedGate
<1> QED
  BY <1>1, KeptVetted DEF Vetted

\* What is recorded as sent has the standing verdict of the guard.
LEMMA SendVetted ==
  ASSUME TypeInv, Vetted, Send
  PROVE  Vetted'
<1>1. CASE age > MaxQuoteAge
  BY <1>1, BackToIdleVetted DEF Send, SentKept, SameDeparture
<1>2. CASE ~(age > MaxQuoteAge)
  <2>1. sent' = Append(sent, Departing) /\ stage = "send" /\ stage' = "await" /\ sent \in Seq(Sent)
        /\ UNCHANGED <<expected, left, order, age, listedPool, realized, wallet, owned, restarts>>
    BY <1>2 DEF Send, Departing, TypeInv, TypeOK
  <2>2. age <= MaxQuoteAge /\ order \in Order /\ order # None /\ realized \in Int
    BY <1>2, <2>1, SubmissionAssumption, NoneAssumption
    DEF TypeInv, TypeOK, SubmissionAssumption
  <2>3. /\ Len(sent') = Len(sent) + 1 /\ Len(sent) \in Nat
        /\ \A i \in 1 .. Len(sent) : sent'[i] = sent[i]
        /\ sent'[Len(sent) + 1] = Departing
    BY <2>1, <2>2, DepartingType, SentAppend, LandedFinite DEF TypeInv
  <2>4. ShouldSubmit /\ SubmitEnabled /\ order.net >= MinProfit
    BY <2>1, <2>2 DEF Vetted, PassedGate
  <2>5. /\ Departing.order.net >= MinProfit /\ Departing.order.net > 0
        /\ Departing.age <= MaxQuoteAge
        /\ MaxDailyLoss > 0 => Departing.pnl > -MaxDailyLoss
    BY <2>2, <2>4, SubmissionAssumption DEF Departing, ShouldSubmit, SubmissionAssumption
  <2>6. Departing.clean /\ ~KillSwitch /\ SubmitEnabled
    BY <2>4 DEF Departing, ShouldSubmit
  <2>7. SentIsVetted'
    BY <2>3, <2>5, <2>6 DEF Vetted, SentIsVetted
  <2>8. PassedGate'
    BY <2>1, <2>4 DEF PassedGate, ShouldSubmit
  <2> QED
    BY <2>7, <2>8 DEF Vetted
<1> QED
  BY <1>1, <1>2

\* The vetting survives every step.
LEMMA NextVetted == TypeInv /\ Vetted /\ [Next]_vars => Vetted'
<1> SUFFICES ASSUME TypeInv, Vetted, [Next]_vars PROVE Vetted'
  OBVIOUS
<1> USE DEF Vetted
<1>1. ASSUME NEW quote \in Quotes, NEW limit \in Limits, NEW listed \in BOOLEAN,
             Candidate(quote, limit, listed)
      PROVE  Vetted'
  BY <1>1 DEF Candidate, PassedGate, SentIsVetted
<1>2. ASSUME NEW s \in Sizes, NEW net \in DryNets \union {None}, DryRun(s, net)
      PROVE  Vetted'
  <2>1. SentIsVetted'
    BY <1>2 DEF DryRun, SentIsVetted
  <2>2. stage' \notin {"sign", "send", "await"}
    BY <1>2 DEF DryRun, GiveUpSize
  <2>3. order' # None => order'.net >= MinProfit
    BY <1>2 DEF DryRun, GiveUpSize, PassedGate
  <2> QED
    BY <2>1, <2>2, <2>3 DEF PassedGate
<1>3. CASE BackToIdle /\ (RiskGate \/ RpcError \/ Restart)
  BY <1>3, BackToIdleVetted DEF RiskGate, RpcError, Restart, SentKept, SameDeparture
<1>4. CASE ~BackToIdle /\ RiskGate
  BY <1>4 DEF RiskGate, PassedGate, SentIsVetted, ShouldSubmit
<1>5. CASE Elapse \/ Sign
  BY <1>5 DEF Elapse, Sign, PassedGate, SentIsVetted, ShouldSubmit
<1>6. CASE Send
  BY <1>6, SendVetted
<1>7. ASSUME NEW r \in Results, Answer(r) PROVE Vetted'
  BY <1>7, AnswerKeepsDepartures, BackToIdleVetted DEF Answer
<1>8. ASSUME NEW i \in 1 .. Len(sent), NEW r \in Results, NEW after \in [Coin -> Balances],
             Land(i, r, after)
      PROVE  Vetted'
  BY <1>8, LandKeepsDepartures, KeptVetted DEF Land, bot, PassedGate, ShouldSubmit
<1>9. CASE UNCHANGED vars
  BY <1>9 DEF vars, bot, PassedGate, SentIsVetted, ShouldSubmit
<1> QED
  BY <1>1, <1>2, <1>3, <1>4, <1>5, <1>6, <1>7, <1>8, <1>9
  DEF Next, Attempt, RpcError, Restart

-----------------------------------------------------------------------------
(* The coins an order pays with *)

\* "Larger" is a strict total order on the coins, whatever breaks the ties.
LEMMA BeforeIsOrder ==
  ASSUME TypeOK, NEW b \in Coin, NEW c \in Coin, NEW d \in Coin
  PROVE  /\ Before(b, c) /\ Before(c, d) => Before(b, d)
         /\ b = c \/ Before(b, c) \/ Before(c, b)
<1>1. b \in Nat /\ c \in Nat /\ d \in Nat
  BY SubmissionAssumption DEF SubmissionAssumption
<1>2. /\ wallet[b].balance \in Nat /\ wallet[c].balance \in Nat
      /\ wallet[d].balance \in Nat
  BY SubmissionAssumption DEF SubmissionAssumption, TypeOK, CoinState
<1> QED
  BY <1>1, <1>2 DEF Before

\* pick_gas_coin and pick_gas_coins_covering leave out no coin larger than one taken.
LEMMA GasCoinsClosed ==
  ASSUME TypeOK, NEW cs \in SUBSET Coin, NEW s \in Sizes, GasCoins(cs, s)
  PROVE  Closed(cs)
<1>1. PICK c \in Coin : cs = Prefix(c)
  BY DEF GasCoins
<1>2. ASSUME NEW e \in cs, NEW d \in Coin, Before(d, e) PROVE d \in cs
  <2>1. e \in Coin /\ (e = c \/ Before(e, c))
    BY <1>1 DEF Prefix
  <2>2. Before(d, c)
    BY <1>2, <2>1, BeforeIsOrder
  <2> QED
    BY <1>1, <2>2 DEF Prefix
<1>3. c \in cs
  BY <1>1 DEF Prefix
<1> QED
  BY <1>2, <1>3 DEF Closed

\* So two such choices made of one wallet always share a coin.
LEMMA ClosedMeet ==
  ASSUME TypeOK, NEW A \in SUBSET Coin, NEW B \in SUBSET Coin, Closed(A), Closed(B)
  PROVE  \E c \in A : c \in B
<1>1. PICK a \in A, b \in B : TRUE
  BY DEF Closed
<1>2. a = b \/ Before(a, b) \/ Before(b, a)
  BY BeforeIsOrder
<1> QED
  BY <1>1, <1>2 DEF Closed

\* The coins of what was ordered or sent are coins, at versions that are numbers.
LEMMA OrderCoins ==
  ASSUME NEW o \in Order
  PROVE  /\ DOMAIN o.coins \in SUBSET Coin
         /\ \A c \in DOMAIN o.coins : o.coins[c] \in Nat
<1>1. PICK cs \in SUBSET Coin : o.coins \in [cs -> 0 .. MaxSent]
  BY DEF Order
<1> QED
  BY <1>1

\* Steps that leave the wallet alone and send nothing.
LEMMA QuietCoins ==
  ASSUME TypeInv, CoinsInv, UNCHANGED <<owned, wallet>>, SentKept,
         \A i \in 1 .. Len(sent) : sent'[i].status = sent[i].status,
         order' \in {order, None}
  PROVE  CoinsInv'
<1>1. order' # None => Payable(order)' /\ Past(order)'
  BY DEF CoinsInv, Payable, Past, Fresh, Closed, Before
<1>2. ASSUME NEW i \in 1 .. Len(sent')
      PROVE  /\ Past(sent[i].order)' /\ (sent'[i].status = "flying" => Payable(sent[i].order)')
             /\ Landable(i)' = Landable(i)
  BY <1>2 DEF CoinsInv, SentKept, SameDeparture, Payable, Past, Fresh, Closed, Before, Landable
<1> QED
  BY <1>1, <1>2 DEF CoinsInv, NoLateTwin, SentKept

\* A dry run picks the largest coins, as they are.
LEMMA DryRunCoins ==
  ASSUME TypeInv, CoinsInv, NEW s \in Sizes, NEW net \in DryNets \union {None}, DryRun(s, net)
  PROVE  CoinsInv'
<1>1. CASE net # None /\ net >= MinProfit
  <2>1. PICK cs \in SUBSET Coin :
          /\ GasCoins(cs, s)
          /\ order' = [size |-> s, net |-> net, coins |-> [c \in cs |-> wallet[c].version]]
    BY <1>1 DEF DryRun
  <2>2. Closed(cs) /\ UNCHANGED <<owned, wallet, sent>>
    BY <2>1, GasCoinsClosed DEF TypeInv, DryRun
  <2>3. DOMAIN order'.coins = cs /\ \A c \in cs : order'.coins[c] = wallet[c].version
    BY <2>1
  <2>4. \A c \in cs : wallet[c].version \in Nat
    BY DEF TypeInv, TypeOK, CoinState
  <2>5. Payable(order)' /\ Past(order)'
    BY <2>2, <2>3, <2>4 DEF Payable, Past, Closed, Before
  <2>6. ASSUME NEW i \in 1 .. Len(sent)
        PROVE  /\ Past(sent[i].order)' /\ (sent[i].status = "flying" => Payable(sent[i].order)')
               /\ Landable(i)' = Landable(i)
    BY <2>2, <2>6 DEF CoinsInv, Payable, Past, Fresh, Closed, Before, Landable
  <2> QED
    BY <2>2, <2>5, <2>6 DEF CoinsInv, NoLateTwin
<1>2. CASE ~(net # None /\ net >= MinProfit)
  BY <1>2, QuietCoins DEF DryRun, GiveUpSize, SentKept, SameDeparture
<1> QED
  BY <1>1, <1>2

\* A new transaction pays with the largest coins: it shares one with all that can land.
LEMMA SendCoins ==
  ASSUME TypeInv, CoinsInv, Send
  PROVE  CoinsInv'
<1>1. CASE age > MaxQuoteAge
  BY <1>1, QuietCoins DEF Send, BackToIdle, SentKept, SameDeparture
<1>2. CASE ~(age > MaxQuoteAge)
  <2> DEFINE n == Len(sent)
  <2>1. sent' = Append(sent, Departing) /\ stage = "send" /\ sent \in Seq(Sent)
        /\ UNCHANGED <<order, wallet, owned>>
    BY <1>2 DEF Send, Departing, TypeInv, TypeOK
  <2>2. age <= MaxQuoteAge /\ order # None
    BY <1>2, <2>1, SubmissionAssumption DEF TypeInv, TypeOK, SubmissionAssumption
  <2>3. /\ Len(sent') = n + 1 /\ n \in Nat
        /\ \A i \in 1 .. n : sent'[i] = sent[i]
        /\ sent'[n + 1] = Departing
    BY <2>1, <2>2, DepartingType, SentAppend, LandedFinite DEF TypeInv
  <2>4. Payable(order)' /\ Past(order)'
    BY <2>1, <2>2 DEF CoinsInv, Payable, Past, Fresh, Closed, Before
  <2>5. ASSUME NEW i \in 1 .. n
        PROVE  /\ Past(sent[i].order)' /\ (sent[i].status = "flying" => Payable(sent[i].order)')
               /\ Landable(i)' = Landable(i)
    BY <2>1, <2>3, <2>5 DEF CoinsInv, Payable, Past, Fresh, Closed, Before, Landable
  <2>6. sent'[n + 1].order = order /\ sent'[n + 1].status = "flying"
    BY <2>3 DEF Departing
  <2>7. ASSUME NEW i \in 1 .. Len(sent')
        PROVE  Past(sent[i].order)' /\ (sent'[i].status = "flying" => Payable(sent[i].order)')
    <3>1. CASE i \in 1 .. n
      BY <2>1, <2>3, <2>5, <3>1 DEF Payable, Past, Fresh, Closed, Before
    <3>2. CASE i = n + 1
      BY <2>1, <2>4, <2>6, <3>2 DEF Payable, Past, Fresh, Closed, Before
    <3> QED
      BY <2>3, <3>1, <3>2
  <2>8. NoLateTwin'
    <3> SUFFICES ASSUME NEW i \in 1 .. n + 1, NEW j \in 1 .. n + 1,
                        i < j, sent'[j].status = "landed"
                 PROVE  ~Landable(i)'
      BY <2>3 DEF NoLateTwin
    <3>1. j \in 1 .. n /\ i \in 1 .. n
      BY <2>3, <2>6
    <3> QED
      BY <2>3, <2>5, <3>1 DEF CoinsInv, NoLateTwin
  <2> QED
    BY <2>1, <2>2, <2>4, <2>7, <2>8 DEF CoinsInv
<1> QED
  BY <1>1, <1>2

\* Once a transaction lands, nothing that was ordered before it can: either it could
\* not before, or it pays with a coin that was just spent.
LEMMA LandSpends ==
  ASSUME TypeInv, CoinsInv,
         NEW i \in 1 .. Len(sent), NEW r \in Results, NEW after \in [Coin -> Balances],
         Land(i, r, after), NEW o \in Order, Payable(o), Past(o)
  PROVE  Past(o)' /\ ~Fresh(o)'
<1> DEFINE used == DOMAIN sent[i].order.coins
<1>1. sent[i] \in Sent /\ sent[i].order \in Order
  BY SentTypes DEF TypeInv
<1>2. used \in SUBSET Coin /\ DOMAIN o.coins \in SUBSET Coin
  BY <1>1, OrderCoins
<1>3. \A c \in Coin : /\ wallet[c].version \in Nat
                      /\ wallet'[c].version = wallet[c].version + (IF c \in used THEN 1 ELSE 0)
  BY DEF Land, TypeInv, TypeOK, CoinState
<1>4. \A c \in DOMAIN o.coins : o.coins[c] \in Nat /\ o.coins[c] <= wallet[c].version
  BY OrderCoins DEF Past
<1>5. Fresh(sent[i].order) /\ Closed(used)
  BY <1>1 DEF Land, Landable, Fresh, CoinsInv, Payable
<1>6. Past(o)'
  BY <1>2, <1>3, <1>4 DEF Past
<1>7. ~Fresh(o)'
  <2>1. CASE Fresh(o)
    <3>1. PICK c \in used : c \in DOMAIN o.coins
      BY <1>2, <1>5, <2>1, ClosedMeet DEF Payable, TypeInv
    <3>2. o.coins[c] = wallet[c].version /\ wallet'[c].version = wallet[c].version + 1
      BY <1>2, <1>3, <2>1, <3>1 DEF Fresh
    <3> QED
      BY <1>2, <1>3, <3>1, <3>2 DEF Fresh
  <2>2. CASE ~Fresh(o)
    <3>1. PICK c \in DOMAIN o.coins : o.coins[c] # wallet[c].version
      BY <2>2 DEF Fresh
    <3>2. o.coins[c] < wallet[c].version /\ wallet'[c].version >= wallet[c].version
      BY <1>2, <1>3, <1>4, <3>1
    <3> QED
      BY <1>2, <1>3, <1>4, <3>1, <3>2 DEF Fresh
  <2> QED
    BY <2>1, <2>2
<1> QED
  BY <1>6, <1>7

\* What lands spends its coins, so that what shares one with it cannot land any more.
LEMMA LandCoins ==
  ASSUME TypeInv, CoinsInv,
         NEW i \in 1 .. Len(sent), NEW r \in Results, NEW after \in [Coin -> Balances],
         Land(i, r, after)
  PROVE  CoinsInv'
<1>1. SentKept
  BY LandKeepsDepartures
<1>2. /\ \A j \in 1 .. Len(sent) : sent[j] \in Sent /\ sent[j].order \in Order
      /\ DOMAIN sent = 1 .. Len(sent)
  BY SentTypes DEF TypeInv
<1>3. /\ sent'[i].status = "landed"
      /\ \A j \in 1 .. Len(sent) : j # i => sent'[j] = sent[j]
  BY <1>2 DEF Land, Sent
<1>4. ASSUME NEW j \in 1 .. Len(sent)
      PROVE  /\ Past(sent[j].order)' /\ ~Landable(j)'
             /\ sent'[j].status = "flying" => Payable(sent[j].order)'
  <2>1. CASE sent'[j].status = "flying"
    <3>1. j # i /\ sent[j].status = "flying"
      BY <1>3, <2>1
    <3>2. Payable(sent[j].order) /\ Past(sent[j].order)
      BY <3>1 DEF CoinsInv
    <3>3. \A o \in Order : Payable(o) /\ Past(o) => Past(o)' /\ ~Fresh(o)'
      BY LandSpends
    <3>4. sent'[j].order = sent[j].order
      BY <1>1 DEF SentKept, SameDeparture
    <3> QED
      BY <1>2, <3>2, <3>3, <3>4 DEF Past, Fresh, Payable, Landable
  <2>2. CASE sent'[j].status # "flying"
    <3>1. sent'[j].order = sent[j].order /\ Past(sent[j].order) /\ sent[j].order \in Order
      BY <1>1, <1>2 DEF SentKept, SameDeparture, CoinsInv
    <3>2. DOMAIN sent[j].order.coins \in SUBSET Coin
          /\ \A c \in DOMAIN sent[j].order.coins : sent[j].order.coins[c] \in Nat
      BY <3>1, OrderCoins
    <3>3. \A c \in Coin : /\ wallet[c].version \in Nat /\ wallet'[c].version \in Nat
                          /\ wallet'[c].version >= wallet[c].version
      BY DEF Land, TypeInv, TypeOK, CoinState
    <3> QED
      BY <2>2, <3>1, <3>2, <3>3 DEF Past, Landable
  <2> QED
    BY <2>1, <2>2
<1>5. order' # None => Payable(order)' /\ Past(order)'
  <2> SUFFICES ASSUME order # None PROVE Payable(order)' /\ Past(order)'
    BY DEF Land, bot
  <2>1. order \in Order /\ Payable(order) /\ Past(order) /\ order' = order
    BY DEF TypeInv, TypeOK, CoinsInv, Land, bot
  <2>2. \A o \in Order : Payable(o) /\ Past(o) => Past(o)' /\ ~Fresh(o)'
    BY LandSpends
  <2> QED
    BY <2>1, <2>2 DEF Past, Fresh, Payable
<1> QED
  BY <1>1, <1>4, <1>5 DEF CoinsInv, NoLateTwin, SentKept

\* The coins' invariant survives every step.
LEMMA NextCoins == TypeInv /\ CoinsInv /\ [Next]_vars => CoinsInv'
<1> SUFFICES ASSUME TypeInv, CoinsInv, [Next]_vars PROVE CoinsInv'
  OBVIOUS
<1> USE DEF SentKept, SameDeparture
<1>1. ASSUME NEW quote \in Quotes, NEW limit \in Limits, NEW listed \in BOOLEAN,
             Candidate(quote, limit, listed)
      PROVE  CoinsInv'
  BY <1>1, QuietCoins DEF Candidate
<1>2. ASSUME NEW s \in Sizes, NEW net \in DryNets \union {None}, DryRun(s, net)
      PROVE  CoinsInv'
  BY <1>2, DryRunCoins
<1>3. CASE RiskGate \/ Elapse \/ Sign \/ RpcError \/ Restart
  BY <1>3, QuietCoins DEF RiskGate, Elapse, Sign, RpcError, Restart, BackToIdle
<1>4. CASE Send
  BY <1>4, SendCoins
<1>5. ASSUME NEW r \in Results, Answer(r) PROVE CoinsInv'
  <2>1. \A i \in 1 .. Len(sent) : sent'[i].status = sent[i].status
    <3>1. DOMAIN sent = 1 .. Len(sent) /\ \A i \in 1 .. Len(sent) : sent[i] \in Sent
      BY SentTypes DEF TypeInv
    <3> QED
      BY <1>5, <3>1 DEF Answer, Sent
  <2>2. SentKept
    BY <1>5, AnswerKeepsDepartures
  <2> QED
    BY <1>5, <2>1, <2>2, QuietCoins DEF Answer, BackToIdle
<1>6. ASSUME NEW i \in 1 .. Len(sent), NEW r \in Results, NEW after \in [Coin -> Balances],
             Land(i, r, after)
      PROVE  CoinsInv'
  BY <1>6, LandCoins
<1>7. CASE UNCHANGED vars
  BY <1>7, QuietCoins DEF vars, bot
<1> QED
  BY <1>1, <1>2, <1>3, <1>4, <1>5, <1>6, <1>7 DEF Next, Attempt

-----------------------------------------------------------------------------
(* What the guard knows of what landed *)

EarnedOf(s, is) == SumOf([i \in is |-> s[i].earned], is)

ToldOf == {i \in 1 .. Len(sent) : sent[i].told}

\* The guard is told of what landed, once, and its figure is the sum of what it was
\* told; it agreed to the last order before the answer to it came.
Accounts ==
  /\ \A i \in 1 .. Len(sent) : sent[i].told => sent[i].status = "landed"
  /\ \A i \in 1 .. Len(sent) : sent[i].status = "landed" => sent[i].earned >= -MaxLoss
  /\ stage = "await" => ~sent[Len(sent)].told
  /\ restarts = 0 => realized = EarnedOf(sent, ToldOf)
  /\ MaxDailyLoss > 0 => realized > -(MaxDailyLoss + MaxLoss)

\* The same transactions, with the same results, have been told of.
SameTold == /\ ToldOf' = ToldOf
            /\ \A i \in ToldOf : sent'[i].earned = sent[i].earned

\* The model's fold of the results is a sum.
LEMMA EarnedIsSum ==
  ASSUME NEW is
  PROVE  Earned(is) = EarnedOf(sent, is)
  BY DEF Earned, EarnedOf, SumOf, MapThenSumSet, MapThenFoldSet

\* One transaction more, the same results.
LEMMA EarnedAdd ==
  ASSUME NEW s, NEW is, IsFiniteSet(is), NEW n, n \notin is,
         \A i \in is \union {n} : s[i].earned \in Int
  PROVE  EarnedOf(s, is \union {n}) = EarnedOf(s, is) + s[n].earned
<1> DEFINE T == is \union {n}
           e == [i \in T |-> s[i].earned]
           g == [i \in is |-> s[i].earned]
<1>1. (\A i \in T : e[i] \in Int) /\ e[n] = s[n].earned /\ \A i \in is : e[i] = g[i]
  OBVIOUS
<1>2. EarnedOf(s, T) = SumOf(e, T) /\ EarnedOf(s, is) = SumOf(g, is)
  BY DEF EarnedOf
<1> HIDE DEF e, g
<1>3. SumOf(e, T) = SumOf(e, is) + e[n]
  BY <1>1, SumAdd
<1>4. SumOf(e, is) = SumOf(g, is)
  BY <1>1, SumEqual
<1> QED
  BY <1>1, <1>2, <1>3, <1>4

\* No result is worse than the worst of them.
LEMMA MaxLossBounds ==
  ASSUME IsFiniteSet(Results)
  PROVE  MaxLoss \in Nat /\ \A r \in Results : r.base - r.gas >= -MaxLoss
<1> DEFINE L == {r.gas - r.base : r \in Results} \union {0}
<1>1. IsFiniteSet({r.gas - r.base : r \in Results})
  <2> DEFINE D == {r.gas - r.base : r \in Results}
             f == [r \in Results |-> r.gas - r.base]
  <2>1. f \in Surjection(Results, D)
    BY DEF Surjection
  <2> HIDE DEF D, f
  <2> QED
    BY <2>1, FS_Surjection DEF D
<1>2. IsFiniteSet(L) /\ 0 \in L
  BY <1>1, FS_AddElement
<1>3. \A r \in Results : r.base \in Int /\ r.gas \in Int
  BY SubmissionAssumption DEF SubmissionAssumption
<1>4. L \subseteq Int
  BY <1>3
<1>5. \A r \in Results : r.gas - r.base \in L
  OBVIOUS
<1> HIDE DEF L
<1>6. Max(L) \in L /\ \A y \in L : y <= Max(L)
  BY <1>2, <1>4, MaxIs
<1>7. MaxLoss = Max(L)
  BY DEF MaxLoss, L
<1>8. MaxLoss \in Nat
  <2>1. 0 <= Max(L) /\ Max(L) \in Int
    BY <1>2, <1>4, <1>6
  <2> QED
    BY <1>7, <2>1
<1>9. ASSUME NEW r \in Results PROVE r.base - r.gas >= -MaxLoss
  <2>1. r.gas - r.base <= MaxLoss
    BY <1>5, <1>6, <1>7
  <2> QED
    BY <1>3, <1>8, <2>1
<1> QED
  BY <1>8, <1>9

\* What has been told of is finite.
LEMMA ToldFinite ==
  ASSUME TypeOK
  PROVE  IsFiniteSet(ToldOf) /\ \A i \in 1 .. Len(sent) : sent[i].earned \in Int
<1>1. Len(sent) \in Nat
  BY LenProperties DEF TypeOK
<1>2. IsFiniteSet(1 .. Len(sent)) /\ ToldOf \subseteq 1 .. Len(sent)
  BY <1>1, FS_Interval DEF ToldOf
<1> QED
  BY <1>2, FS_Subset, SentTypes DEF Sent

\* The told results add up to the same as long as they are the same.
LEMMA SameToldEarned ==
  ASSUME TypeOK, SameTold
  PROVE  EarnedOf(sent', ToldOf') = EarnedOf(sent, ToldOf)
<1> DEFINE e == [i \in ToldOf |-> sent[i].earned]
           f == [i \in ToldOf |-> sent'[i].earned]
<1>1. \A i \in ToldOf : e[i] = f[i]
  BY DEF SameTold
<1>2. IsFiniteSet(ToldOf)
  BY ToldFinite
<1>3. EarnedOf(sent, ToldOf) = SumOf(e, ToldOf)
  BY DEF EarnedOf
<1>4. EarnedOf(sent', ToldOf') = SumOf(f, ToldOf)
  BY DEF EarnedOf, SameTold
<1> HIDE DEF e, f
<1>5. SumOf(e, ToldOf) = SumOf(f, ToldOf)
  BY <1>1, <1>2, SumEqual
<1> QED
  BY <1>3, <1>4, <1>5

\* Steps that leave the guard and what was sent alone, but for the end of the attempt.
LEMMA QuietAccounts ==
  ASSUME TypeInv, Accounts, UNCHANGED <<sent, restarts, realized>>,
         stage' = "await" => stage = "await"
  PROVE  Accounts'
<1>1. EarnedOf(sent', ToldOf') = EarnedOf(sent, ToldOf)
  BY SameToldEarned DEF TypeInv, SameTold, ToldOf
<1> QED
  BY <1>1 DEF Accounts

\* A restart forgets the day's result, and the accounts with it.
LEMMA RestartAccounts ==
  ASSUME TypeInv, Accounts, IsFiniteSet(Results), Restart
  PROVE  Accounts'
<1>1. realized' = 0 /\ restarts' # 0 /\ stage' = "idle" /\ sent' = sent
  BY SubmissionAssumption DEF Restart, BackToIdle, TypeInv, TypeOK, SubmissionAssumption
<1>2. MaxLoss \in Nat /\ MaxDailyLoss \in Nat
  BY MaxLossBounds, SubmissionAssumption DEF SubmissionAssumption
<1> QED
  BY <1>1, <1>2 DEF Accounts

\* A transaction leaves only while the loss so far is below the cap.
LEMMA SendAccounts ==
  ASSUME TypeInv, Accounts, Send
  PROVE  Accounts'
<1>1. CASE age > MaxQuoteAge
  BY <1>1, QuietAccounts DEF Send, BackToIdle
<1>2. CASE ~(age > MaxQuoteAge)
  <2>1. /\ sent' = Append(sent, Departing) /\ stage = "send" /\ sent \in Seq(Sent)
        /\ UNCHANGED <<realized, restarts>>
    BY <1>2 DEF Send, Departing, TypeInv, TypeOK
  <2>2. age <= MaxQuoteAge
    BY <1>2, SubmissionAssumption DEF TypeInv, TypeOK, SubmissionAssumption
  <2>3. Departing \in Sent
    BY <2>1, <2>2, DepartingType DEF TypeInv
  <2>4. /\ Len(sent') = Len(sent) + 1 /\ Len(sent) \in Nat
        /\ \A i \in 1 .. Len(sent) : sent'[i] = sent[i]
        /\ sent'[Len(sent')] = Departing
    BY <2>1, <2>3, SentAppend, LandedFinite
  <2>5. \A i \in 1 .. Len(sent') : i \in 1 .. Len(sent) \/ i = Len(sent')
    BY <2>4
  <2>6. Departing.status = "flying" /\ Departing.told = FALSE
    BY DEF Departing
  <2>7. SameTold
    BY <2>4, <2>5, <2>6 DEF SameTold, ToldOf
  <2>8. EarnedOf(sent', ToldOf') = EarnedOf(sent, ToldOf)
    BY <2>7, SameToldEarned DEF TypeInv
  <2> QED
    BY <2>1, <2>4, <2>5, <2>6, <2>8 DEF Accounts
<1> QED
  BY <1>1, <1>2

\* What lands is not told of yet.
LEMMA LandAccounts ==
  ASSUME TypeInv, Accounts, IsFiniteSet(Results),
         NEW i \in 1 .. Len(sent), NEW r \in Results, NEW after \in [Coin -> Balances],
         Land(i, r, after)
  PROVE  Accounts'
<1> DEFINE x == [sent[i] EXCEPT !.status = "landed", !.earned = r.base - r.gas]
<1>1. sent[i] \in Sent /\ sent[i].status = "flying" /\ sent \in Seq(Sent)
  BY ElementOfSeq DEF TypeInv, TypeOK, Land, Landable
<1>2. x \in Sent /\ x.status = "landed" /\ x.told = sent[i].told /\ x.earned = r.base - r.gas
  <2>1. r.base - r.gas \in Int
    BY SubmissionAssumption DEF SubmissionAssumption
  <2> QED
    BY <1>1, <2>1 DEF Sent
<1>3. sent' = [sent EXCEPT ![i] = x]
  BY DEF Land
<1> HIDE DEF x
<1>4. /\ Len(sent') = Len(sent) /\ sent'[i] = x
      /\ \A j \in 1 .. Len(sent) : j # i => sent'[j] = sent[j]
  BY <1>1, <1>2, <1>3, SentChange
<1>5. ~sent[i].told
  BY <1>1 DEF Accounts
<1>6. UNCHANGED <<stage, realized, restarts>>
  BY DEF Land, bot
<1>7. SameTold
  BY <1>2, <1>4, <1>5 DEF SameTold, ToldOf
<1>8. EarnedOf(sent', ToldOf') = EarnedOf(sent, ToldOf)
  BY <1>7, SameToldEarned DEF TypeInv
<1>9. x.earned >= -MaxLoss
  BY <1>2, MaxLossBounds
<1>10. stage = "await" => Len(sent) \in 1 .. Len(sent)
  BY <1>1, LenProperties DEF TypeInv, Room
<1> QED
  BY <1>2, <1>4, <1>5, <1>6, <1>8, <1>9, <1>10 DEF Accounts

\* An answer tells the guard of the last transaction, whose order it had agreed to.
LEMMA AnswerAccounts ==
  ASSUME TypeInv, Vetted, Accounts, IsFiniteSet(Results), BaseIsSui = TRUE,
         NEW r \in Results, Answer(r)
  PROVE  Accounts'
<1> DEFINE n == Len(sent)
           x == [sent[n] EXCEPT !.told = TRUE]
<1>1. sent \in Seq(Sent) /\ n \in Nat /\ n \in 1 .. n /\ stage = "await"
  BY LenProperties DEF TypeInv, TypeOK, Room, Answer
<1>2. CASE UNCHANGED <<realized, sent>>
  BY <1>2, QuietAccounts DEF Answer, BackToIdle
<1>3. CASE /\ realized' = realized + r.base - (IF BaseIsSui THEN r.gas ELSE 0)
           /\ sent' = [sent EXCEPT ![n].told = TRUE]
  <2>1. sent[n] \in Sent /\ sent[n].status = "landed" /\ sent[n].earned = r.base - r.gas
    BY <1>1, ElementOfSeq DEF Answer
  <2>2. r.base \in Int /\ r.gas \in Int /\ realized \in Int /\ MaxDailyLoss \in Nat
    BY SubmissionAssumption DEF SubmissionAssumption, TypeInv, TypeOK
  <2>3. x \in Sent /\ x.told = TRUE /\ x.status = "landed" /\ x.earned = sent[n].earned
    BY <2>1, Zenon DEF Sent
  <2>4. sent' = [sent EXCEPT ![n] = x]
    BY <1>3
  <2> HIDE DEF x
  <2>5. /\ Len(sent') = n /\ sent'[n] = x
        /\ \A j \in 1 .. n : j # n => sent'[j] = sent[j]
    BY <1>1, <2>3, <2>4, SentChange
  <2>6. realized' = realized + sent[n].earned
    BY <1>3, <2>1, <2>2
  <2>7. ~sent[n].told /\ n \notin ToldOf
    BY <1>1 DEF Accounts, ToldOf
  <2>8. ToldOf' = ToldOf \union {n}
    BY <1>1, <2>3, <2>5 DEF ToldOf
  <2>9. EarnedOf(sent', ToldOf') = EarnedOf(sent, ToldOf) + sent[n].earned
    <3>1. IsFiniteSet(ToldOf) /\ \A i \in ToldOf \union {n} : sent'[i].earned \in Int
      BY <1>1, <2>3, <2>5, ToldFinite DEF TypeInv, ToldOf
    <3>2. EarnedOf(sent', ToldOf') = EarnedOf(sent', ToldOf) + sent[n].earned
      BY <2>3, <2>5, <2>7, <2>8, <3>1, EarnedAdd
    <3>3. EarnedOf(sent', ToldOf) = EarnedOf(sent, ToldOf)
      <4> DEFINE f == [i \in ToldOf |-> sent'[i].earned]
                 g == [i \in ToldOf |-> sent[i].earned]
      <4>1. f = g
        BY <2>5, <2>7 DEF ToldOf
      <4> QED
        BY <4>1 DEF EarnedOf
    <3> QED
      BY <3>2, <3>3
  <2>10. sent[n].earned >= -MaxLoss /\ sent[n].earned \in Int /\ MaxLoss \in Nat
    BY <1>1, <2>1, <2>2, MaxLossBounds DEF Accounts
  <2>11. MaxDailyLoss > 0 => realized > -MaxDailyLoss
    BY <1>1, <2>2 DEF Vetted, PassedGate, ShouldSubmit
  <2>12. MaxDailyLoss > 0 => realized' > -(MaxDailyLoss + MaxLoss)
    BY <2>2, <2>6, <2>10, <2>11
  <2>13. stage' = "idle" /\ restarts' = restarts
    BY DEF Answer, BackToIdle
  <2>14. restarts' = 0 => realized' = EarnedOf(sent', ToldOf')
    BY <2>6, <2>9, <2>13 DEF Accounts
  <2> QED
    BY <1>1, <2>1, <2>3, <2>5, <2>12, <2>13, <2>14 DEF Accounts
<1> QED
  BY <1>2, <1>3 DEF Answer

\* The accounts survive every step.
LEMMA NextAccounts ==
  ASSUME IsFiniteSet(Results), BaseIsSui = TRUE
  PROVE  TypeInv /\ Vetted /\ Accounts /\ [Next]_vars => Accounts'
<1> SUFFICES ASSUME TypeInv, Vetted, Accounts, [Next]_vars PROVE Accounts'
  OBVIOUS
<1>1. ASSUME NEW quote \in Quotes, NEW limit \in Limits, NEW listed \in BOOLEAN,
             Candidate(quote, limit, listed)
      PROVE  Accounts'
  BY <1>1, QuietAccounts DEF Candidate
<1>2. ASSUME NEW s \in Sizes, NEW net \in DryNets \union {None}, DryRun(s, net)
      PROVE  Accounts'
  BY <1>2, QuietAccounts DEF DryRun, GiveUpSize
<1>3. CASE RiskGate \/ Elapse \/ Sign \/ RpcError
  BY <1>3, QuietAccounts DEF RiskGate, Elapse, Sign, RpcError, BackToIdle
<1>4. CASE Send
  BY <1>4, SendAccounts
<1>5. CASE Restart
  BY <1>5, RestartAccounts
<1>6. ASSUME NEW r \in Results, Answer(r) PROVE Accounts'
  BY <1>6, AnswerAccounts
<1>7. ASSUME NEW i \in 1 .. Len(sent), NEW r \in Results, NEW after \in [Coin -> Balances],
             Land(i, r, after)
      PROVE  Accounts'
  BY <1>7, LandAccounts
<1>8. CASE UNCHANGED vars
  BY <1>8, QuietAccounts DEF vars, bot
<1> QED
  BY <1>1, <1>2, <1>3, <1>4, <1>5, <1>6, <1>7, <1>8 DEF Next, Attempt

\* The one result not yet told of is all that can exceed the cap.
LEMMA AccountsBound ==
  ASSUME IsFiniteSet(Results), TypeInv, Vetted, Accounts
  PROVE  OvershootBounded
<1> SUFFICES ASSUME MaxDailyLoss > 0, restarts = 0,
                    \A i \in Landed : sent[i].told \/ (stage = "await" /\ i = Len(sent))
             PROVE  Earned(Landed) > -(MaxDailyLoss + MaxLoss)
  BY DEF OvershootBounded
<1> DEFINE n == Len(sent)
<1>1. ToldOf \subseteq Landed /\ Landed \subseteq ToldOf \union {n}
  BY DEF Accounts, ToldOf, Landed
<1>2. Earned(Landed) = EarnedOf(sent, Landed) /\ realized = EarnedOf(sent, ToldOf)
  BY EarnedIsSum DEF Accounts
<1>3. realized > -(MaxDailyLoss + MaxLoss)
  BY DEF Accounts
<1>4. CASE Landed = ToldOf
  BY <1>2, <1>3, <1>4
<1>5. CASE Landed # ToldOf
  <2>1. n \in Landed /\ n \notin ToldOf /\ Landed = ToldOf \union {n}
    BY <1>1, <1>5
  <2>2. stage = "await" /\ n \in 1 .. n /\ sent[n].status = "landed"
    BY <2>1 DEF ToldOf, Landed
  <2>3. realized > -MaxDailyLoss
    <3>1. sent[n].told = FALSE
      BY <2>1, <2>2, SentTypes DEF TypeInv, Sent, ToldOf
    <3>2. stage = "await"
      BY <2>2, <3>1
    <3> QED
      BY <3>2, SubmissionAssumption
      DEF Vetted, PassedGate, ShouldSubmit, TypeInv, TypeOK, SubmissionAssumption
  <2>4. EarnedOf(sent, Landed) = EarnedOf(sent, ToldOf) + sent[n].earned
    <3>1. IsFiniteSet(ToldOf) /\ \A i \in ToldOf \union {n} : sent[i].earned \in Int
      BY <2>2, ToldFinite DEF TypeInv, ToldOf
    <3> QED
      BY <2>1, <3>1, EarnedAdd
  <2>5. sent[n].earned >= -MaxLoss /\ sent[n].earned \in Int /\ realized \in Int
        /\ MaxLoss \in Nat /\ MaxDailyLoss \in Nat
    BY <2>2, ToldFinite, MaxLossBounds, SubmissionAssumption
    DEF Accounts, TypeInv, TypeOK, SubmissionAssumption
  <2> QED
    BY <1>2, <2>3, <2>4, <2>5
<1> QED
  BY <1>4, <1>5

-----------------------------------------------------------------------------
\* The three invariants hold in every reachable state.
LEMMA SubmissionInvariant == Spec => [](TypeInv /\ Vetted /\ CoinsInv)
<1>1. Init => TypeInv /\ Vetted /\ CoinsInv
  <2> SUFFICES ASSUME Init PROVE TypeInv /\ Vetted /\ CoinsInv
    OBVIOUS
  <2>1. Len(sent) = 0 /\ order = None /\ stage = "idle"
    BY EmptySeq DEF Init
  <2> QED
    BY <2>1, InitTypeInv
    DEF Vetted, PassedGate, SentIsVetted, CoinsInv, NoLateTwin
<1>2. TypeInv /\ Vetted /\ CoinsInv /\ [Next]_vars => (TypeInv /\ Vetted /\ CoinsInv)'
  BY NextTypeInv, NextVetted, NextCoins
<1> QED
  BY <1>1, <1>2, PTL DEF Spec

\* The bot's records keep their types, whatever is quoted, answered or lost: above
\* all, an order exists exactly from the cleared dry run to the end of the attempt
\* (executor.rs, try_execute), and nothing is sent beyond the bound.
THEOREM SubmissionTypeCorrect == Spec => []TypeOK
  BY SubmissionInvariant, PTL DEF TypeInv

\* Whatever left the bot had cleared the floor in a dry run that was young enough, and
\* the guard's verdict still stood (executor.rs, risk.rs).
THEOREM SubmissionVetted == Spec => []SentIsVetted
  BY SubmissionInvariant, PTL DEF Vetted

\* A transaction abandoned on an RPC error cannot land once its successor has, for
\* any number of coins and transactions (executor.rs, pick_gas_coin).
THEOREM SubmissionNoLateTwin == Spec => []NoLateTwin
  BY SubmissionInvariant, PTL DEF CoinsInv

\* Where the base token is the gas token, as long as the guard has been told of what
\* landed, the day's loss exceeds the cap by less than the worst of the results, for any
\* finite set of them and any number of transactions (risk.rs, should_submit): nothing
\* is sent before the answer to the last transaction has come or been given up on.
THEOREM SubmissionOvershoot ==
  ASSUME IsFiniteSet(Results), BaseIsSui = TRUE
  PROVE  Spec => []OvershootBounded
<1>1. Init => Accounts
  <2> SUFFICES ASSUME Init PROVE Accounts
    OBVIOUS
  <2>1. Len(sent) = 0 /\ stage = "idle" /\ realized = 0
    BY EmptySeq DEF Init
  <2>2. ToldOf = {}
    BY <2>1 DEF ToldOf
  <2>3. EarnedOf(sent, ToldOf) = 0
    BY <2>2, SumEmpty DEF EarnedOf
  <2>4. MaxLoss \in Nat /\ MaxDailyLoss \in Nat
    BY MaxLossBounds, SubmissionAssumption DEF SubmissionAssumption
  <2> QED
    BY <2>1, <2>3, <2>4 DEF Accounts
<1>2. TypeInv /\ Vetted /\ Accounts /\ [Next]_vars => Accounts'
  BY NextAccounts
<1>3. TypeInv /\ Vetted /\ Accounts => OvershootBounded
  BY AccountsBound
<1> QED
  BY <1>1, <1>2, <1>3, SubmissionInvariant, PTL DEF Spec
=============================================================================
