------------------------- MODULE MessageRouterProofs -------------------------
(***************************************************************************)
(* What the MessageRouter promises for any messages, rules, transports and *)
(* number of calls: rows never go back from `published', a row that says   *)
(* so is right, dead letters are kept while the Database does not raise in *)
(* a retry, and a message goes out twice only after a failure in doubt.    *)
(***************************************************************************)
EXTENDS MessageRouter, FiniteSetTheorems, SequenceTheorems, WellFoundedInduction, TLAPS

----------------------------------------------------------------------------
(* Sequences of rules *)

LEMMA LeastNatural ==
    ASSUME NEW S \in SUBSET Nat, S # {}
    PROVE  \E i \in S : \A j \in S : i <= j
  <1> DEFINE Less == OpToRel(<, Nat)
  <1>1. IsWellFoundedOn(Less, Nat)
    BY NatLessThanWellFounded
  <1>2. \A i, j \in Nat : j < i => <<j, i>> \in Less
    BY DEF OpToRel
  <1> HIDE DEF Less
  <1>3. PICK i \in S : \A j \in S : ~(<<j, i>> \in Less)
    BY <1>1, WFMin
  <1>4. i \in Nat /\ \A j \in S : j \in Nat /\ ~(j < i)
    BY <1>2, <1>3
  <1>5. \A j \in S : i <= j
    BY <1>4
  <1>6. QED
    BY <1>3, <1>5

\* The number of positions of a sequence that have some property.
LEMMA PositionsCounted ==
    ASSUME NEW R, NEW s \in Seq(R), NEW P \in SUBSET DOMAIN s
    PROVE  Cardinality(P) \in 0 .. Len(s)
  <1>1. DOMAIN s = 1 .. Len(s) /\ Len(s) \in Nat /\ Len(s) \in Int /\ 1 \in Int
    OBVIOUS
  <1>2. IsFiniteSet(1 .. Len(s))
    BY <1>1, FS_Interval
  <1>3. Cardinality(1 .. Len(s)) = IF 1 > Len(s) THEN 0 ELSE Len(s) - 1 + 1
    BY <1>1, FS_Interval
  <1>4. Cardinality(1 .. Len(s)) = Len(s)
    BY <1>1, <1>3
  <1>5. IsFiniteSet(P) /\ Cardinality(P) <= Len(s)
    BY <1>1, <1>2, <1>4, FS_Subset
  <1>6. Cardinality(P) \in Nat
    BY <1>5, FS_CardinalityType
  <1>7. QED
    BY <1>1, <1>5, <1>6

\* The first rule that matches stands before the others that do.
LEMMA FirstMatchIsFirst ==
    ASSUME NEW s \in Seq(Rules), NEW m, Matching(s, m) # {}
    PROVE  \E i \in DOMAIN s : /\ FirstMatch(s, m) = s[i] /\ m \in s[i].matches
                               /\ \A j \in DOMAIN s : m \in s[j].matches => i <= j
  <1>1. Matching(s, m) \in SUBSET Nat
    BY DEF Matching
  <1>2. \E i \in Matching(s, m) : \A j \in Matching(s, m) : i <= j
    BY <1>1, LeastNatural
  <1> DEFINE i == CHOOSE i \in Matching(s, m) : \A j \in Matching(s, m) : i <= j
  <1>3. i \in Matching(s, m) /\ \A j \in Matching(s, m) : i <= j
    BY <1>2
  <1>4. FirstMatch(s, m) = s[i]
    BY DEF FirstMatch
  <1> HIDE DEF i
  <1>5. QED
    BY <1>3, <1>4 DEF Matching

LEMMA MatchIsRule ==
    ASSUME TypeOK, NEW m, Matching(rules, m) # {}
    PROVE  FirstMatch(rules, m) \in Rules
  <1>1. rules \in Seq(Rules)
    BY DEF TypeOK
  <1>2. \A i \in DOMAIN rules : rules[i] \in Rules
    BY <1>1
  <1>3. QED
    BY <1>1, <1>2, FirstMatchIsFirst

LEMMA SortedType ==
    ASSUME NEW s \in Seq(Rules), NEW new \in Rules
    PROVE  Sorted(s, new) \in Seq(Rules)
  <1> DEFINE P == {i \in DOMAIN s : s[i].priority >= new.priority}
             n == Cardinality(P)
  <1>1. n \in 0 .. Len(s)
    BY PositionsCounted
  <1>2. Sorted(s, new) = SubSeq(s, 1, n) \o <<new>> \o SubSeq(s, n + 1, Len(s))
    BY DEF Sorted
  <1> HIDE DEF n
  <1>3. SubSeq(s, 1, n) \in Seq(Rules) /\ SubSeq(s, n + 1, Len(s)) \in Seq(Rules)
    BY <1>1
  <1>4. QED
    BY <1>2, <1>3

----------------------------------------------------------------------------
(* Letters in a sequence *)

Holds(s, m) == \E i \in DOMAIN s : s[i].message = m
HoldsKey(s, k) == \E i \in DOMAIN s : s[i].message.key = k
OneOf(s, k) ==
    \A i, j \in DOMAIN s : s[i].message.key = k /\ s[j].message.key = k => i = j

\* What is left of the batch but for a message that was sent just now.
Rest == IF pc = "remark" THEN Tail(batch) ELSE batch

Kept(m) == Holds(queue, m) \/ Holds(Rest, m) \/ Holds(still, m)

LEMMA LetterAppended ==
    ASSUME NEW s \in Seq(Letters), NEW l \in Letters
    PROVE  /\ Append(s, l) \in Seq(Letters)
           /\ \A m : Holds(Append(s, l), m) <=> Holds(s, m) \/ m = l.message
           /\ \A k : HoldsKey(Append(s, l), k) <=> HoldsKey(s, k) \/ k = l.message.key
           /\ \A k : OneOf(s, k) /\ (k = l.message.key => ~HoldsKey(s, k))
                     => OneOf(Append(s, l), k)
  <1>1. /\ DOMAIN s = 1 .. Len(s) /\ Len(s) \in Nat
        /\ DOMAIN Append(s, l) = 1 .. Len(s) + 1
        /\ Append(s, l)[Len(s) + 1] = l
        /\ \A i \in 1 .. Len(s) : Append(s, l)[i] = s[i]
    OBVIOUS
  <1>2. \A i \in DOMAIN Append(s, l) : i \in DOMAIN s \/ i = Len(s) + 1
    BY <1>1
  <1>3. Len(s) + 1 \in DOMAIN Append(s, l) /\ \A i \in DOMAIN s : i \in DOMAIN Append(s, l)
    BY <1>1
  <1>4. \A m : Holds(Append(s, l), m) <=> Holds(s, m) \/ m = l.message
    BY <1>1, <1>2, <1>3 DEF Holds
  <1>5. \A k : HoldsKey(Append(s, l), k) <=> HoldsKey(s, k) \/ k = l.message.key
    BY <1>1, <1>2, <1>3 DEF HoldsKey
  <1>6. ASSUME NEW k, OneOf(s, k), k = l.message.key => ~HoldsKey(s, k)
        PROVE  OneOf(Append(s, l), k)
    BY <1>1, <1>2, <1>6 DEF OneOf, HoldsKey
  <1>7. QED
    BY <1>4, <1>5, <1>6

LEMMA LetterTaken ==
    ASSUME NEW s \in Seq(Letters), s # <<>>
    PROVE  /\ Tail(s) \in Seq(Letters) /\ Head(s) \in Letters
           /\ \A m : Holds(s, m) <=> Holds(Tail(s), m) \/ m = Head(s).message
           /\ \A k : HoldsKey(s, k) <=> HoldsKey(Tail(s), k) \/ k = Head(s).message.key
           /\ \A k : OneOf(s, k) => OneOf(Tail(s), k)
           /\ \A k : OneOf(s, k) /\ k = Head(s).message.key => ~HoldsKey(Tail(s), k)
  <1>1. /\ DOMAIN s = 1 .. Len(s) /\ Len(s) \in Nat /\ Len(s) >= 1
        /\ DOMAIN Tail(s) = 1 .. Len(s) - 1
        /\ Head(s) = s[1]
        /\ \A i \in 1 .. Len(s) - 1 : Tail(s)[i] = s[i + 1]
    OBVIOUS
  <1>2. \A i \in DOMAIN Tail(s) : i + 1 \in DOMAIN s /\ i + 1 # 1
    BY <1>1
  <1>3. 1 \in DOMAIN s /\ \A i \in DOMAIN s \ {1} : i - 1 \in DOMAIN Tail(s)
    BY <1>1
  <1>4. \A i \in DOMAIN s \ {1} : Tail(s)[i - 1] = s[i]
    BY <1>1
  <1>5. \A m : Holds(s, m) <=> Holds(Tail(s), m) \/ m = Head(s).message
    BY <1>1, <1>2, <1>3, <1>4 DEF Holds
  <1>6. \A k : HoldsKey(s, k) <=> HoldsKey(Tail(s), k) \/ k = Head(s).message.key
    BY <1>1, <1>2, <1>3, <1>4 DEF HoldsKey
  <1>7. ASSUME NEW k, OneOf(s, k)
        PROVE  OneOf(Tail(s), k)
    <2>1. SUFFICES ASSUME NEW i \in DOMAIN Tail(s), NEW j \in DOMAIN Tail(s),
                          Tail(s)[i].message.key = k, Tail(s)[j].message.key = k
                   PROVE  i = j
      BY DEF OneOf
    <2>2. i + 1 = j + 1
      BY <1>1, <1>2, <1>7, <2>1 DEF OneOf
    <2>3. QED
      BY <1>1, <2>2
  <1>8. ASSUME NEW k, OneOf(s, k), k = Head(s).message.key
        PROVE  ~HoldsKey(Tail(s), k)
    BY <1>1, <1>2, <1>3, <1>8 DEF OneOf, HoldsKey
  <1>9. Tail(s) \in Seq(Letters) /\ Head(s) \in Letters
    OBVIOUS
  <1>10. QED
    BY <1>5, <1>6, <1>7, <1>8, <1>9

LEMMA NoLetters ==
    \A k, m : ~Holds(<<>>, m) /\ ~HoldsKey(<<>>, k) /\ OneOf(<<>>, k)
  BY DEF Holds, HoldsKey, OneOf

\* A letter's key is in a sequence exactly if a message of that key is.
LEMMA KeyOfLetter ==
    ASSUME NEW s \in Seq(Letters), NEW k
    PROVE  HoldsKey(s, k) <=> \E m \in Messages : m.key = k /\ Holds(s, m)
  <1>1. \A i \in DOMAIN s : s[i] \in Letters
    OBVIOUS
  <1>2. \A i \in DOMAIN s : s[i].message \in Messages
    BY <1>1 DEF Letters
  <1>3. QED
    BY <1>2 DEF Holds, HoldsKey

----------------------------------------------------------------------------
(* Types *)

LEMMA TableOps ==
    ASSUME NEW t \in Tables, NEW k \in Keys, NEW c \in Contents
    PROVE  /\ SavePending(t, k, c) \in Tables
           /\ HasKey(SavePending(t, k, c), k)
           /\ SavePending(t, k, c)[k].content = c
           /\ ~IsPublished(SavePending(t, k, c), k)
           /\ \A j \in Keys \ {k} : SavePending(t, k, c)[j] = t[j]
           /\ MarkPublished(t, k) \in Tables
           /\ \A j \in Keys : /\ HasKey(MarkPublished(t, k), j) <=> HasKey(t, j)
                              /\ HasKey(t, j) =>
                                    MarkPublished(t, k)[j].content = t[j].content
                              /\ j # k => MarkPublished(t, k)[j] = t[j]
                              /\ IsPublished(t, j) => IsPublished(MarkPublished(t, k), j)
  <1>1. [content |-> c, status |-> "pending"] \in Rows
    BY DEF Rows
  <1>2. [content |-> c, status |-> "pending"] # NoRow
    BY <1>1, NoRowAssumption
  <1>3. HasKey(t, k) => [content |-> t[k].content, status |-> "published"] \in Rows
    BY DEF HasKey, Tables, Rows
  <1>4. \A r \in Rows : r # NoRow
    BY NoRowAssumption
  <1>5. /\ SavePending(t, k, c) \in Tables
        /\ HasKey(SavePending(t, k, c), k)
        /\ SavePending(t, k, c)[k].content = c
        /\ ~IsPublished(SavePending(t, k, c), k)
        /\ \A j \in Keys \ {k} : SavePending(t, k, c)[j] = t[j]
    BY <1>1, <1>2 DEF SavePending, Tables, HasKey, IsPublished
  <1>6. MarkPublished(t, k) \in Tables
    BY <1>3 DEF MarkPublished, Tables
  <1>7. \A j \in Keys : /\ HasKey(MarkPublished(t, k), j) <=> HasKey(t, j)
                        /\ HasKey(t, j) => MarkPublished(t, k)[j].content = t[j].content
                        /\ j # k => MarkPublished(t, k)[j] = t[j]
                        /\ IsPublished(t, j) => IsPublished(MarkPublished(t, k), j)
    BY <1>3, <1>4 DEF MarkPublished, Tables, HasKey, IsPublished
  <1>8. QED
    BY <1>5, <1>6, <1>7

\* save_post touches the row of its key alone.
LEMMA RowSaved ==
    ASSUME NEW t \in Tables, NEW k \in Keys, NEW c \in Contents
    PROVE  /\ SavePending(t, k, c)[k].content = c
           /\ \A j \in Keys \ {k} : SavePending(t, k, c)[j] = t[j]
  BY DEF SavePending, Tables

LEMMA InitTypeOK == Init => TypeOK
  <1>1. SUFFICES ASSUME Init PROVE TypeOK
    OBVIOUS
  <1>2. AnyMessage \in Messages /\ AnyRule \in Rules
    BY RouterAssumption DEF AnyMessage, AnyRule
  <1>3. posts \in Tables
    BY <1>1 DEF Init, EmptyTable, Tables
  <1>4. calls \in 0 .. MaxCalls
    BY <1>1, RouterAssumption DEF Init
  <1>5. /\ rules \in Seq(Rules) /\ added \in Seq(Rules) /\ queue \in Seq(Letters)
        /\ batch \in Seq(Letters) /\ still \in Seq(Letters)
    BY <1>1 DEF Init
  <1>6. hasDb \in BOOLEAN /\ dbRaised \in BOOLEAN
    BY <1>1 DEF Init
  <1>7. sent \in [Messages -> Nat]
    BY <1>1 DEF Init
  <1>8. QED
    BY <1>1, <1>2, <1>3, <1>4, <1>5, <1>6, <1>7 DEF Init, TypeOK

\* What a call reads of its message or of the letter it is at.
LEMMA CurrentType ==
    ASSUME TypeOK
    PROVE  /\ \A m \in Messages : m.key \in Keys /\ m.content \in Contents
           /\ \A m \in Messages, r \in Rules : Letter(m, r) \in Letters
           /\ batch # <<>> => /\ Current \in Letters /\ Tail(batch) \in Seq(Letters)
                              /\ Current.message \in Messages
                              /\ Append(still, Current) \in Seq(Letters)
  <1>1. \A m \in Messages : m.key \in Keys /\ m.content \in Contents
    BY RouterAssumption
  <1>2. batch \in Seq(Letters) /\ still \in Seq(Letters)
    BY DEF TypeOK
  <1>3. batch # <<>> => Head(batch) \in Letters /\ Tail(batch) \in Seq(Letters)
    BY <1>2
  <1>4. \A l \in Letters : l.message \in Messages /\ Append(still, l) \in Seq(Letters)
    BY <1>2 DEF Letters
  <1>5. QED
    BY <1>1, <1>3, <1>4 DEF Current, Letter, Letters

LEMMA ExecuteType ==
    ASSUME TypeOK, NEW m \in Messages, Execute(m)
    PROVE  /\ sent' \in [Messages -> Nat]
           /\ sent'[m] = sent[m] + 1
           /\ \A n \in Messages \ {m} : sent'[n] = sent[n]
  BY DEF TypeOK, Execute

LEMMA FailureType ==
    ASSUME TypeOK, NEW m \in Messages, NEW r \in Rules, HandleFailure(m, r)
    PROVE  failed' \subseteq Messages /\ queue' \in Seq(Letters)
  BY CurrentType DEF TypeOK, HandleFailure

LEMMA SetupType ==
    ASSUME TypeOK, (\E t \in Transports : RegisterTransport(t)) \/ \E new \in Rules : AddRule(new)
    PROVE  TypeOK'
  <1>1. CASE \E t \in Transports : RegisterTransport(t)
    BY <1>1 DEF TypeOK, RegisterTransport, routeVars, retryVars
  <1>2. CASE \E new \in Rules : AddRule(new)
    <2>1. PICK new \in Rules : AddRule(new)
      BY <1>2
    <2>2. rules' \in Seq(Rules)
      BY <2>1, SortedType DEF AddRule, TypeOK
    <2>3. added' \in Seq(Rules)
      BY <2>1 DEF AddRule, TypeOK
    <2>4. QED
      BY <2>1, <2>2, <2>3 DEF TypeOK, AddRule, routeVars, retryVars
  <1>3. QED
    BY <1>1, <1>2

LEMMA BeginRouteType ==
    ASSUME TypeOK, NEW m \in Messages, BeginRoute(m)
    PROVE  TypeOK'
  <1>1. calls' \in 0 .. MaxCalls
    BY RouterAssumption DEF BeginRoute, TypeOK
  <1>2. Matching(rules, m) # {} => FirstMatch(rules, m) \in Rules
    BY MatchIsRule
  <1>3. m.key \in Keys
    BY RouterAssumption
  <1>4. /\ queue' \in Seq(Letters) /\ failed' \subseteq Messages /\ unsure' \subseteq Keys
        /\ message' \in Messages /\ rule' \in Rules
        /\ pc' \in {"idle", "query", "send"}
    BY <1>2, <1>3, FailureType DEF BeginRoute, TypeOK, Doubt, routeVars
  <1>5. UNCHANGED <<hasDb, dbRaised, posts, transports, rules, added, batch, still, sent>>
    BY DEF BeginRoute, setupVars, retryVars
  <1>6. QED
    BY <1>1, <1>4, <1>5 DEF TypeOK

LEMMA RouteType ==
    ASSUME TypeOK, Query \/ Insert \/ Send \/ MarkRouted
    PROVE  TypeOK'
  <1>1. message.key \in Keys /\ message.content \in Contents
    BY CurrentType DEF TypeOK
  <1>2. posts' \in Tables
    BY <1>1, TableOps DEF Query, Insert, Send, MarkRouted, TypeOK
  <1>3. AnyMessage \in Messages /\ AnyRule \in Rules
    BY RouterAssumption DEF AnyMessage, AnyRule
  <1>4. /\ message' \in Messages /\ rule' \in Rules
        /\ pc' \in {"idle", "insert", "send", "mark"}
    BY <1>3 DEF Query, Insert, Send, MarkRouted, Goto, Return, TypeOK, routeVars
  <1>5. sent' \in [Messages -> Nat]
    BY ExecuteType DEF Query, Insert, Send, MarkRouted, TypeOK
  <1>6. queue' \in Seq(Letters) /\ failed' \subseteq Messages /\ unsure' \subseteq Keys
    BY <1>1, FailureType DEF Query, Insert, Send, MarkRouted, Doubt, TypeOK
  <1>7. /\ hasDb' \in BOOLEAN /\ dbRaised' \in BOOLEAN
        /\ UNCHANGED <<transports, rules, added, batch, still, calls>>
    BY DEF Query, Insert, Send, MarkRouted, TypeOK, setupVars, retryVars
  <1>8. QED
    BY <1>2, <1>4, <1>5, <1>6, <1>7 DEF TypeOK

LEMMA RetryType ==
    ASSUME TypeOK, BeginRetry \/ RetryNext \/ EndRetry \/ Requery \/ Reinsert \/ Resend \/ Remark
    PROVE  TypeOK'
  <1> DEFINE AtLetter == pc \in {"requery", "reinsert", "resend", "remark"}
  <1>1. AtLetter => batch # <<>>
    BY DEF TypeOK
  <1>2. batch # <<>> => /\ Current.message \in Messages
                        /\ Current.message.key \in Keys /\ Current.message.content \in Contents
                        /\ Tail(batch) \in Seq(Letters) /\ Append(still, Current) \in Seq(Letters)
    BY CurrentType
  <1>3. posts' \in Tables
    BY <1>1, <1>2, TableOps
    DEF BeginRetry, RetryNext, EndRetry, Requery, Reinsert, Resend, Remark, TypeOK
  <1>4. sent' \in [Messages -> Nat]
    BY <1>1, <1>2, ExecuteType
    DEF BeginRetry, RetryNext, EndRetry, Requery, Reinsert, Resend, Remark, TypeOK
  <1>5. unsure' \subseteq Keys /\ UNCHANGED failed
    BY <1>1, <1>2
    DEF BeginRetry, RetryNext, EndRetry, Requery, Reinsert, Resend, Remark, TypeOK, Doubt
  <1>6. message' \in Messages /\ rule' \in Rules
    BY RouterAssumption
    DEF BeginRetry, RetryNext, EndRetry, Requery, Reinsert, Resend, Remark, TypeOK, Return,
        LoseBatch, routeVars, AnyMessage, AnyRule
  <1>7. batch' \in Seq(Letters) /\ still' \in Seq(Letters) /\ queue' \in Seq(Letters)
    <2>1. batch \in Seq(Letters) /\ still \in Seq(Letters) /\ queue \in Seq(Letters)
          /\ <<>> \in Seq(Letters)
      BY DEF TypeOK
    <2>2. CASE BeginRetry
      BY <2>1, <2>2 DEF BeginRetry
    <2>3. CASE RetryNext
      BY <1>2, <2>1, <2>3 DEF RetryNext, KeepFailed, retryVars
    <2>4. CASE EndRetry
      BY <2>1, <2>4 DEF EndRetry
    <2>5. CASE Requery \/ Reinsert
      BY <2>1, <2>5 DEF Requery, Reinsert, LoseBatch, retryVars
    <2>6. CASE Resend \/ Remark
      BY <1>1, <1>2, <2>1, <2>6 DEF Resend, Remark, Done, KeepFailed, retryVars
    <2>7. QED
      BY <2>2, <2>3, <2>4, <2>5, <2>6
  <1>8. /\ pc' \in {"idle", "retry", "requery", "reinsert", "resend", "remark"}
        /\ pc' \in {"requery", "reinsert", "resend", "remark"} => batch' # <<>>
    BY <1>1
    DEF BeginRetry, RetryNext, EndRetry, Requery, Reinsert, Resend, Remark, retryVars,
        LoseBatch, Done, KeepFailed, Return
  <1>9. calls' \in 0 .. MaxCalls
    BY RouterAssumption
    DEF BeginRetry, RetryNext, EndRetry, Requery, Reinsert, Resend, Remark, TypeOK
  <1>10. hasDb' = hasDb /\ (dbRaised' = dbRaised \/ dbRaised' = TRUE)
    BY DEF BeginRetry, RetryNext, EndRetry, Requery, Reinsert, Resend, Remark, setupVars,
           LoseBatch
  <1>11. UNCHANGED <<transports, rules, added>>
    BY DEF BeginRetry, RetryNext, EndRetry, Requery, Reinsert, Resend, Remark, setupVars
  <1>12. hasDb' \in BOOLEAN /\ dbRaised' \in BOOLEAN
    BY <1>10 DEF TypeOK
  <1>13. transports' \subseteq Transports /\ rules' \in Seq(Rules) /\ added' \in Seq(Rules)
    BY <1>11 DEF TypeOK
  <1>14. failed' \subseteq Messages
    BY <1>5 DEF TypeOK
  <1>15. QED
    BY <1>3, <1>4, <1>5, <1>6, <1>7, <1>8, <1>9, <1>12, <1>13, <1>14 DEF TypeOK

LEMMA NextTypeOK == TypeOK /\ [Next]_vars => TypeOK'
  <1>1. SUFFICES ASSUME TypeOK, [Next]_vars PROVE TypeOK'
    OBVIOUS
  <1>2. CASE UNCHANGED vars
    BY <1>1, <1>2 DEF TypeOK, vars, setupVars, routeVars, retryVars
  <1>3. QED
    BY <1>1, <1>2, SetupType, BeginRouteType, RouteType, RetryType DEF Next, CallStep

\* Types of the router, for any messages, rules and transports.
THEOREM TypeCorrect == Spec => []TypeOK
  BY InitTypeOK, NextTypeOK, PTL DEF Spec

----------------------------------------------------------------------------
(* The inductive invariant *)

Routing == {"idle", "query", "insert", "send", "mark"}

\* What route and retry_failed_messages know at each of their steps.
CallFacts ==
    /\ pc = "insert" => ~Exists(posts, message.key, message.content)
    /\ pc = "send" /\ hasDb =>
          /\ HasKey(posts, message.key)
          /\ posts[message.key].content = message.content
          /\ \A n \in Messages :
                \/ n.key = message.key
                \/ n.content = message.content /\ n.key \notin unsure
                => sent[n] = 0
    /\ pc = "mark" => sent[message] > 0
    /\ pc = "reinsert" => ~HasKey(posts, Current.message.key)
    /\ pc \in {"resend", "remark"} /\ hasDb => HasKey(posts, Current.message.key)
    /\ pc = "remark" => sent[Current.message] > 0

CallInv ==
    /\ pc \in Routing => batch = <<>> /\ still = <<>>
    /\ pc \notin Routing => queue = <<>>
    /\ pc \in {"query", "insert", "mark", "requery", "reinsert", "remark"} => hasDb
    /\ CallFacts

\* What was sent has a row, and two rows that no failure puts in doubt differ.
RowInv ==
    hasDb =>
        /\ \A n \in Messages : sent[n] > 0 => HasKey(posts, n.key)
        /\ \A j, k \in Keys \ unsure :
              HasKey(posts, j) /\ HasKey(posts, k) /\ posts[j].content = posts[k].content
              => j = k

\* A key that no failure puts in doubt: one version of it was sent, once, and it
\* is in no queue; or one version of it is in one place of one queue.  That
\* version is the one in the row.
SureKey(k) ==
    /\ \A m \in Messages : m.key = k /\ sent[m] > 0 =>
          sent[m] = 1 /\ posts[k].content = m.content
    /\ \A m, n \in Messages :
          m.key = k /\ n.key = k /\ sent[m] > 0 /\ sent[n] > 0 => m = n
    /\ OneOf(queue, k) /\ OneOf(Rest, k) /\ OneOf(still, k)
    /\ ~(HoldsKey(Rest, k) /\ HoldsKey(still, k))
    /\ \A m \in Messages : m.key = k /\ Kept(m) =>
          /\ HasKey(posts, k) /\ posts[k].content = m.content
          /\ \A n \in Messages : n.key = k => sent[n] = 0
          /\ ~(pc = "send" /\ message.key = k)

SureInv == hasDb => \A k \in Keys \ unsure : SureKey(k)

RouterInv ==
    TypeOK /\ CallInv /\ RowInv /\ SureInv /\ PublishedWasSent /\ DeadLettersKept

LEMMA InitRouterInv == Init => RouterInv
  <1>1. SUFFICES ASSUME Init PROVE RouterInv
    OBVIOUS
  <1>2. /\ pc = "idle" /\ queue = <<>> /\ batch = <<>> /\ still = <<>> /\ failed = {}
        /\ posts = EmptyTable /\ \A m \in Messages : sent[m] = 0 /\ ~(sent[m] > 0)
    BY <1>1 DEF Init
  <1>3. \A k \in Keys : ~HasKey(posts, k)
    BY <1>2 DEF HasKey, EmptyTable
  <1>4. CallInv
    BY <1>2 DEF CallInv, CallFacts, Routing
  <1>5. RowInv
    BY <1>2, <1>3 DEF RowInv
  <1>6. SureInv
    BY <1>2, NoLetters DEF SureInv, SureKey, Rest, Kept
  <1>7. PublishedWasSent /\ DeadLettersKept
    BY <1>2, <1>3 DEF PublishedWasSent, DeadLettersKept, IsPublished
  <1>8. QED
    BY <1>1, <1>4, <1>5, <1>6, <1>7, InitTypeOK DEF RouterInv

\* A retry moves the letter it is at from the batch to those that failed.
LEMMA LetterMoved ==
    ASSUME NEW b \in Seq(Letters), b # <<>>, NEW s \in Seq(Letters)
    PROVE  /\ \A m : Holds(Tail(b), m) \/ Holds(Append(s, Head(b)), m)
                     <=> Holds(b, m) \/ Holds(s, m)
           /\ \A k : /\ OneOf(b, k) /\ OneOf(s, k)
                     /\ ~(HoldsKey(b, k) /\ HoldsKey(s, k))
                     => /\ OneOf(Tail(b), k) /\ OneOf(Append(s, Head(b)), k)
                        /\ ~(HoldsKey(Tail(b), k) /\ HoldsKey(Append(s, Head(b)), k))
  <1>1. Head(b) \in Letters
    BY LetterTaken
  <1>2. QED
    BY <1>1, LetterTaken, LetterAppended

\* A step that leaves the row and the sends of a key alone, and adds no letter of it.
LEMMA SureFrame ==
    ASSUME NEW k, SureKey(k),
           \A m \in Messages : m.key = k => sent'[m] = sent[m] /\ (Kept(m)' => Kept(m)),
           HasKey(posts, k) => HasKey(posts', k),
           posts'[k].content = posts[k].content,
           (OneOf(queue, k) /\ OneOf(Rest, k) /\ OneOf(still, k))',
           ~(HoldsKey(Rest, k) /\ HoldsKey(still, k))',
           pc' = "send" /\ message'.key = k => pc = "send" /\ message'.key = message.key
    PROVE  SureKey(k)'
  <1>1. (\A m \in Messages : m.key = k /\ sent[m] > 0 =>
            sent[m] = 1 /\ posts[k].content = m.content)'
    BY DEF SureKey
  <1>2. (\A m, n \in Messages :
            m.key = k /\ n.key = k /\ sent[m] > 0 /\ sent[n] > 0 => m = n)'
    BY DEF SureKey
  <1>3. ASSUME NEW m \in Messages, m.key = k, Kept(m)'
        PROVE  (/\ HasKey(posts, k) /\ posts[k].content = m.content
                /\ \A n \in Messages : n.key = k => sent[n] = 0
                /\ ~(pc = "send" /\ message.key = k))'
    BY <1>3 DEF SureKey
  <1>4. QED
    BY <1>1, <1>2, <1>3 DEF SureKey

\* Outside Remark the whole batch is still to do.
LEMMA RestIsBatch ==
    /\ pc # "remark" => Rest = batch
    /\ pc = "remark" => Rest = Tail(batch)
    /\ pc' # "remark" => Rest' = batch'
    /\ pc' = "remark" => Rest' = Tail(batch')
  BY DEF Rest

LEMMA SureSetup ==
    ASSUME NEW k, SureKey(k),
           UNCHANGED <<posts, queue, pc, message, batch, still, sent>>
    PROVE  SureKey(k)'
  <1>1. Rest' = Rest
    BY DEF Rest
  <1>2. \A m \in Messages : Kept(m)' <=> Kept(m)
    BY <1>1 DEF Kept, Holds
  <1>3. (OneOf(queue, k) /\ OneOf(Rest, k) /\ OneOf(still, k)
         /\ ~(HoldsKey(Rest, k) /\ HoldsKey(still, k)))'
    BY <1>1 DEF SureKey, OneOf, HoldsKey
  <1>4. QED
    BY <1>2, <1>3, SureFrame

\* A step of a route that leaves the row and the sends of a key alone and queues
\* no letter of it.
LEMMA SureRouteFrame ==
    ASSUME TypeOK, NEW k, SureKey(k),
           pc # "remark", pc' # "remark", UNCHANGED <<batch, still>>,
           \/ queue' = queue
           \/ \E n \in Messages, r \in Rules :
                 n.key # k /\ queue' = Append(queue, Letter(n, r)),
           \A m \in Messages : m.key = k => sent'[m] = sent[m],
           HasKey(posts, k) => HasKey(posts', k),
           posts'[k].content = posts[k].content,
           ~(pc' = "send" /\ message'.key = k)
    PROVE  SureKey(k)'
  <1>1. Rest' = Rest
    BY RestIsBatch
  <1>2. /\ \A m \in Messages : m.key = k => (Holds(queue, m)' <=> Holds(queue, m))
        /\ OneOf(queue, k)'
    <2>1. CASE queue' = queue
      BY <2>1 DEF SureKey, Holds, OneOf
    <2>2. CASE \E n \in Messages, r \in Rules :
                   n.key # k /\ queue' = Append(queue, Letter(n, r))
      <3>1. PICK n \in Messages, r \in Rules :
                   n.key # k /\ queue' = Append(queue, Letter(n, r))
        BY <2>2
      <3>2. queue \in Seq(Letters) /\ Letter(n, r) \in Letters /\ Letter(n, r).message = n
        BY DEF TypeOK, Letter, Letters
      <3>3. QED
        BY <3>1, <3>2, LetterAppended DEF SureKey, Holds, OneOf
    <2>3. QED
      BY <2>1, <2>2
  <1>3. \A m \in Messages : m.key = k => (Kept(m)' <=> Kept(m))
    BY <1>1, <1>2 DEF Kept, Holds
  <1>4. (OneOf(Rest, k) /\ OneOf(still, k)
         /\ ~(HoldsKey(Rest, k) /\ HoldsKey(still, k)))'
    BY <1>1 DEF SureKey, OneOf, HoldsKey
  <1>5. QED
    BY <1>2, <1>3, <1>4, SureFrame

LEMMA SureBeginRoute ==
    ASSUME RouterInv, NEW k \in Keys \ unsure', SureKey(k), hasDb,
           NEW n \in Messages, BeginRoute(n)
    PROVE  SureKey(k)'
  <1>1. pc = "idle" /\ UNCHANGED <<posts, batch, still, sent>> /\ pc' \in {"idle", "query"}
    BY DEF BeginRoute, retryVars
  <1>2. Matching(rules, n) # {} => FirstMatch(rules, n) \in Rules
    BY MatchIsRule DEF RouterInv
  <1>3. \/ queue' = queue
        \/ \E r \in Rules : n.key # k /\ queue' = Append(queue, Letter(n, r))
    BY <1>2 DEF BeginRoute, HandleFailure, Doubt
  <1>4. QED
    BY <1>1, <1>3, SureRouteFrame DEF RouterInv

LEMMA SureQueryInsert ==
    ASSUME RouterInv, NEW k \in Keys \ unsure', SureKey(k), hasDb, Query \/ Insert
    PROVE  SureKey(k)'
  <1>1. /\ pc \in {"query", "insert"} /\ pc' \in {"idle", "insert", "send"}
        /\ UNCHANGED <<queue, batch, still, sent>>
    BY DEF Query, Insert, Goto, Return, retryVars
  <1>2. CASE pc' # "send"
    <2>1. posts' = posts
      BY <1>2 DEF Query, Insert, Goto
    <2>2. QED
      BY <1>1, <1>2, <2>1, SureRouteFrame DEF RouterInv
  <1>3. CASE pc' = "send"
    <2>1. /\ posts' = SavePending(posts, message.key, message.content)
          /\ pc = "insert" /\ message' = message
      BY <1>3 DEF Query, Insert, Goto, Return, routeVars
    <2>2. posts \in Tables /\ message.key \in Keys /\ message.content \in Contents
      BY CurrentType DEF RouterInv, TypeOK
    <2>3. ~HasKey(posts, message.key)
      BY <2>1 DEF RouterInv, CallInv, CallFacts, Exists
    <2>4. CASE k # message.key
      <3>1. posts'[k] = posts[k]
        BY <2>1, <2>2, <2>4, TableOps
      <3>2. QED
        BY <1>1, <1>3, <2>1, <2>4, <3>1, SureRouteFrame DEF RouterInv, HasKey
    <2>5. CASE k = message.key
      <3>1. \A m \in Messages : m.key = k => ~(sent[m] > 0) /\ ~Kept(m)
        BY <2>3, <2>5 DEF RouterInv, RowInv, SureKey
      <3>2. Rest' = Rest
        BY <1>1, <1>3, RestIsBatch
      <3>3. \A m \in Messages : m.key = k => ~(sent'[m] > 0) /\ ~Kept(m)'
        BY <1>1, <3>1, <3>2 DEF Kept, Holds
      <3>4. (OneOf(queue, k) /\ OneOf(Rest, k) /\ OneOf(still, k)
             /\ ~(HoldsKey(Rest, k) /\ HoldsKey(still, k)))'
        BY <1>1, <3>2 DEF SureKey, OneOf, HoldsKey
      <3>5. QED
        BY <3>3, <3>4 DEF SureKey
    <2>6. QED
      BY <2>4, <2>5
  <1>4. QED
    BY <1>2, <1>3

LEMMA SureSend ==
    ASSUME RouterInv, TypeOK', NEW k \in Keys \ unsure', SureKey(k), hasDb, Send
    PROVE  SureKey(k)'
  <1>1. /\ pc = "send" /\ pc' \in {"idle", "mark"} /\ UNCHANGED <<posts, batch, still>>
    BY DEF Send, Goto, Return, retryVars
  <1>2. message \in Messages /\ rule \in Rules
    BY DEF RouterInv, TypeOK
  <1>3. /\ sent' = sent \/ Execute(message)
        /\ queue' = queue \/ queue' = Append(queue, Letter(message, rule))
    BY DEF Send, HandleFailure
  <1>4. CASE k # message.key
    <2>1. \A m \in Messages : m.key = k => sent'[m] = sent[m]
      BY <1>2, <1>3, <1>4, ExecuteType DEF RouterInv
    <2>2. QED
      BY <1>1, <1>2, <1>3, <1>4, <2>1, SureRouteFrame DEF RouterInv
  <1>5. CASE k = message.key
    <2>1. /\ HasKey(posts, k) /\ posts[k].content = message.content
          /\ \A n \in Messages : n.key = k => sent[n] = 0 /\ ~Kept(n)
      BY <1>1, <1>5 DEF RouterInv, CallInv, CallFacts, SureKey
    <2>2. /\ queue \in Seq(Letters) /\ batch \in Seq(Letters) /\ still \in Seq(Letters)
          /\ Rest = batch /\ Rest' = batch
      BY <1>1, RestIsBatch DEF RouterInv, TypeOK
    <2>3. ~HoldsKey(queue, k) /\ ~HoldsKey(batch, k) /\ ~HoldsKey(still, k)
      BY <2>1, <2>2, KeyOfLetter DEF Kept
    <2>4. CASE sent' = sent /\ queue' = queue
      BY <1>1, <2>4, SureRouteFrame DEF RouterInv
    <2>5. CASE Execute(message) /\ queue' = queue
      <3>1. /\ sent'[message] = sent[message] + 1
            /\ \A n \in Messages \ {message} : sent'[n] = sent[n]
        BY <1>2, <2>5, ExecuteType DEF RouterInv
      <3>2. /\ sent'[message] = 1
            /\ \A n \in Messages \ {message} : n.key = k => ~(sent'[n] > 0)
        BY <1>2, <1>5, <2>1, <3>1
      <3>3. \A n \in Messages : n.key = k => ~Kept(n)'
        BY <1>1, <2>1, <2>2, <2>5 DEF Kept, Holds
      <3>4. (OneOf(queue, k) /\ OneOf(Rest, k) /\ OneOf(still, k)
             /\ ~(HoldsKey(Rest, k) /\ HoldsKey(still, k)))'
        BY <1>1, <2>2, <2>5 DEF SureKey, OneOf, HoldsKey
      <3>5. QED
        BY <1>1, <1>2, <2>1, <3>2, <3>3, <3>4 DEF SureKey
    <2>6. CASE sent' = sent /\ queue' = Append(queue, Letter(message, rule))
      <3>1. Letter(message, rule) \in Letters /\ Letter(message, rule).message = message
        BY <1>2 DEF Letter, Letters
      <3>2. (OneOf(queue, k) /\ OneOf(Rest, k) /\ OneOf(still, k)
             /\ ~(HoldsKey(Rest, k) /\ HoldsKey(still, k)))'
        <4>1. OneOf(queue, k)'
          BY <2>2, <2>3, <2>6, <3>1, LetterAppended DEF SureKey, OneOf
        <4>2. QED
          BY <1>1, <2>2, <4>1 DEF SureKey, OneOf, HoldsKey
      <3>3. \A m \in Messages : m.key = k /\ Kept(m)' => m = message
        BY <1>1, <2>1, <2>2, <2>6, <3>1, LetterAppended DEF Kept, Holds
      <3>4. QED
        BY <1>1, <2>1, <2>6, <3>2, <3>3 DEF SureKey
    <2>7. CASE Execute(message) /\ queue' = Append(queue, Letter(message, rule))
      <3>1. message.key \in unsure'
        BY <1>1, <2>7, <1>2, ExecuteType DEF Send, Doubt, HandleFailure, RouterInv, Return
      <3>2. QED
        BY <1>5, <3>1
    <2>8. QED
      BY <1>3, <2>4, <2>5, <2>6, <2>7
  <1>6. QED
    BY <1>4, <1>5

\* A mark, or no change of the table at all, leaves a row's key and content alone.
LEMMA MarkFrame ==
    ASSUME posts \in Tables, NEW j \in Keys, NEW k \in Keys, NEW c \in Contents,
           posts' = posts \/ posts' = MarkPublished(posts, j)
    PROVE  /\ HasKey(posts, k) <=> HasKey(posts', k)
           /\ posts'[k].content = posts[k].content
  <1>1. CASE posts' = posts
    BY <1>1
  <1>2. CASE posts' = MarkPublished(posts, j)
    <2>1. HasKey(posts', k) <=> HasKey(posts, k)
      BY <1>2, TableOps
    <2>2. CASE HasKey(posts, k)
      BY <1>2, <2>2, TableOps
    <2>3. CASE ~HasKey(posts, k)
      BY <1>2, <2>3, TableOps DEF MarkPublished
    <2>4. QED
      BY <2>1, <2>2, <2>3
  <1>3. QED
    BY <1>1, <1>2

LEMMA SureMark ==
    ASSUME RouterInv, NEW k \in Keys \ unsure', SureKey(k), hasDb, MarkRouted
    PROVE  SureKey(k)'
  <1>1. /\ pc = "mark" /\ pc' = "idle" /\ UNCHANGED <<batch, still, sent>>
        /\ posts' = posts \/ posts' = MarkPublished(posts, message.key)
    BY DEF MarkRouted, Return, retryVars
  <1>2. message \in Messages /\ rule \in Rules /\ posts \in Tables
        /\ message.key \in Keys /\ message.content \in Contents
    BY CurrentType DEF RouterInv, TypeOK
  <1>3. \/ queue' = queue
        \/ k # message.key /\ queue' = Append(queue, Letter(message, rule))
    BY DEF MarkRouted, HandleFailure, Doubt
  <1>4. (HasKey(posts, k) <=> HasKey(posts', k)) /\ posts'[k].content = posts[k].content
    BY <1>1, <1>2, MarkFrame
  <1>5. QED
    BY <1>1, <1>2, <1>3, <1>4, SureRouteFrame DEF RouterInv

\* A step of a retry that moves letters of a key but neither its row nor its sends.
LEMMA SureRetryFrame ==
    ASSUME NEW k, SureKey(k),
           \/ UNCHANGED <<queue, Rest, still>>
           \/ <<queue, Rest, still>>' = <<<<>>, queue, <<>>>>
           \/ <<queue, Rest, still>>' = <<still, <<>>, <<>>>>
           \/ <<queue, Rest, still>>' = <<<<>>, <<>>, <<>>>>
           \/ /\ batch \in Seq(Letters) /\ batch # <<>> /\ still \in Seq(Letters)
              /\ Rest = batch /\ queue' = queue
              /\ Rest' = Tail(batch) /\ still' = Append(still, Current),
           \A m \in Messages : m.key = k => sent'[m] = sent[m],
           HasKey(posts, k) => HasKey(posts', k),
           posts'[k].content = posts[k].content,
           pc' # "send"
    PROVE  SureKey(k)'
  <1>1. /\ \A m \in Messages : Kept(m)' => Kept(m)
        /\ (OneOf(queue, k) /\ OneOf(Rest, k) /\ OneOf(still, k))'
        /\ ~(HoldsKey(Rest, k) /\ HoldsKey(still, k))'
    <2>1. CASE UNCHANGED <<queue, Rest, still>>
      BY <2>1 DEF SureKey, Kept, Holds, OneOf, HoldsKey
    <2>2. CASE <<queue, Rest, still>>' = <<<<>>, queue, <<>>>>
      BY <2>2, NoLetters DEF SureKey, Kept, Holds, OneOf, HoldsKey
    <2>3. CASE <<queue, Rest, still>>' = <<still, <<>>, <<>>>>
      BY <2>3, NoLetters DEF SureKey, Kept, Holds, OneOf, HoldsKey
    <2>4. CASE <<queue, Rest, still>>' = <<<<>>, <<>>, <<>>>>
      BY <2>4, NoLetters DEF SureKey, Kept, Holds, OneOf, HoldsKey
    <2>5. CASE /\ batch \in Seq(Letters) /\ batch # <<>> /\ still \in Seq(Letters)
               /\ Rest = batch /\ queue' = queue
               /\ Rest' = Tail(batch) /\ still' = Append(still, Current)
      <3>1. \A m \in Messages : Holds(Tail(batch), m) \/ Holds(Append(still, Current), m)
                                => Holds(batch, m) \/ Holds(still, m)
        BY <2>5, LetterMoved DEF Current
      <3>2. \A m \in Messages : Kept(m)' => Kept(m)
        BY <2>5, <3>1 DEF Kept, Holds
      <3>3. /\ OneOf(Tail(batch), k) /\ OneOf(Append(still, Current), k)
            /\ ~(HoldsKey(Tail(batch), k) /\ HoldsKey(Append(still, Current), k))
        BY <2>5, LetterMoved DEF Current, SureKey
      <3>4. OneOf(queue, k)'
        BY <2>5 DEF SureKey, OneOf
      <3>5. (OneOf(Rest, k) /\ OneOf(still, k) /\ ~(HoldsKey(Rest, k) /\ HoldsKey(still, k)))'
        BY <2>5, <3>3 DEF OneOf, HoldsKey
      <3>6. QED
        BY <3>2, <3>4, <3>5
    <2>6. QED
      BY <2>1, <2>2, <2>3, <2>4, <2>5
  <1>2. QED
    BY <1>1, SureFrame

LEMMA SureBatch ==
    ASSUME RouterInv, NEW k \in Keys \ unsure', SureKey(k), hasDb,
           BeginRetry \/ RetryNext \/ EndRetry
    PROVE  SureKey(k)'
  <1>1. UNCHANGED <<posts, sent>> /\ pc # "remark" /\ pc' # "remark" /\ pc' # "send"
    BY DEF BeginRetry, RetryNext, EndRetry, KeepFailed, Return
  <1>2. Rest = batch /\ Rest' = batch'
    BY <1>1, RestIsBatch
  <1>3. batch \in Seq(Letters) /\ still \in Seq(Letters)
    BY DEF RouterInv, TypeOK
  <1>4. CASE BeginRetry
    <2>1. <<queue, Rest, still>>' = <<<<>>, queue, <<>>>>
      BY <1>2, <1>4 DEF BeginRetry
    <2>2. QED
      BY <1>1, <2>1, SureRetryFrame
  <1>5. CASE RetryNext
    <2>1. \/ UNCHANGED <<queue, Rest, still>>
          \/ batch # <<>> /\ queue' = queue /\ Rest' = Tail(batch) /\ still' = Append(still, Current)
      BY <1>2, <1>5 DEF RetryNext, KeepFailed, retryVars
    <2>2. QED
      BY <1>1, <1>2, <1>3, <2>1, SureRetryFrame
  <1>6. CASE EndRetry
    <2>1. <<queue, Rest, still>>' = <<still, <<>>, <<>>>>
      BY <1>2, <1>6 DEF EndRetry
    <2>2. QED
      BY <1>1, <2>1, SureRetryFrame
  <1>7. QED
    BY <1>4, <1>5, <1>6

\* The letter a retry is at: its key, and what the invariant says of it when it is sure.
LEMMA AtLetter ==
    ASSUME RouterInv, pc \in {"requery", "reinsert", "resend", "remark"}
    PROVE  /\ batch # <<>> /\ batch \in Seq(Letters) /\ still \in Seq(Letters)
           /\ Current \in Letters /\ Current.message \in Messages
           /\ Current.message.key \in Keys /\ Current.message.content \in Contents
           /\ Holds(batch, Current.message) /\ HoldsKey(batch, Current.message.key)
           /\ pc # "remark" => Kept(Current.message)
           /\ queue = <<>> /\ posts \in Tables
  <1>1. /\ batch # <<>> /\ batch \in Seq(Letters) /\ still \in Seq(Letters)
        /\ queue = <<>> /\ posts \in Tables
    BY DEF RouterInv, TypeOK, CallInv, CallFacts, Routing
  <1>2. /\ Current \in Letters /\ Current.message \in Messages
        /\ Current.message.key \in Keys /\ Current.message.content \in Contents
    BY <1>1, CurrentType DEF RouterInv
  <1>3. Holds(batch, Current.message) /\ HoldsKey(batch, Current.message.key)
    BY <1>1, LetterTaken DEF Current
  <1>4. pc # "remark" => Kept(Current.message)
    BY <1>3, RestIsBatch DEF Kept
  <1>5. QED
    BY <1>1, <1>2, <1>3, <1>4

LEMMA SureRequery ==
    ASSUME RouterInv, NEW k \in Keys \ unsure', SureKey(k), hasDb, Requery \/ Reinsert
    PROVE  SureKey(k)'
  <1>1. /\ pc \in {"requery", "reinsert"} /\ pc' \in {"idle", "resend", "reinsert"}
        /\ UNCHANGED <<queue, sent>>
    BY DEF Requery, Reinsert, LoseBatch, Return
  <1>2. Rest = batch /\ Rest' = batch'
    BY <1>1, RestIsBatch
  <1>3. \/ UNCHANGED <<queue, Rest, still>>
        \/ <<queue, Rest, still>>' = <<<<>>, <<>>, <<>>>>
    BY <1>1, <1>2, AtLetter DEF Requery, Reinsert, LoseBatch, retryVars
  <1>4. posts'[k] = posts[k]
    <2>1. CASE posts' = posts
      BY <2>1
    <2>2. CASE Reinsert /\ posts' = SavePending(posts, Current.message.key, Current.message.content)
      <3>1. ~HasKey(posts, Current.message.key)
        BY <2>2 DEF Reinsert, RouterInv, CallInv, CallFacts
      <3>2. k # Current.message.key
        BY <1>1, <3>1, AtLetter DEF SureKey
      <3>3. QED
        BY <1>1, <2>2, <3>2, AtLetter, TableOps
    <2>3. QED
      BY <2>1, <2>2 DEF Requery, Reinsert
  <1>5. QED
    BY <1>1, <1>3, <1>4, SureRetryFrame DEF HasKey

LEMMA SureResend ==
    ASSUME RouterInv, NEW k \in Keys \ unsure', SureKey(k), hasDb, Resend
    PROVE  SureKey(k)'
  <1>1. pc = "resend" /\ pc' \in {"remark", "retry"} /\ UNCHANGED <<queue, posts>>
    BY DEF Resend, KeepFailed, Done
  <1>2. Rest = batch /\ Current.message \in Messages
    BY <1>1, RestIsBatch, AtLetter
  <1>3. CASE KeepFailed
    <2>1. /\ Rest' = Tail(batch) /\ still' = Append(still, Current)
      BY <1>3, RestIsBatch DEF KeepFailed
    <2>2. \A m \in Messages : m.key = k => sent'[m] = sent[m]
      <3>1. CASE sent' = sent
        BY <3>1
      <3>2. CASE Execute(Current.message) /\ Doubt(Current.message.key)
        BY <1>2, <3>2, ExecuteType DEF Doubt, RouterInv
      <3>3. QED
        BY <1>1, <1>3, <3>1, <3>2 DEF Resend, KeepFailed, Done
    <2>3. QED
      BY <1>1, <1>2, <2>1, <2>2, AtLetter, SureRetryFrame
  <1>4. CASE Execute(Current.message) /\ pc' = "remark" /\ UNCHANGED retryVars
    <2>1. Rest' = Tail(batch) /\ still' = still
      BY <1>4, RestIsBatch DEF retryVars
    <2>2. /\ sent'[Current.message] = sent[Current.message] + 1
          /\ \A n \in Messages \ {Current.message} : sent'[n] = sent[n]
      BY <1>2, <1>4, ExecuteType DEF RouterInv
    <2>3. /\ \A m : Holds(Tail(batch), m) => Holds(batch, m)
          /\ HoldsKey(Tail(batch), k) => HoldsKey(batch, k)
          /\ OneOf(Tail(batch), k)
          /\ k = Current.message.key => ~HoldsKey(Tail(batch), k)
      BY <1>1, <1>2, AtLetter, LetterTaken DEF SureKey, Current
    <2>4. \A m \in Messages : Kept(m)' => Kept(m)
      BY <1>1, <1>2, <2>1, <2>3 DEF Kept, Holds
    <2>5. (OneOf(queue, k) /\ OneOf(Rest, k) /\ OneOf(still, k)
           /\ ~(HoldsKey(Rest, k) /\ HoldsKey(still, k)))'
      BY <1>1, <1>2, <2>1, <2>3 DEF SureKey, OneOf, HoldsKey
    <2>6. CASE k # Current.message.key
      BY <1>1, <1>4, <2>2, <2>4, <2>5, <2>6, SureFrame
    <2>7. CASE k = Current.message.key
      <3>1. /\ HasKey(posts, k) /\ posts[k].content = Current.message.content
            /\ \A n \in Messages : n.key = k => sent[n] = 0
        BY <1>1, <1>2, <2>7, AtLetter DEF SureKey
      <3>2. /\ sent'[Current.message] = 1
            /\ \A n \in Messages \ {Current.message} : n.key = k => ~(sent'[n] > 0)
        BY <1>2, <2>2, <2>7, <3>1
      <3>3. ~HoldsKey(Rest', k) /\ ~HoldsKey(still', k) /\ ~HoldsKey(queue', k)
        BY <1>1, <1>2, <2>1, <2>3, <2>7, AtLetter, NoLetters DEF SureKey
      <3>4. \A n \in Messages : n.key = k => ~Kept(n)'
        BY <3>3 DEF Kept, Holds, HoldsKey
      <3>5. QED
        BY <1>1, <1>2, <2>5, <3>1, <3>2, <3>4 DEF SureKey
    <2>8. QED
      BY <2>6, <2>7
  <1>5. QED
    BY <1>3, <1>4 DEF Resend

LEMMA SureRemark ==
    ASSUME RouterInv, NEW k \in Keys \ unsure', SureKey(k), hasDb, Remark
    PROVE  SureKey(k)'
  <1>1. pc = "remark" /\ pc' = "retry" /\ UNCHANGED <<queue, sent>> /\ batch' = Tail(batch)
    BY DEF Remark, Done, KeepFailed
  <1>2. Rest = Tail(batch) /\ Rest' = Tail(batch)
    BY <1>1, RestIsBatch
  <1>3. CASE still' = still
    <2>1. posts' = posts \/ posts' = MarkPublished(posts, Current.message.key)
      BY DEF Remark
    <2>2. (HasKey(posts, k) <=> HasKey(posts', k)) /\ posts'[k].content = posts[k].content
      BY <1>1, <2>1, AtLetter, MarkFrame
    <2>3. QED
      BY <1>1, <1>2, <1>3, <2>2, SureRetryFrame
  <1>4. CASE still' # still
    <2>1. /\ still' = Append(still, Current) /\ posts' = posts /\ k # Current.message.key
      BY <1>4 DEF Remark, Done, KeepFailed, Doubt
    <2>2. /\ \A m : Holds(still', m) <=> Holds(still, m) \/ m = Current.message
          /\ HoldsKey(still', k) <=> HoldsKey(still, k)
          /\ OneOf(still, k) => OneOf(still', k)
      BY <1>1, <2>1, AtLetter, LetterAppended
    <2>3. \A m \in Messages : m.key = k => (Kept(m)' => Kept(m))
      BY <1>1, <1>2, <2>1, <2>2 DEF Kept, Holds
    <2>4. (OneOf(queue, k) /\ OneOf(Rest, k) /\ OneOf(still, k)
           /\ ~(HoldsKey(Rest, k) /\ HoldsKey(still, k)))'
      BY <1>1, <1>2, <2>2 DEF SureKey, OneOf, HoldsKey
    <2>5. QED
      BY <1>1, <2>1, <2>3, <2>4, SureFrame
  <1>5. QED
    BY <1>3, <1>4

LEMMA SetupAndDoubtsStay ==
    ASSUME TypeOK, [Next]_vars
    PROVE  hasDb' = hasDb /\ unsure \subseteq unsure'
  BY DEF Next, CallStep, RegisterTransport, AddRule, BeginRoute, Query, Insert, Send, MarkRouted,
         BeginRetry, RetryNext, EndRetry, Requery, Reinsert, Resend, Remark, Doubt, setupVars, vars

LEMMA SureStep ==
    ASSUME RouterInv, TypeOK', [Next]_vars
    PROVE  SureInv'
  <1>1. SUFFICES ASSUME hasDb, NEW k \in Keys \ unsure' PROVE SureKey(k)'
    BY SetupAndDoubtsStay DEF SureInv, RouterInv
  <1>2. SureKey(k) /\ k \in Keys \ unsure'
    BY <1>1, SetupAndDoubtsStay DEF SureInv, RouterInv
  <1>3. CASE UNCHANGED vars
    BY <1>2, <1>3, SureSetup DEF vars, retryVars, routeVars
  <1>4. CASE \E t \in Transports : RegisterTransport(t)
    BY <1>2, <1>4, SureSetup DEF RegisterTransport, retryVars, routeVars
  <1>5. CASE \E new \in Rules : AddRule(new)
    BY <1>2, <1>5, SureSetup DEF AddRule, retryVars, routeVars
  <1>6. CASE \E m \in Messages : BeginRoute(m)
    BY <1>1, <1>2, <1>6, SureBeginRoute
  <1>7. CASE BeginRetry \/ RetryNext \/ EndRetry
    BY <1>1, <1>2, <1>7, SureBatch
  <1>8. CASE Query \/ Insert
    BY <1>1, <1>2, <1>8, SureQueryInsert
  <1>9. CASE Send
    BY <1>1, <1>2, <1>9, SureSend
  <1>10. CASE MarkRouted
    BY <1>1, <1>2, <1>10, SureMark
  <1>11. CASE Requery \/ Reinsert
    BY <1>1, <1>2, <1>11, SureRequery
  <1>12. CASE Resend
    BY <1>1, <1>2, <1>12, SureResend
  <1>13. CASE Remark
    BY <1>1, <1>2, <1>13, SureRemark
  <1>14. QED
    BY <1>3, <1>4, <1>5, <1>6, <1>7, <1>8, <1>9, <1>10, <1>11, <1>12, <1>13 DEF Next, CallStep

----------------------------------------------------------------------------
(* The table and the sends *)

\* What a step does to the table: it saves the row of a key that has none, it marks
\* the row of a key that was sent, or nothing.
TableStep ==
    \/ posts' = posts
    \/ \E m \in Messages :
          /\ ~HasKey(posts, m.key)
          /\ posts' = SavePending(posts, m.key, m.content)
          /\ hasDb => \/ ~HasContent(posts, m.content)
                      \/ m.key \in unsure
    \/ \E m \in Messages :
          sent[m] > 0 /\ posts' = MarkPublished(posts, m.key)

LEMMA TableSteps ==
    ASSUME RouterInv, [Next]_vars
    PROVE  TableStep
  <1>1. CASE Insert
    <2>1. message \in Messages /\ (pc = "insert" => ~Exists(posts, message.key, message.content))
      BY DEF RouterInv, TypeOK, CallInv, CallFacts
    <2>2. QED
      BY <1>1, <2>1 DEF Insert, Exists, TableStep
  <1>2. CASE MarkRouted
    <2>1. message \in Messages /\ (pc = "mark" => sent[message] > 0)
      BY DEF RouterInv, TypeOK, CallInv, CallFacts
    <2>2. QED
      BY <1>2, <2>1 DEF MarkRouted, TableStep
  <1>3. CASE Reinsert
    <2>1. pc = "reinsert"
      BY <1>3 DEF Reinsert
    <2>2. /\ Current.message \in Messages /\ Current.message.key \in Keys
          /\ ~HasKey(posts, Current.message.key) /\ Kept(Current.message)
      BY <2>1, AtLetter DEF RouterInv, CallInv, CallFacts
    <2>3. hasDb => Current.message.key \in unsure
      BY <2>2 DEF RouterInv, SureInv, SureKey
    <2>4. QED
      BY <1>3, <2>2, <2>3 DEF Reinsert, TableStep
  <1>4. CASE Remark
    <2>1. pc = "remark"
      BY <1>4 DEF Remark
    <2>2. Current.message \in Messages /\ sent[Current.message] > 0
      BY <2>1, AtLetter DEF RouterInv, CallInv, CallFacts
    <2>3. QED
      BY <1>4, <2>2 DEF Remark, TableStep
  <1>5. CASE ~(Insert \/ MarkRouted \/ Reinsert \/ Remark)
    <2>1. posts' = posts
      BY <1>5 DEF Next, CallStep, RegisterTransport, AddRule, BeginRoute, Query, Send, BeginRetry,
                  RetryNext, EndRetry, Requery, Resend, vars
    <2>2. QED
      BY <2>1 DEF TableStep
  <1>6. QED
    BY <1>1, <1>2, <1>3, <1>4, <1>5

\* What a step does to the sends: one more of a message that, with a Database, has
\* a row; or nothing.
LEMMA SendSteps ==
    ASSUME RouterInv, [Next]_vars
    PROVE  \/ sent' = sent
           \/ \E m \in Messages : Execute(m) /\ (hasDb => HasKey(posts, m.key))
  <1>1. CASE Send
    <2>1. message \in Messages /\ (pc = "send" /\ hasDb => HasKey(posts, message.key))
      BY DEF RouterInv, TypeOK, CallInv, CallFacts
    <2>2. QED
      BY <1>1, <2>1 DEF Send
  <1>2. CASE Resend
    <2>1. pc = "resend"
      BY <1>2 DEF Resend
    <2>2. Current.message \in Messages /\ (hasDb => HasKey(posts, Current.message.key))
      BY <2>1, AtLetter DEF RouterInv, CallInv, CallFacts
    <2>3. QED
      BY <1>2, <2>2 DEF Resend
  <1>3. CASE ~(Send \/ Resend)
    BY <1>3 DEF Next, CallStep, RegisterTransport, AddRule, BeginRoute, Query, Insert, MarkRouted,
                BeginRetry, RetryNext, EndRetry, Requery, Reinsert, Remark, vars
  <1>4. QED
    BY <1>1, <1>2, <1>3

LEMMA SendsGrow ==
    ASSUME RouterInv, [Next]_vars
    PROVE  \A n \in Messages : sent[n] > 0 => sent'[n] > 0
  <1>1. \A n \in Messages : sent[n] \in Nat
    BY DEF RouterInv, TypeOK
  <1>2. CASE sent' = sent
    BY <1>2
  <1>3. CASE \E m \in Messages : Execute(m)
    BY <1>1, <1>3, ExecuteType DEF RouterInv
  <1>4. QED
    BY <1>2, <1>3, SendSteps

LEMMA RowStep ==
    ASSUME RouterInv, TypeOK', [Next]_vars
    PROVE  RowInv' /\ PublishedWasSent'
           /\ \A k \in Keys : IsPublished(posts, k) => IsPublished(posts', k)
  <1>0. hasDb' = hasDb /\ unsure \subseteq unsure'
    BY SetupAndDoubtsStay DEF RouterInv
  <1>1. /\ posts \in Tables /\ \A m \in Messages : m.key \in Keys /\ m.content \in Contents
        /\ \A n \in Messages : sent[n] \in Nat
    BY CurrentType DEF RouterInv, TypeOK
  <1>2. /\ \A k \in Keys : HasKey(posts, k) => HasKey(posts', k)
        /\ \A k \in Keys : IsPublished(posts, k) => IsPublished(posts', k)
        /\ \A k \in Keys : IsPublished(posts', k) =>
              IsPublished(posts, k) \/ \E m \in Messages : m.key = k /\ sent[m] > 0
    <2>1. CASE posts' = posts
      BY <2>1
    <2>2. ASSUME NEW m \in Messages, ~HasKey(posts, m.key),
                 posts' = SavePending(posts, m.key, m.content)
          PROVE  <1>2
      <3>1. \A k \in Keys \ {m.key} : posts'[k] = posts[k]
        BY <1>1, <2>2, TableOps
      <3>2. ~IsPublished(posts', m.key) /\ HasKey(posts', m.key)
        BY <1>1, <2>2, TableOps
      <3>3. QED
        BY <2>2, <3>1, <3>2 DEF HasKey, IsPublished
    <2>3. ASSUME NEW m \in Messages, sent[m] > 0, posts' = MarkPublished(posts, m.key)
          PROVE  <1>2
      <3>1. \A k \in Keys \ {m.key} : posts'[k] = posts[k]
        BY <1>1, <2>3, TableOps
      <3>2. \A k \in Keys : /\ HasKey(posts, k) => HasKey(posts', k)
                            /\ IsPublished(posts, k) => IsPublished(posts', k)
        BY <1>1, <2>3, TableOps
      <3>3. QED
        BY <2>3, <3>1, <3>2 DEF HasKey, IsPublished
    <2>4. QED
      BY <2>1, <2>2, <2>3, TableSteps DEF TableStep
  <1>3. PublishedWasSent'
    BY <1>2, SendsGrow DEF PublishedWasSent, RouterInv
  <1>4. ASSUME hasDb, NEW n \in Messages, sent'[n] > 0
        PROVE  HasKey(posts', n.key)
    <2>1. HasKey(posts, n.key)
      BY <1>1, <1>4, SendSteps, ExecuteType DEF RouterInv, RowInv
    <2>2. QED
      BY <1>1, <1>2, <2>1
  <1>5. ASSUME hasDb, NEW j \in Keys \ unsure', NEW k \in Keys \ unsure',
               HasKey(posts', j), HasKey(posts', k), posts'[j].content = posts'[k].content
        PROVE  j = k
    <2>1. j \in Keys \ unsure /\ k \in Keys \ unsure
      BY <1>0
    <2>2. CASE posts' = posts
      BY <1>5, <2>1, <2>2 DEF RouterInv, RowInv
    <2>3. ASSUME NEW m \in Messages, ~HasKey(posts, m.key),
                 posts' = SavePending(posts, m.key, m.content),
                 ~HasContent(posts, m.content) \/ m.key \in unsure
          PROVE  j = k
      <3> DEFINE saved == SavePending(posts, m.key, m.content)
      <3>1. saved[m.key].content = m.content /\ \A i \in Keys \ {m.key} : saved[i] = posts[i]
        <4>1. posts \in Tables /\ m.key \in Keys /\ m.content \in Contents
          BY <1>1
        <4>2. QED
          BY <4>1, RowSaved
      <3>2. posts'[m.key].content = m.content /\ \A i \in Keys \ {m.key} : posts'[i] = posts[i]
        BY <2>3, <3>1
      <3>3. \A i \in Keys \ {m.key} : HasKey(posts', i) <=> HasKey(posts, i)
        BY <3>2 DEF HasKey
      <3>4. CASE m.key \in unsure
        BY <1>5, <2>1, <3>2, <3>3, <3>4 DEF RouterInv, RowInv
      <3>5. CASE ~HasContent(posts, m.content)
        BY <1>5, <2>1, <3>2, <3>3, <3>5 DEF RouterInv, RowInv, HasContent
      <3>6. QED
        BY <2>3, <3>4, <3>5
    <2>4. ASSUME NEW m \in Messages, posts' = MarkPublished(posts, m.key)
          PROVE  j = k
      <3>1. \A i \in Keys : /\ HasKey(posts, i) <=> HasKey(posts', i)
                            /\ posts'[i].content = posts[i].content
        BY <1>1, <2>4, MarkFrame
      <3>2. QED
        BY <1>5, <2>1, <3>1 DEF RouterInv, RowInv
    <2>5. QED
      BY <1>5, <2>2, <2>3, <2>4, TableSteps DEF TableStep
  <1>6. RowInv'
    BY <1>0, <1>4, <1>5 DEF RowInv
  <1>7. QED
    BY <1>2, <1>3, <1>6

----------------------------------------------------------------------------
(* What the calls know *)

LEMMA QueueStep ==
    ASSUME RouterInv, [Next]_vars
    PROVE  /\ pc' \in Routing => batch' = <<>> /\ still' = <<>>
           /\ pc' \notin Routing => queue' = <<>>
           /\ pc' \in {"query", "insert", "mark", "requery", "reinsert", "remark"} => hasDb
  <1> USE DEF RouterInv, CallInv, CallFacts, Routing
  <1>1. CASE UNCHANGED vars
    BY <1>1 DEF vars, retryVars
  <1>2. CASE \E t \in Transports : RegisterTransport(t)
    BY <1>2 DEF RegisterTransport, retryVars
  <1>3. CASE \E new \in Rules : AddRule(new)
    BY <1>3 DEF AddRule, retryVars
  <1>4. CASE \E m \in Messages : BeginRoute(m)
    BY <1>4 DEF BeginRoute, retryVars
  <1>5. CASE Query \/ Insert \/ Send \/ MarkRouted
    BY <1>5 DEF Query, Insert, Send, MarkRouted, Goto, Return, retryVars
  <1>6. CASE BeginRetry \/ EndRetry
    BY <1>6 DEF BeginRetry, EndRetry, Return
  <1>7. CASE RetryNext
    BY <1>7 DEF RetryNext, KeepFailed
  <1>8. CASE Requery \/ Reinsert
    BY <1>8 DEF Requery, Reinsert, LoseBatch, Return
  <1>9. CASE Resend \/ Remark
    BY <1>9 DEF Resend, Remark, KeepFailed, Done
  <1>10. QED
    BY <1>1, <1>2, <1>3, <1>4, <1>5, <1>6, <1>7, <1>8, <1>9 DEF Next, CallStep

LEMMA FactsQuiet ==
    ASSUME CallFacts,
           UNCHANGED <<hasDb, posts, message, batch, sent, unsure>>,
           pc' = pc \/ pc' \in {"idle", "query", "retry", "requery"}
    PROVE  CallFacts'
  <1>1. Current' = Current
    BY DEF Current
  <1>2. QED
    BY <1>1 DEF CallFacts

LEMMA FactsInsert ==
    ASSUME RouterInv, Insert
    PROVE  CallFacts'
  <1>1. pc = "insert" /\ hasDb' = hasDb /\ unsure' = unsure /\ sent' = sent
        /\ pc' \in {"idle", "send"}
    BY DEF Insert, setupVars, Goto, Return
  <1>2. CASE pc' = "idle"
    BY <1>2 DEF CallFacts
  <1>3. CASE pc' = "send"
    <2>1. message' = message /\ posts' = SavePending(posts, message.key, message.content)
      BY <1>3 DEF Insert, Goto, Return, routeVars
    <2>2. /\ posts \in Tables /\ message \in Messages
          /\ message.key \in Keys /\ message.content \in Contents
          /\ \A n \in Messages : n.key \in Keys /\ sent[n] \in Nat
      BY CurrentType DEF RouterInv, TypeOK
    <2>3. HasKey(posts', message.key) /\ posts'[message.key].content = message.content
      BY <2>1, <2>2, TableOps
    <2>4. ~HasKey(posts, message.key) /\ ~HasContent(posts, message.content) /\ hasDb
      BY <1>1 DEF RouterInv, CallInv, CallFacts, Exists
    <2>5. ASSUME NEW n \in Messages,
                 \/ n.key = message.key
                 \/ n.content = message.content /\ n.key \notin unsure
          PROVE  sent[n] = 0
      <3>1. CASE n.key = message.key
        BY <2>2, <2>4, <3>1 DEF RouterInv, RowInv
      <3>2. CASE n.content = message.content /\ n.key \notin unsure
        <4>1. SUFFICES ASSUME sent[n] > 0 PROVE FALSE
          BY <2>2
        <4>2. HasKey(posts, n.key) /\ SureKey(n.key)
          BY <2>2, <2>4, <3>2, <4>1 DEF RouterInv, RowInv, SureInv
        <4>3. posts[n.key].content = message.content
          BY <3>2, <4>1, <4>2 DEF SureKey
        <4>4. QED
          BY <2>2, <2>4, <4>2, <4>3 DEF HasContent
      <3>3. QED
        BY <2>5, <3>1, <3>2
    <2>6. QED
      BY <1>1, <1>3, <2>1, <2>3, <2>5 DEF CallFacts
  <1>4. QED
    BY <1>1, <1>2, <1>3

LEMMA FactsRetry ==
    ASSUME RouterInv, TypeOK', [Next]_vars, Requery \/ Reinsert \/ Resend \/ Remark
    PROVE  CallFacts'
  <1>1. CASE Requery
    <2>1. CASE LoseBatch
      BY <2>1 DEF LoseBatch, Return, CallFacts
    <2>2. CASE ~LoseBatch
      BY <1>1, <2>2 DEF Requery, CallFacts, Current, retryVars, setupVars
    <2>3. QED
      BY <2>1, <2>2
  <1>2. CASE Reinsert
    <2>1. CASE LoseBatch
      BY <2>1 DEF LoseBatch, Return, CallFacts
    <2>2. CASE ~LoseBatch
      <3>1. /\ pc = "reinsert" /\ pc' = "resend" /\ UNCHANGED retryVars
            /\ posts' = SavePending(posts, Current.message.key, Current.message.content)
        BY <1>2, <2>2 DEF Reinsert
      <3>2. HasKey(posts', Current.message.key)
        BY <3>1, AtLetter, TableOps
      <3>3. Current' = Current
        BY <3>1 DEF Current, retryVars
      <3>4. QED
        BY <3>1, <3>2, <3>3 DEF CallFacts
    <2>3. QED
      BY <2>1, <2>2
  <1>3. CASE Resend
    <2>1. CASE pc' = "retry"
      BY <2>1 DEF CallFacts
    <2>2. CASE pc' # "retry"
      <3>1. /\ pc = "resend" /\ pc' = "remark" /\ UNCHANGED <<posts, batch>>
            /\ Execute(Current.message) /\ hasDb' = hasDb
        BY <1>3, <2>2 DEF Resend, Done, KeepFailed, retryVars, setupVars
      <3>2. Current' = Current
        BY <3>1 DEF Current
      <3>3. sent'[Current.message] = sent[Current.message] + 1
            /\ sent[Current.message] \in Nat
        BY <3>1, AtLetter, ExecuteType DEF RouterInv, TypeOK
      <3>4. hasDb => HasKey(posts', Current.message.key)
        BY <3>1 DEF RouterInv, CallInv, CallFacts
      <3>5. sent'[Current.message] > 0
        BY <3>3
      <3>6. QED
        BY <3>1, <3>2, <3>4, <3>5 DEF CallFacts
    <2>3. QED
      BY <2>1, <2>2
  <1>4. CASE Remark
    <2>1. pc' = "retry"
      BY <1>4 DEF Remark, Done, KeepFailed
    <2>2. QED
      BY <2>1 DEF CallFacts
  <1>5. QED
    BY <1>1, <1>2, <1>3, <1>4

LEMMA CallsKnow ==
    ASSUME RouterInv, TypeOK', [Next]_vars
    PROVE  CallInv'
  <1>1. CallFacts
    BY DEF CallFacts, RouterInv, CallInv
  <1>2. CallFacts'
    <2>1. CASE UNCHANGED vars
      BY <1>1, <2>1, FactsQuiet DEF vars, setupVars, routeVars, retryVars
    <2>2. CASE (\E t \in Transports : RegisterTransport(t)) \/ \E new \in Rules : AddRule(new)
      BY <1>1, <2>2, FactsQuiet DEF RegisterTransport, AddRule, routeVars, retryVars
    <2>3. CASE \E m \in Messages : BeginRoute(m)
      <3>1. pc' \in {"idle", "query"} \/ (pc' = "send" /\ ~hasDb /\ hasDb' = hasDb)
        BY <2>3 DEF BeginRoute, setupVars
      <3>2. QED
        BY <3>1 DEF CallFacts
    <2>4. CASE Query
      <3>1. pc' = "idle" \/ (pc' = "insert" /\ UNCHANGED <<posts, message>>
                             /\ ~Exists(posts, message.key, message.content))
        BY <2>4 DEF Query, Goto, Return, routeVars
      <3>2. QED
        BY <3>1 DEF CallFacts
    <2>5. CASE Insert
      BY <2>5, FactsInsert
    <2>6. CASE Send \/ MarkRouted
      <3>1. CASE pc' = "idle"
        BY <3>1 DEF CallFacts
      <3>2. CASE pc' # "idle"
        <4>1. pc' = "mark" /\ message' = message /\ Execute(message) /\ message \in Messages
          BY <2>6, <3>2 DEF Send, MarkRouted, Goto, Return, routeVars, RouterInv, TypeOK
        <4>2. sent'[message] = sent[message] + 1 /\ sent[message] \in Nat
          BY <4>1, ExecuteType DEF RouterInv, TypeOK
        <4>3. sent'[message'] > 0
          BY <4>1, <4>2
        <4>4. QED
          BY <4>1, <4>3 DEF CallFacts
      <3>3. QED
        BY <3>1, <3>2
    <2>7. CASE BeginRetry \/ EndRetry
      <3>1. pc' \in {"retry", "idle"}
        BY <2>7 DEF BeginRetry, EndRetry, Return
      <3>2. QED
        BY <3>1 DEF CallFacts
    <2>8. CASE RetryNext
      <3>1. pc' \in {"retry", "requery"} \/ (pc' = "resend" /\ ~hasDb /\ hasDb' = hasDb)
        BY <2>8 DEF RetryNext, KeepFailed, setupVars
      <3>2. QED
        BY <3>1 DEF CallFacts
    <2>9. CASE Requery \/ Reinsert \/ Resend \/ Remark
      BY <2>9, FactsRetry
    <2>10. QED
      BY <2>1, <2>2, <2>3, <2>4, <2>5, <2>6, <2>7, <2>8, <2>9 DEF Next, CallStep
  <1>3. hasDb' = hasDb
    BY SetupAndDoubtsStay DEF RouterInv
  <1>4. QED
    BY <1>2, <1>3, QueueStep DEF CallInv, CallFacts

----------------------------------------------------------------------------
(* Dead letters *)

LEMMA LettersStay ==
    ASSUME RouterInv, TypeOK', [Next]_vars, NEW m \in Messages, Waiting(m), ~dbRaised'
    PROVE  Waiting(m)' \/ sent'[m] > 0
  <1>1. \A n : Waiting(n) <=> Holds(queue, n) \/ Holds(batch, n) \/ Holds(still, n)
    BY DEF Waiting, Holds
  <1>2. \A n : Waiting(n)' <=> Holds(queue', n) \/ Holds(batch', n) \/ Holds(still', n)
    BY DEF Waiting, Holds
  <1>3. queue \in Seq(Letters) /\ batch \in Seq(Letters) /\ still \in Seq(Letters)
    BY DEF RouterInv, TypeOK
  <1>4. CASE /\ UNCHANGED <<batch, still>>
             /\ queue' = queue \/ \E l \in Letters : queue' = Append(queue, l)
    <2>1. Holds(queue, m) => Holds(queue', m)
      <3>1. CASE queue' = queue
        BY <3>1
      <3>2. CASE \E l \in Letters : queue' = Append(queue, l)
        BY <1>3, <3>2, LetterAppended
      <3>3. QED
        BY <1>4, <3>1, <3>2
    <2>2. QED
      BY <1>1, <1>2, <1>4, <2>1
  <1>5. CASE batch # <<>> /\ queue' = queue /\ KeepFailed
    <2>1. batch' = Tail(batch) /\ still' = Append(still, Head(batch))
      BY <1>5 DEF KeepFailed, Current
    <2>2. QED
      BY <1>1, <1>2, <1>3, <1>5, <2>1, LetterMoved
  <1>6. CASE /\ batch # <<>> /\ queue' = queue /\ still' = still /\ batch' = Tail(batch)
             /\ sent'[Current.message] > 0
    BY <1>1, <1>2, <1>3, <1>6, LetterTaken DEF Current
  <1>7. CASE (\E t \in Transports : RegisterTransport(t)) \/ \E new \in Rules : AddRule(new)
    BY <1>4, <1>7 DEF RegisterTransport, AddRule, retryVars
  <1>8. CASE \E n \in Messages : BeginRoute(n)
    <2>1. PICK n \in Messages : BeginRoute(n)
      BY <1>8
    <2>2. Matching(rules, n) # {} => FirstMatch(rules, n) \in Rules
      BY MatchIsRule DEF RouterInv
    <2>3. \A r \in Rules : Letter(n, r) \in Letters
      BY DEF Letter, Letters
    <2>4. QED
      BY <1>4, <2>1, <2>2, <2>3 DEF BeginRoute, HandleFailure, retryVars
  <1>9. CASE Query \/ Insert \/ Send \/ MarkRouted
    <2>1. Letter(message, rule) \in Letters
      BY DEF RouterInv, TypeOK, Letter, Letters
    <2>2. QED
      BY <1>4, <1>9, <2>1 DEF Query, Insert, Send, MarkRouted, HandleFailure, retryVars
  <1>10. CASE BeginRetry
    BY <1>1, <1>2, <1>10, NoLetters DEF BeginRetry, RouterInv, CallInv, Routing
  <1>11. CASE EndRetry
    BY <1>1, <1>2, <1>11, NoLetters DEF EndRetry, RouterInv, CallInv, Routing
  <1>12. CASE RetryNext
    BY <1>4, <1>5, <1>12 DEF RetryNext, retryVars
  <1>13. CASE Requery \/ Reinsert
    BY <1>4, <1>13 DEF Requery, Reinsert, LoseBatch, retryVars
  <1>14. CASE Resend
    <2>1. pc = "resend" /\ queue' = queue /\ batch # <<>> /\ Current.message \in Messages
      BY <1>14, AtLetter DEF Resend
    <2>2. CASE KeepFailed
      BY <1>5, <2>1, <2>2
    <2>3. CASE Execute(Current.message) /\ (Done \/ UNCHANGED retryVars)
      <3>1. sent'[Current.message] = sent[Current.message] + 1
            /\ sent[Current.message] \in Nat
        BY <2>1, <2>3, ExecuteType DEF RouterInv, TypeOK
      <3>2. sent'[Current.message] > 0
        BY <3>1
      <3>3. QED
        BY <1>4, <1>6, <2>1, <2>3, <3>2 DEF Done, retryVars
    <2>4. QED
      BY <1>14, <2>2, <2>3 DEF Resend
  <1>15. CASE Remark
    <2>1. /\ pc = "remark" /\ queue' = queue /\ batch # <<>> /\ sent' = sent
          /\ sent[Current.message] > 0
      BY <1>15, AtLetter DEF Remark, RouterInv, CallInv, CallFacts
    <2>2. QED
      BY <1>5, <1>6, <1>15, <2>1 DEF Remark, Done
  <1>16. CASE UNCHANGED vars
    BY <1>4, <1>16 DEF vars, retryVars
  <1>17. QED
    BY <1>7, <1>8, <1>9, <1>10, <1>11, <1>12, <1>13, <1>14, <1>15, <1>16 DEF Next, CallStep

LEMMA DeadLettersStep ==
    ASSUME RouterInv, TypeOK', [Next]_vars
    PROVE  DeadLettersKept'
  <1>1. SUFFICES ASSUME ~dbRaised', NEW m \in failed' PROVE Waiting(m)' \/ sent'[m] > 0
    BY DEF DeadLettersKept
  <1>2. m \in Messages
    BY DEF TypeOK
  <1>3. ~dbRaised
    BY <1>1 DEF Next, CallStep, RegisterTransport, AddRule, BeginRoute, Query, Insert, Send,
                MarkRouted, BeginRetry, RetryNext, EndRetry, Requery, Reinsert, Resend, Remark,
                LoseBatch, vars
  <1>4. CASE m \in failed
    <2>1. Waiting(m) \/ sent[m] > 0
      BY <1>3, <1>4 DEF RouterInv, DeadLettersKept
    <2>2. QED
      BY <1>1, <1>2, <2>1, LettersStay, SendsGrow
  <1>5. CASE m \notin failed
    <2>1. queue \in Seq(Letters) /\ message \in Messages /\ rule \in Rules
      BY DEF RouterInv, TypeOK
    <2>2. \E r \in Rules : HandleFailure(m, r)
      <3>1. \A n \in Messages : Matching(rules, n) # {} => FirstMatch(rules, n) \in Rules
        BY MatchIsRule DEF RouterInv
      <3>2. \/ failed' = failed
            \/ \E n \in Messages, r \in Rules : HandleFailure(n, r)
        BY <2>1, <3>1
        DEF Next, CallStep, RegisterTransport, AddRule, BeginRoute, Query, Insert, Send,
            MarkRouted, BeginRetry, RetryNext, EndRetry, Requery, Reinsert, Resend, Remark, vars
      <3>3. QED
        BY <1>5, <3>2 DEF HandleFailure
    <2>3. PICK r \in Rules : queue' = Append(queue, Letter(m, r))
      BY <2>2 DEF HandleFailure
    <2>4. Letter(m, r) \in Letters /\ Letter(m, r).message = m
      BY <1>2 DEF Letter, Letters
    <2>5. Holds(queue', m)
      BY <2>1, <2>3, <2>4, LetterAppended
    <2>6. QED
      BY <2>5 DEF Waiting, Holds
  <1>6. QED
    BY <1>4, <1>5

----------------------------------------------------------------------------
(* The order of the rules *)

ByPriority(s) == \A i, j \in DOMAIN s : i < j => s[i].priority >= s[j].priority

\* The sequence s with `new' behind its first n elements.
Insertion(s, new, n) == SubSeq(s, 1, n) \o <<new>> \o SubSeq(s, n + 1, Len(s))

\* Where add_rule's append and stable sort put the new rule.
LEMMA SortedPlace ==
    ASSUME NEW s \in Seq(Rules), ByPriority(s), NEW new \in Rules
    PROVE  \E n \in 0 .. Len(s) :
              /\ Sorted(s, new) = Insertion(s, new, n)
              /\ \A i \in 1 .. n : s[i].priority >= new.priority
              /\ \A i \in n + 1 .. Len(s) : s[i].priority < new.priority
  <1>1. /\ DOMAIN s = 1 .. Len(s) /\ Len(s) \in Nat
        /\ \A i \in 1 .. Len(s) : s[i] \in Rules
    OBVIOUS
  <1>2. new.priority \in Nat /\ \A i \in 1 .. Len(s) : s[i].priority \in Nat
    BY <1>1, RouterAssumption
  <1> DEFINE P == {i \in DOMAIN s : s[i].priority >= new.priority}
             Q == {i \in 1 .. Len(s) + 1 : i \notin P}
  <1>3. Q \in SUBSET Nat /\ Len(s) + 1 \in Q
    BY <1>1
  <1>4. PICK c \in Q : \A j \in Q : c <= j
    <2> HIDE DEF Q
    <2>1. QED
      BY <1>3, LeastNatural
  <1>5. c \in 1 .. Len(s) + 1 /\ \A i \in 1 .. Len(s) + 1 : i < c => i \in P
    BY <1>1, <1>4
  <1>6. \A i \in 1 .. c - 1 : s[i].priority >= new.priority
    BY <1>1, <1>5
  <1>7. ASSUME NEW i \in c .. Len(s) PROVE s[i].priority < new.priority
    <2>1. c \in 1 .. Len(s) /\ i \in 1 .. Len(s)
      BY <1>1, <1>5, <1>7
    <2>2. ~(s[c].priority >= new.priority)
      BY <1>1, <1>4, <2>1
    <2>3. c < i => s[c].priority >= s[i].priority
      BY <1>1, <2>1 DEF ByPriority
    <2>4. CASE c = i
      BY <1>2, <2>1, <2>2, <2>4
    <2>5. CASE c < i
      BY <1>2, <2>1, <2>2, <2>3, <2>5
    <2>6. QED
      BY <1>7, <1>5, <2>4, <2>5
  <1>8. P = 1 .. c - 1
    <2>1. ASSUME NEW i \in P PROVE i \in 1 .. c - 1
      <3>1. i \in 1 .. Len(s) /\ s[i].priority >= new.priority
        BY <1>1, <2>1
      <3>2. ~(i \in c .. Len(s))
        BY <1>2, <1>7, <3>1
      <3>3. QED
        BY <1>5, <3>1, <3>2
    <2>2. \A i \in 1 .. c - 1 : i \in P
      BY <1>1, <1>5
    <2> HIDE DEF P
    <2>3. QED
      BY <2>1, <2>2
  <1>9. Cardinality(P) = c - 1
    <2>1. 1 \in Int /\ c - 1 \in Int /\ c - 1 >= 0
      BY <1>1, <1>5
    <2>2. Cardinality(1 .. c - 1) = IF 1 > c - 1 THEN 0 ELSE c - 1 - 1 + 1
      BY <2>1, FS_Interval
    <2>3. Cardinality(1 .. c - 1) = c - 1
      BY <2>1, <2>2
    <2> HIDE DEF P
    <2>4. QED
      BY <1>8, <2>3
  <1>10. Sorted(s, new) = Insertion(s, new, c - 1)
    BY <1>9 DEF Sorted, Insertion
  <1>11. c - 1 \in 0 .. Len(s) /\ c - 1 + 1 = c
    BY <1>1, <1>5
  <1>12. QED
    BY <1>6, <1>7, <1>10, <1>11

\* The elements of a concatenation, one part at a time.
LEMMA Concatenated ==
    ASSUME NEW S, NEW d \in Seq(S), NEW b \in Seq(S)
    PROVE  /\ d \o b \in Seq(S) /\ Len(d \o b) = Len(d) + Len(b)
           /\ \A i \in 1 .. Len(d) : (d \o b)[i] = d[i]
           /\ \A i \in Len(d) + 1 .. Len(d) + Len(b) : (d \o b)[i] = b[i - Len(d)]
  <1>1. Len(d) \in Nat /\ Len(b) \in Nat
    OBVIOUS
  <1>2. /\ d \o b \in Seq(S) /\ Len(d \o b) = Len(d) + Len(b)
        /\ \A i \in 1 .. Len(d) + Len(b) :
              (d \o b)[i] = IF i <= Len(d) THEN d[i] ELSE b[i - Len(d)]
    BY ConcatProperties
  <1>3. QED
    BY <1>1, <1>2

\* A sequence with one more element in the middle.
LEMMA Inserted ==
    ASSUME NEW S, NEW s \in Seq(S), NEW new \in S, NEW n \in 0 .. Len(s)
    PROVE  /\ Insertion(s, new, n) \in Seq(S)
           /\ Len(Insertion(s, new, n)) = Len(s) + 1
           /\ Insertion(s, new, n)[n + 1] = new
           /\ \A i \in 1 .. n : Insertion(s, new, n)[i] = s[i]
           /\ \A i \in n + 2 .. Len(s) + 1 : Insertion(s, new, n)[i] = s[i - 1]
  <1> DEFINE a == SubSeq(s, 1, n)
             b == SubSeq(s, n + 1, Len(s))
             c == <<new>>
             t == Insertion(s, new, n)
  <1>1. /\ a \in Seq(S) /\ Len(a) = n /\ \A i \in 1 .. n : a[i] = s[i]
        /\ b \in Seq(S) /\ Len(b) = Len(s) - n
        /\ \A i \in 1 .. Len(s) - n : b[i] = s[n + i]
    OBVIOUS
  <1>2. c \in Seq(S) /\ Len(c) = 1 /\ c[1] = new
    OBVIOUS
  <1>3. t = (a \o c) \o b
    BY DEF Insertion
  <1> HIDE DEF a, b, c, t
  <1> DEFINE d == a \o c
  <1>4. Len(s) \in Nat /\ n \in Nat /\ n <= Len(s)
    OBVIOUS
  <1>5. /\ d \in Seq(S) /\ Len(d) = Len(a) + Len(c)
        /\ \A i \in 1 .. Len(a) : d[i] = a[i]
        /\ \A i \in Len(a) + 1 .. Len(a) + Len(c) : d[i] = c[i - Len(a)]
    <2>1. a \in Seq(S) /\ c \in Seq(S)
      BY <1>1, <1>2
    <2>2. /\ a \o c \in Seq(S) /\ Len(a \o c) = Len(a) + Len(c)
          /\ \A i \in 1 .. Len(a) : (a \o c)[i] = a[i]
          /\ \A i \in Len(a) + 1 .. Len(a) + Len(c) : (a \o c)[i] = c[i - Len(a)]
      BY <2>1, Concatenated, Zenon
    <2>3. QED
      BY <2>2
  <1>6. t = d \o b
    BY <1>3
  <1> HIDE DEF d
  <1>7. /\ Len(d) = n + 1 /\ d[n + 1] = new
        /\ \A i \in 1 .. n : d[i] = s[i]
    <2>1. n + 1 \in Len(a) + 1 .. Len(a) + Len(c) /\ n + 1 - Len(a) = 1
      BY <1>1, <1>2, <1>4
    <2>2. d[n + 1] = c[1]
      BY <1>5, <2>1
    <2>3. Len(d) = n + 1
      BY <1>1, <1>2, <1>4, <1>5
    <2>4. QED
      BY <1>1, <1>2, <1>5, <2>2, <2>3
  <1>8. /\ t \in Seq(S) /\ Len(t) = Len(d) + Len(b)
        /\ \A i \in 1 .. Len(d) : t[i] = d[i]
        /\ \A i \in Len(d) + 1 .. Len(d) + Len(b) : t[i] = b[i - Len(d)]
    <2>1. /\ d \o b \in Seq(S) /\ Len(d \o b) = Len(d) + Len(b)
          /\ \A i \in 1 .. Len(d) : (d \o b)[i] = d[i]
          /\ \A i \in Len(d) + 1 .. Len(d) + Len(b) : (d \o b)[i] = b[i - Len(d)]
      <3>1. d \in Seq(S) /\ b \in Seq(S)
        BY <1>1, <1>5
      <3>2. QED
        BY <3>1, Concatenated, Zenon
    <2>2. QED
      BY <1>6, <2>1
  <1>9. Len(d) + Len(b) = Len(s) + 1 /\ Len(d) + 1 = n + 2
    BY <1>1, <1>4, <1>7
  <1>10. t[n + 1] = new /\ \A i \in 1 .. n : t[i] = s[i]
    <2>1. n + 1 \in 1 .. Len(d) /\ \A i \in 1 .. n : i \in 1 .. Len(d)
      BY <1>4, <1>7
    <2>2. QED
      BY <1>7, <1>8, <2>1
  <1>11. ASSUME NEW i \in n + 2 .. Len(s) + 1 PROVE t[i] = s[i - 1]
    <2>1. /\ i - Len(d) \in 1 .. Len(s) - n
          /\ n + (i - Len(d)) = i - 1
      <3>1. i \in Int /\ i >= n + 2 /\ i <= Len(s) + 1 /\ Len(d) = n + 1
        BY <1>4, <1>7
      <3>2. QED
        BY <1>4, <3>1
    <2>2. t[i] = b[i - Len(d)]
      BY <1>8, <1>9
    <2>3. QED
      BY <1>1, <2>1, <2>2
  <1>12. QED
    BY <1>8, <1>9, <1>10, <1>11 DEF t

\* Of two rules, added in the order of a, the first is to be tried first.
Before(q, r, a) ==
    \/ q.priority > r.priority
    \/ /\ q.priority = r.priority
       /\ \A x, y \in DOMAIN a : a[x] = q /\ a[y] = r => x <= y

\* The rules s are those of a, each added once, in the order they are tried in.
RulesOf(s, a) ==
    /\ \A i, j \in DOMAIN a : a[i] = a[j] => i = j
    /\ \A i \in DOMAIN s : \E j \in DOMAIN a : s[i] = a[j]
    /\ \A j \in DOMAIN a : \E i \in DOMAIN s : s[i] = a[j]
    /\ \A i, j \in DOMAIN s : i < j => Before(s[i], s[j], a)

\* add_rule keeps that order: the new rule goes behind those of its priority.
LEMMA RuleAdded ==
    ASSUME NEW s \in Seq(Rules), NEW a \in Seq(Rules), RulesOf(s, a),
           NEW new \in Rules, \A i \in DOMAIN a : a[i] # new
    PROVE  RulesOf(Sorted(s, new), Append(a, new))
  <1> DEFINE t == Sorted(s, new)
             b == Append(a, new)
  <1>1. /\ DOMAIN s = 1 .. Len(s) /\ Len(s) \in Nat /\ \A i \in 1 .. Len(s) : s[i] \in Rules
        /\ DOMAIN a = 1 .. Len(a) /\ Len(a) \in Nat
    OBVIOUS
  <1>2. new.priority \in Nat /\ \A i \in 1 .. Len(s) : s[i].priority \in Nat
    BY <1>1, RouterAssumption
  <1>3. ByPriority(s)
    <2>1. ASSUME NEW i \in 1 .. Len(s), NEW j \in 1 .. Len(s), i < j
          PROVE  s[i].priority >= s[j].priority
      <3>1. s[i].priority > s[j].priority \/ s[i].priority = s[j].priority
        BY <1>1, <2>1 DEF RulesOf, Before
      <3>2. QED
        BY <1>2, <3>1
    <2>2. QED
      BY <1>1, <2>1 DEF ByPriority
  <1>4. PICK n \in 0 .. Len(s) :
           /\ t = Insertion(s, new, n)
           /\ \A i \in 1 .. n : s[i].priority >= new.priority
           /\ \A i \in n + 1 .. Len(s) : s[i].priority < new.priority
    BY <1>3, SortedPlace
  <1>5. /\ t \in Seq(Rules) /\ Len(t) = Len(s) + 1 /\ t[n + 1] = new
        /\ \A i \in 1 .. n : t[i] = s[i]
        /\ \A i \in n + 2 .. Len(s) + 1 : t[i] = s[i - 1]
    <2> HIDE DEF t
    <2>1. /\ Insertion(s, new, n) \in Seq(Rules)
          /\ Len(Insertion(s, new, n)) = Len(s) + 1
          /\ Insertion(s, new, n)[n + 1] = new
      BY Inserted
    <2>2. \A i \in 1 .. n : Insertion(s, new, n)[i] = s[i]
      BY Inserted
    <2>3. \A i \in n + 2 .. Len(s) + 1 : Insertion(s, new, n)[i] = s[i - 1]
      BY Inserted
    <2>4. t = Insertion(s, new, n)
      BY <1>4
    <2>5. QED
      BY <2>1, <2>2, <2>3, <2>4
  <1>6. /\ b \in Seq(Rules) /\ Len(b) = Len(a) + 1 /\ b[Len(a) + 1] = new
        /\ \A i \in 1 .. Len(a) : b[i] = a[i]
    OBVIOUS
  <1> HIDE DEF t, b
  <1>7. DOMAIN t = 1 .. Len(s) + 1 /\ DOMAIN b = 1 .. Len(a) + 1
    BY <1>5, <1>6
  <1>8. \A i \in 1 .. Len(s) : s[i] # new
    BY <1>1 DEF RulesOf
  <1>9. \A x \in DOMAIN b : b[x] # new => x \in DOMAIN a /\ a[x] = b[x]
    BY <1>1, <1>6, <1>7
  <1>10. \A x \in DOMAIN b : b[x] = new => x = Len(a) + 1
    BY <1>1, <1>6, <1>7
  <1>11. ASSUME NEW i \in 1 .. Len(s), NEW j \in 1 .. Len(s), i < j
         PROVE  Before(s[i], s[j], b)
    <2>1. Before(s[i], s[j], a) /\ s[i] # new /\ s[j] # new
      BY <1>1, <1>8, <1>11 DEF RulesOf
    <2>2. QED
      BY <1>9, <2>1 DEF Before
  <1>12. ASSUME NEW i \in 1 .. n PROVE Before(s[i], new, b)
    <2>1. i \in 1 .. Len(s) /\ s[i].priority >= new.priority
      BY <1>1, <1>4
    <2>2. ASSUME NEW x \in DOMAIN b, NEW y \in DOMAIN b, b[x] = s[i], b[y] = new
          PROVE  x <= y
      BY <1>1, <1>7, <1>10, <2>2
    <2>3. s[i].priority > new.priority \/ s[i].priority = new.priority
      BY <1>2, <2>1
    <2>4. QED
      BY <2>2, <2>3 DEF Before
  <1>13. ASSUME NEW i \in n + 1 .. Len(s) PROVE Before(new, s[i], b)
    <2>1. i \in 1 .. Len(s) /\ s[i].priority < new.priority
      BY <1>1, <1>4
    <2>2. new.priority > s[i].priority
      BY <1>2, <2>1
    <2>3. QED
      BY <2>2 DEF Before
  <1>14. ASSUME NEW i \in DOMAIN t
         PROVE  \/ i \in 1 .. n /\ i \in 1 .. Len(s) /\ t[i] = s[i]
                \/ i = n + 1 /\ t[i] = new
                \/ i \in n + 2 .. Len(s) + 1 /\ i - 1 \in n + 1 .. Len(s)
                   /\ i - 1 \in 1 .. Len(s) /\ t[i] = s[i - 1]
    <2>1. i \in 1 .. Len(s) + 1
      BY <1>7
    <2>2. CASE i <= n
      BY <1>1, <1>5, <2>1, <2>2
    <2>3. CASE i = n + 1
      BY <1>5, <2>3
    <2>4. CASE i > n + 1
      <3>1. i \in n + 2 .. Len(s) + 1 /\ i - 1 \in n + 1 .. Len(s) /\ i - 1 \in 1 .. Len(s)
        BY <1>1, <2>1, <2>4
      <3>2. QED
        BY <1>5, <3>1
    <2>5. QED
      BY <2>1, <2>2, <2>3, <2>4
  <1>15. ASSUME NEW i \in DOMAIN t, NEW j \in DOMAIN t, i < j
         PROVE  Before(t[i], t[j], b)
    <2>1. CASE i \in 1 .. n /\ i \in 1 .. Len(s) /\ t[i] = s[i]
      <3>1. CASE j \in 1 .. n /\ j \in 1 .. Len(s) /\ t[j] = s[j]
        BY <1>11, <1>15, <2>1, <3>1
      <3>2. CASE j = n + 1 /\ t[j] = new
        BY <1>12, <2>1, <3>2
      <3>3. CASE j \in n + 2 .. Len(s) + 1 /\ j - 1 \in 1 .. Len(s) /\ t[j] = s[j - 1]
        <4>1. i < j - 1
          BY <2>1, <3>3
        <4>2. QED
          BY <1>11, <2>1, <3>3, <4>1
      <3>4. QED
        BY <1>14, <3>1, <3>2, <3>3
    <2>2. CASE i = n + 1 /\ t[i] = new
      <3>1. j > n + 1
        BY <1>15, <2>2
      <3>2. j - 1 \in n + 1 .. Len(s) /\ t[j] = s[j - 1]
        BY <1>14, <3>1
      <3>3. QED
        BY <1>13, <2>2, <3>2
    <2>3. CASE i \in n + 2 .. Len(s) + 1 /\ i - 1 \in 1 .. Len(s) /\ t[i] = s[i - 1]
      <3>1. j > n + 1
        BY <1>7, <1>15, <2>3
      <3>2. j - 1 \in 1 .. Len(s) /\ t[j] = s[j - 1]
        BY <1>14, <3>1
      <3>3. i - 1 < j - 1
        BY <1>7, <1>15
      <3>4. QED
        BY <1>11, <2>3, <3>2, <3>3
    <2>4. QED
      BY <1>14, <2>1, <2>2, <2>3
  <1>16. ASSUME NEW i \in DOMAIN t PROVE \E j \in DOMAIN b : t[i] = b[j]
    <2>1. CASE t[i] = new
      BY <1>1, <1>6, <1>7, <2>1
    <2>2. CASE \E k \in 1 .. Len(s) : t[i] = s[k]
      <3>1. PICK j \in DOMAIN a : t[i] = a[j]
        <4>1. PICK k \in DOMAIN s : t[i] = s[k]
          BY <1>1, <2>2
        <4>2. \E j \in DOMAIN a : s[k] = a[j]
          BY DEF RulesOf
        <4>3. QED
          BY <4>1, <4>2
      <3>2. j \in DOMAIN b /\ b[j] = a[j]
        BY <1>1, <1>6, <1>7
      <3>3. QED
        BY <3>1, <3>2
    <2>3. QED
      BY <1>14, <2>1, <2>2
  <1>17. ASSUME NEW j \in DOMAIN b PROVE \E i \in DOMAIN t : t[i] = b[j]
    <2>1. CASE b[j] = new
      <3>1. n + 1 \in DOMAIN t
        BY <1>1, <1>7
      <3>2. QED
        BY <1>5, <2>1, <3>1
    <2>2. CASE b[j] # new
      <3>1. PICK k \in 1 .. Len(s) : s[k] = b[j]
        BY <1>1, <1>9, <2>2 DEF RulesOf
      <3>2. CASE k <= n
        <4>1. k \in 1 .. n /\ k \in DOMAIN t
          BY <1>1, <1>7, <3>2
        <4>2. QED
          BY <1>5, <3>1, <4>1
      <3>3. CASE k > n
        <4>1. /\ k + 1 \in n + 2 .. Len(s) + 1 /\ k + 1 \in DOMAIN t
              /\ k + 1 - 1 = k
          BY <1>1, <1>7, <3>3
        <4>2. t[k + 1] = s[k]
          BY <1>5, <4>1
        <4>3. QED
          BY <3>1, <4>1, <4>2
      <3>4. QED
        BY <1>1, <3>2, <3>3
    <2>3. QED
      BY <2>1, <2>2
  <1>18. ASSUME NEW i \in DOMAIN b, NEW j \in DOMAIN b, b[i] = b[j] PROVE i = j
    <2>1. CASE b[i] = new
      BY <1>10, <1>18, <2>1
    <2>2. CASE b[i] # new
      <3>1. i \in DOMAIN a /\ j \in DOMAIN a /\ a[i] = a[j]
        BY <1>9, <1>18, <2>2
      <3>2. QED
        BY <3>1 DEF RulesOf
    <2>3. QED
      BY <2>1, <2>2
  <1>19. RulesOf(t, b)
    BY <1>15, <1>16, <1>17, <1>18 DEF RulesOf
  <1>20. QED
    BY <1>19 DEF t, b

RulesInv == RulesOf(rules, added)

----------------------------------------------------------------------------
(* Theorems *)

\* The inductive invariant: what is known at each step of a call, the rows of
\* what was sent, and the letters of the keys no failure puts in doubt.
THEOREM RouterInvariant == Spec => []RouterInv
  <1>1. RouterInv /\ [Next]_vars => RouterInv'
    <2>1. SUFFICES ASSUME RouterInv, [Next]_vars PROVE RouterInv'
      OBVIOUS
    <2>2. TypeOK'
      BY <2>1, NextTypeOK DEF RouterInv
    <2>3. QED
      BY <2>1, <2>2, CallsKnow, RowStep, SureStep, DeadLettersStep DEF RouterInv
  <1>2. QED
    BY <1>1, InitRouterInv, PTL DEF Spec

\* A row of the table says `published' only if a transport executed a send of its
\* key, also when marks fail and retries run in between.
THEOREM MarkedWasSent == Spec => []PublishedWasSent
  <1>1. RouterInv => PublishedWasSent
    BY DEF RouterInv
  <1>2. QED
    BY <1>1, RouterInvariant, PTL

\* No call takes a row from `published' back to `pending' (save_post replaces
\* rows): neither route nor the insert of a retry meets the row of its key.
THEOREM MarkedForGood == Spec => RowStaysPublished
  <1>1. RouterInv /\ RouterInv' /\ [Next]_vars
            => [\A k \in Keys : IsPublished(posts, k) => IsPublished(posts', k)]_vars
    BY RowStep DEF RouterInv
  <1>2. QED
    BY <1>1, RouterInvariant, PTL DEF Spec, RowStaysPublished

\* While the Database raises in no retry, a message whose delivery failed is in
\* the dead-letter queue or in the retry that took it, until it is delivered.
THEOREM FailedIsKept == Spec => []DeadLettersKept
  <1>1. RouterInv => DeadLettersKept
    BY DEF RouterInv
  <1>2. QED
    BY <1>1, RouterInvariant, PTL

\* With a Database a key or a content goes out twice only after a failure that
\* says nothing about the delivery of one of its keys.
THEOREM SentOnceUnlessInDoubt == Spec => []TwiceOnlyIfUnsure
  <1>1. RouterInv => TwiceOnlyIfUnsure
    <2>1. SUFFICES ASSUME RouterInv, hasDb, NEW m \in Messages, NEW n \in Kin(m),
                          m.key \notin unsure, n.key \notin unsure
                   PROVE  sent[m] <= 1 /\ (sent[m] > 0 /\ sent[n] > 0 => m = n)
      BY DEF TwiceOnlyIfUnsure
    <2>2. n \in Messages /\ (n.key = m.key \/ n.content = m.content)
      BY DEF Kin
    <2>3. m.key \in Keys \ unsure /\ n.key \in Keys \ unsure
      BY <2>1, <2>2, RouterAssumption
    <2>4. SureKey(m.key) /\ SureKey(n.key)
      BY <2>1, <2>3 DEF RouterInv, SureInv
    <2>5. sent[m] \in Nat /\ sent[n] \in Nat
      BY <2>1, <2>2 DEF RouterInv, TypeOK
    <2>6. sent[m] <= 1
      <3>1. sent[m] > 0 => sent[m] = 1
        BY <2>4 DEF SureKey
      <3>2. QED
        BY <2>5, <3>1
    <2>7. ASSUME sent[m] > 0, sent[n] > 0 PROVE m = n
      <3>1. HasKey(posts, m.key) /\ HasKey(posts, n.key)
        BY <2>1, <2>2, <2>7 DEF RouterInv, RowInv
      <3>2. posts[m.key].content = m.content /\ posts[n.key].content = n.content
        BY <2>2, <2>4, <2>7 DEF SureKey
      <3>3. m.key = n.key
        BY <2>1, <2>2, <2>3, <3>1, <3>2 DEF RouterInv, RowInv
      <3>4. QED
        BY <2>2, <2>4, <2>7, <3>3 DEF SureKey
    <2>8. QED
      BY <2>6, <2>7
  <1>2. QED
    BY <1>1, RouterInvariant, PTL

\* With a Database route sends nothing that an earlier call had sent: no other
\* version of its key, and its content under another key only if a failure puts
\* that key in doubt.
THEOREM RouteIsNew == Spec => RouteSendsNew
  <1>1. RouterInv /\ [Next]_vars =>
            [pc = "send" /\ hasDb /\ sent' # sent =>
                \A n \in Kin(message) :
                    n.key = message.key \/ n.key \notin unsure => sent[n] = 0]_vars
    BY DEF RouterInv, CallInv, CallFacts, Kin
  <1>2. QED
    BY <1>1, RouterInvariant, PTL DEF Spec, RouteSendsNew

\* route's first match is a rule of the highest priority and, of those that match
\* with it, the one that was added first.
THEOREM RulesByPriority == Spec => []RuleByPriority
  <1>1. Init => RulesInv
    BY DEF Init, RulesInv, RulesOf
  <1>2. TypeOK /\ RulesInv /\ [Next]_vars => RulesInv'
    <2>1. SUFFICES ASSUME TypeOK, RulesInv, [Next]_vars PROVE RulesInv'
      OBVIOUS
    <2>2. rules \in Seq(Rules) /\ added \in Seq(Rules)
      BY <2>1 DEF TypeOK
    <2>3. ASSUME NEW new \in Rules, AddRule(new) PROVE RulesInv'
      <3>1. RulesOf(Sorted(rules, new), Append(added, new))
        BY <2>1, <2>2, <2>3, RuleAdded DEF AddRule, RulesInv
      <3>2. QED
        BY <2>3, <3>1 DEF AddRule, RulesInv
    <2>4. CASE UNCHANGED <<rules, added>>
      BY <2>1, <2>4 DEF RulesInv
    <2>5. QED
      BY <2>1, <2>3, <2>4
      DEF Next, CallStep, RegisterTransport, BeginRoute, Query, Insert, Send, MarkRouted,
          BeginRetry, RetryNext, EndRetry, Requery, Reinsert, Resend, Remark, vars, setupVars
  <1>3. TypeOK /\ RulesInv => RuleByPriority
    <2>1. SUFFICES ASSUME TypeOK, RulesInv, NEW m \in Messages, Matching(rules, m) # {},
                          NEW k \in DOMAIN added, m \in added[k].matches
                   PROVE  LET best == FirstMatch(rules, m) r == added[k] IN
                          \/ r.priority < best.priority
                          \/ r.priority = best.priority /\ Added(best) <= Added(r)
      BY DEF RuleByPriority
    <2> DEFINE best == FirstMatch(rules, m)
    <2>2. /\ rules \in Seq(Rules) /\ added \in Seq(Rules)
          /\ DOMAIN rules = 1 .. Len(rules) /\ DOMAIN added = 1 .. Len(added)
          /\ \A i \in DOMAIN rules : rules[i] \in Rules
          /\ \A i \in DOMAIN added : added[i] \in Rules
      BY <2>1 DEF TypeOK
    <2>3. PICK i \in DOMAIN rules :
             /\ best = rules[i]
             /\ \A j \in DOMAIN rules : m \in rules[j].matches => i <= j
      BY <2>1, <2>2, FirstMatchIsFirst
    <2>4. PICK j \in DOMAIN rules : rules[j] = added[k]
      BY <2>1 DEF RulesInv, RulesOf
    <2>5. PICK l \in DOMAIN added : best = added[l]
      BY <2>1, <2>3 DEF RulesInv, RulesOf
    <2> HIDE DEF best
    <2>6. \A x \in DOMAIN added : Added(added[x]) = x
      <3>1. SUFFICES ASSUME NEW x \in DOMAIN added PROVE Added(added[x]) = x
        OBVIOUS
      <3>2. \A y \in DOMAIN added : added[y] = added[x] => y = x
        BY <2>1 DEF RulesInv, RulesOf
      <3>3. QED
        BY <3>2 DEF Added
    <2>7. best.priority \in Nat /\ added[k].priority \in Nat
      BY <2>2, <2>5, RouterAssumption
    <2>8. CASE i = j
      <3>1. best = added[k]
        BY <2>3, <2>4, <2>8
      <3>2. Added(best) = k /\ k \in Nat
        BY <2>2, <2>6, <3>1
      <3>3. QED
        BY <2>7, <3>1, <3>2 DEF best
    <2>9. CASE i < j
      <3>1. Before(best, added[k], added)
        BY <2>1, <2>3, <2>4, <2>9 DEF RulesInv, RulesOf
      <3>2. CASE best.priority > added[k].priority
        BY <2>7, <3>2 DEF best
      <3>3. CASE best.priority = added[k].priority /\ l <= k
        <4>1. Added(best) <= Added(added[k])
          BY <2>5, <2>6, <3>3
        <4>2. QED
          BY <3>3, <4>1 DEF best
      <3>4. QED
        BY <2>5, <3>1, <3>2, <3>3 DEF Before
    <2>10. i <= j
      BY <2>1, <2>3, <2>4
    <2>11. QED
      BY <2>2, <2>8, <2>9, <2>10
  <1>4. QED
    BY <1>1, <1>2, <1>3, TypeCorrect, PTL DEF Spec
=============================================================================
