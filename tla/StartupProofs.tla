---------------------------- MODULE StartupProofs ----------------------------
(***************************************************************************)
(* Theorems about Startup, for every list of settings, every set of        *)
(* answers and every first .env file.                                      *)
(***************************************************************************)
EXTENDS Startup, FiniteSetTheorems, FunctionTheorems, SequenceTheorems, TLAPS

\* The values a setting can have, in the environment or by its default.
LEMMA SettingType ==
    ASSUME TypeOK, NEW k \in Keys
    PROVE  /\ Setting(k) \in Values(k)
           /\ Setting(k) # Unset
  BY StartupAssumption DEF TypeOK, Setting, Values

\* The prompts and the settings are the same thing.
LEMMA PromptOfKey ==
    /\ \A i \in DOMAIN Prompts : Prompts[i] \in Keys
    /\ \A k \in Keys : \E i \in DOMAIN Prompts : Prompts[i] = k
    /\ DOMAIN Prompts = 1 .. Len(Prompts) /\ Len(Prompts) \in Nat
  BY StartupAssumption DEF Keys

\* An answer to a setting is the one given at its prompt.
LEMMA AnswerOfKey ==
    ASSUME NEW i \in DOMAIN Prompts
    PROVE  AnswerTo(Prompts[i]) = answers[i]
  BY StartupAssumption DEF AnswerTo

\* When all the answers are given, each is one of its setting's.
LEMMA AnswerType ==
    ASSUME TypeOK, Len(answers) = Len(Prompts), NEW k \in Keys
    PROVE  /\ AnswerTo(k) \in Values(k) /\ AnswerTo(k) # Unset
           /\ Line(k) \in Lines /\ Line(k).key = k /\ Line(k).value = AnswerTo(k)
  <1>1. PICK i \in DOMAIN Prompts : Prompts[i] = k
    BY PromptOfKey
  <1>2. i \in DOMAIN answers
    BY <1>1, PromptOfKey DEF TypeOK
  <1>3. AnswerTo(k) \in Values(k)
    BY <1>1, <1>2, AnswerOfKey DEF TypeOK
  <1>4. AnswerTo(k) # Unset
    BY <1>3, StartupAssumption
  <1>5. Line(k) = [key |-> k, value |-> AnswerTo(k)]
    BY DEF Line
  <1>6. Line(k) \in [key : {k}, value : Values(k)]
    BY <1>3, <1>5
  <1>7. Line(k) \in Lines
    BY <1>6 DEF Lines
  <1>8. QED
    BY <1>3, <1>4, <1>5, <1>7

----------------------------------------------------------------------------
(* The places of a set of numbers, in their order *)

\* The number of the set's elements up to one of them.
Rank(places, i) == Cardinality({j \in places : j <= i})

\* Ranks are different for different elements, and grow with them.
LEMMA RanksGrow ==
    ASSUME NEW places \in SUBSET Nat, IsFiniteSet(places)
    PROVE  /\ \A i \in places : Rank(places, i) \in 1 .. Cardinality(places)
           /\ \A i, j \in places : i < j => Rank(places, i) < Rank(places, j)
  <1> DEFINE upTo(i) == {j \in places : j <= i}
  <1>1. Cardinality(places) \in Nat
    BY FS_CardinalityType
  <1>2. ASSUME NEW i \in places
        PROVE  /\ IsFiniteSet(upTo(i)) /\ Cardinality(upTo(i)) \in Nat
               /\ Cardinality(upTo(i)) <= Cardinality(places) /\ Cardinality(upTo(i)) # 0
    <2>1. upTo(i) \subseteq places /\ i \in upTo(i)
      OBVIOUS
    <2>2. upTo(i) # {}
      BY <2>1
    <2> HIDE DEF upTo
    <2>3. IsFiniteSet(upTo(i)) /\ Cardinality(upTo(i)) <= Cardinality(places)
      BY <2>1, FS_Subset
    <2>4. Cardinality(upTo(i)) \in Nat /\ Cardinality(upTo(i)) # 0
      BY <2>2, <2>3, FS_CardinalityType, FS_EmptySet
    <2>5. QED
      BY <2>3, <2>4
  <1>3. ASSUME NEW i \in places, NEW j \in places, i < j
        PROVE  Cardinality(upTo(i)) < Cardinality(upTo(j))
    <2>1. upTo(i) \subseteq upTo(j) /\ j \in upTo(j) /\ j \notin upTo(i)
      <3>1. i \in Nat /\ j \in Nat /\ \A x \in places : x \in Nat
        OBVIOUS
      <3>2. \A x \in Nat : x <= i => x <= j
        BY <1>3, <3>1
      <3>3. j <= j /\ ~(j <= i)
        BY <1>3, <3>1
      <3>4. QED
        BY <3>1, <3>2, <3>3
    <2>2. upTo(i) # upTo(j)
      BY <2>1
    <2>3. IsFiniteSet(upTo(j)) /\ Cardinality(upTo(i)) \in Nat /\ Cardinality(upTo(j)) \in Nat
      BY <1>2
    <2> HIDE DEF upTo
    <2>4. Cardinality(upTo(i)) <= Cardinality(upTo(j))
      BY <2>1, <2>3, FS_Subset
    <2>5. Cardinality(upTo(i)) # Cardinality(upTo(j))
      BY <2>1, <2>2, <2>3, FS_Subset
    <2>6. QED
      BY <2>3, <2>4, <2>5
  <1>4. \A i \in places : Rank(places, i) = Cardinality(upTo(i))
    BY DEF Rank
  <1> HIDE DEF upTo
  <1>5. QED
    BY <1>1, <1>2, <1>3, <1>4

\* So there is a sequence of the elements in their order, and InOrder is one.
LEMMA InOrderOfPlaces ==
    ASSUME NEW places \in SUBSET Nat, IsFiniteSet(places)
    PROVE  /\ InOrder(places) \in [1 .. Cardinality(places) -> places]
           /\ \A i, j \in 1 .. Cardinality(places) :
                  i < j => InOrder(places)[i] < InOrder(places)[j]
           /\ \A p \in places : \E i \in 1 .. Cardinality(places) : InOrder(places)[i] = p
  <1> DEFINE n == Cardinality(places)
             rank == [i \in places |-> Rank(places, i)]
  <1>1. n \in Nat /\ IsFiniteSet(1 .. n) /\ Cardinality(1 .. n) = n
    BY FS_CardinalityType, FS_Interval
  <1>2. rank \in [places -> 1 .. n]
    BY RanksGrow
  <1>3. \A i, j \in places : rank[i] = rank[j] => i = j
    BY RanksGrow
  <1>4. \A k \in 1 .. n : \E i \in places : rank[i] = k
    <2> HIDE DEF rank, n
    <2>1. rank \in Injection(places, 1 .. n)
      BY <1>2, <1>3, Fun_IsInj
    <2>2. rank \in Surjection(places, 1 .. n)
      BY <1>1, <2>1, FS_Injection DEF n
    <2>3. QED
      BY <2>2 DEF Surjection
  <1> DEFINE place == [k \in 1 .. n |-> CHOOSE i \in places : rank[i] = k]
  <1>5. \A k \in 1 .. n : place[k] \in places /\ rank[place[k]] = k
    BY <1>4
  <1>6. \A k, l \in 1 .. n : k < l => place[k] < place[l]
    <2> SUFFICES ASSUME NEW k \in 1 .. n, NEW l \in 1 .. n, k < l PROVE place[k] < place[l]
      OBVIOUS
    <2>1. place[k] \in places /\ place[l] \in places /\ rank[place[k]] < rank[place[l]]
      BY <1>5
    <2>2. \A i, j \in places : i < j => rank[i] < rank[j]
      BY RanksGrow
    <2> HIDE DEF place, rank
    <2>3. rank[place[k]] \in 1 .. n /\ rank[place[l]] \in 1 .. n
      BY <1>2, <2>1
    <2>4. ~(rank[place[l]] < rank[place[k]]) /\ rank[place[k]] # rank[place[l]]
      BY <1>1, <2>1, <2>3
    <2>5. place[k] \in Nat /\ place[l] \in Nat /\ place[k] # place[l]
      BY <2>1, <2>4
    <2>6. ~(place[l] < place[k])
      BY <2>1, <2>2, <2>4
    <2>7. QED
      BY <2>5, <2>6
  <1> DEFINE order == InOrder(places)
             grows(s) == \A i, j \in DOMAIN s : i < j => s[i] < s[j]
  <1>7. order \in [1 .. n -> places] /\ grows(order)
    <2>1. place \in [1 .. n -> places]
      BY <1>5
    <2>2. DOMAIN place = 1 .. n
      BY <2>1
    <2> HIDE DEF place
    <2>3. \E s \in [1 .. n -> places] : grows(s)
      BY <1>6, <2>1, <2>2
    <2>4. order = CHOOSE s \in [1 .. n -> places] : grows(s)
      BY DEF InOrder
    <2> HIDE DEF grows, order
    <2>5. QED
      BY <2>3, <2>4
  <1>8. \A i, j \in 1 .. n : i < j => order[i] < order[j]
    BY <1>7
  <1>9. \A p \in places : \E i \in 1 .. n : order[i] = p
    <2> HIDE DEF order
    <2>1. \A i, j \in 1 .. n : order[i] = order[j] => i = j
      <3> SUFFICES ASSUME NEW i \in 1 .. n, NEW j \in 1 .. n, order[i] = order[j] PROVE i = j
        OBVIOUS
      <3>1. order[i] \in Nat /\ order[j] \in Nat
        BY <1>7
      <3>2. ~(i < j) /\ ~(j < i)
        BY <1>8, <3>1
      <3>3. QED
        BY <1>1, <3>2
    <2>2. order \in Injection(1 .. n, places)
      BY <1>7, <2>1, Fun_IsInj
    <2>3. order \in Surjection(1 .. n, places)
      BY <1>1, <2>2, FS_Injection
    <2>4. QED
      BY <2>3 DEF Surjection
  <1>10. QED
    BY <1>7, <1>8, <1>9

----------------------------------------------------------------------------
(* The file that _write_env writes *)

\* The elements of two sequences, one behind the other.
LEMMA Joined ==
    ASSUME NEW S, NEW s \in Seq(S), NEW t \in Seq(S)
    PROVE  /\ s \o t \in Seq(S) /\ Len(s \o t) = Len(s) + Len(t)
           /\ \A i \in 1 .. Len(s) : (s \o t)[i] = s[i]
           /\ \A i \in 1 .. Len(t) : (s \o t)[Len(s) + i] = t[i]
  BY ConcatProperties

\* It has the lines of the file it read, the first of every setting with the
\* answer to it, and behind them the settings that had no line.
LEMMA UpdatedLines ==
    ASSUME TypeOK, Len(answers) = Len(Prompts)
    PROVE  /\ Updated \in Seq(Lines) /\ Len(Updated) >= Len(file)
           /\ \A i \in DOMAIN file :
                  Updated[i] = IF /\ file[i].key \in Keys
                                  /\ \A j \in 1 .. i - 1 : file[j].key # file[i].key
                               THEN Line(file[i].key) ELSE file[i]
           /\ \A i \in DOMAIN Updated \ DOMAIN file : \E k \in Keys : Updated[i] = Line(k)
  <1> DEFINE first(i) == \A j \in 1 .. i - 1 : file[j].key # file[i].key
             changed == [i \in DOMAIN file |->
                            IF file[i].key \in Keys /\ first(i) THEN Line(file[i].key)
                            ELSE file[i]]
             missing == {i \in DOMAIN Prompts : LinesOf(Prompts[i]) = {}}
             new == InOrder(missing)
             added == [i \in DOMAIN new |-> Line(Prompts[new[i]])]
  <1>1. file \in Seq(Lines) /\ Len(file) \in Nat /\ DOMAIN file = 1 .. Len(file)
    BY DEF TypeOK
  <1>2. missing \in SUBSET Nat /\ IsFiniteSet(missing)
    <2>1. missing \subseteq 1 .. Len(Prompts) /\ Len(Prompts) \in Nat
      BY PromptOfKey
    <2>2. IsFiniteSet(1 .. Len(Prompts))
      BY <2>1, FS_Interval
    <2> HIDE DEF missing
    <2>3. IsFiniteSet(missing)
      BY <2>1, <2>2, FS_Subset
    <2>4. 1 .. Len(Prompts) \subseteq Nat
      BY <2>1
    <2>5. QED
      BY <2>1, <2>3, <2>4
  <1>3. Cardinality(missing) \in Nat /\ new \in [1 .. Cardinality(missing) -> missing]
    BY <1>2, InOrderOfPlaces, FS_CardinalityType
  <1>4. changed \in Seq(Lines) /\ Len(changed) = Len(file)
    <2>1. \A i \in 1 .. Len(file) : changed[i] \in Lines
      BY <1>1, AnswerType
    <2>2. changed = [i \in 1 .. Len(file) |-> changed[i]]
      BY <1>1
    <2> HIDE DEF changed
    <2>3. changed \in [1 .. Len(file) -> Lines]
      BY <2>1, <2>2
    <2>4. QED
      BY <1>1, <2>3
  <1>5. /\ added \in Seq(Lines) /\ Len(added) = Cardinality(missing)
        /\ \A i \in 1 .. Len(added) : \E k \in Keys : added[i] = Line(k)
    <2>1. \A i \in 1 .. Cardinality(missing) : new[i] \in DOMAIN Prompts
      BY <1>3
    <2>2. \A i \in 1 .. Cardinality(missing) : Prompts[new[i]] \in Keys
      BY <2>1, PromptOfKey
    <2> HIDE DEF missing, new
    <2>3. added = [i \in 1 .. Cardinality(missing) |-> Line(Prompts[new[i]])]
      BY <1>3
    <2>4. \A i \in 1 .. Cardinality(missing) : Line(Prompts[new[i]]) \in Lines
      BY <2>2, AnswerType
    <2> HIDE DEF added
    <2>5. added \in [1 .. Cardinality(missing) -> Lines]
      BY <2>3, <2>4
    <2>6. added \in Seq(Lines) /\ Len(added) = Cardinality(missing)
      BY <1>3, <2>5
    <2>7. QED
      BY <2>2, <2>3, <2>6
  <1>6. Updated = changed \o added
    BY DEF Updated
  <1>7. \A i \in DOMAIN file : changed[i] = IF file[i].key \in Keys /\ first(i)
                                            THEN Line(file[i].key) ELSE file[i]
    OBVIOUS
  <1> HIDE DEF changed, added
  <1>8. /\ Updated \in Seq(Lines) /\ Len(Updated) = Len(file) + Len(added)
        /\ \A i \in 1 .. Len(file) : Updated[i] = changed[i]
        /\ \A i \in 1 .. Len(added) : Updated[Len(file) + i] = added[i]
    <2>1. changed \in Seq(Lines) /\ added \in Seq(Lines)
      BY <1>4, <1>5
    <2>2. /\ changed \o added \in Seq(Lines)
          /\ Len(changed \o added) = Len(changed) + Len(added)
          /\ \A i \in 1 .. Len(changed) : (changed \o added)[i] = changed[i]
          /\ \A i \in 1 .. Len(added) : (changed \o added)[Len(changed) + i] = added[i]
      BY <2>1, Joined
    <2>3. QED
      BY <1>4, <1>6, <2>2
  <1>9. \A i \in DOMAIN Updated \ DOMAIN file : \E k \in Keys : Updated[i] = Line(k)
    <2> SUFFICES ASSUME NEW i \in DOMAIN Updated \ DOMAIN file
                 PROVE  \E k \in Keys : Updated[i] = Line(k)
      OBVIOUS
    <2>1. Len(added) \in Nat
      BY <1>5
    <2>2. i \in 1 .. Len(file) + Len(added) /\ i \notin 1 .. Len(file)
      BY <1>1, <1>8
    <2>3. i - Len(file) \in 1 .. Len(added) /\ Len(file) + (i - Len(file)) = i
      BY <1>1, <2>1, <2>2
    <2>4. Updated[i] = added[i - Len(file)]
      BY <1>8, <2>3
    <2>5. QED
      BY <1>5, <2>3, <2>4
  <1>10. Len(Updated) >= Len(file)
    <2>1. Len(added) \in Nat
      BY <1>5
    <2>2. Len(Updated) = Len(file) + Len(added)
      BY <1>8
    <2>3. QED
      BY <1>1, <2>1, <2>2
  <1>11. \A i \in DOMAIN file : Updated[i] = IF file[i].key \in Keys /\ first(i)
                                             THEN Line(file[i].key) ELSE file[i]
    <2>1. \A i \in DOMAIN file : Updated[i] = changed[i]
      BY <1>1, <1>8
    <2>2. QED
      BY <1>7, <2>1
  <1>12. Updated \in Seq(Lines)
    BY <1>8
  <1>13. QED
    BY <1>9, <1>10, <1>11, <1>12

\* The other lines are those of the file that was read, at their places.
LEMMA OthersAreKept ==
    ASSUME TypeOK, Len(answers) = Len(Prompts)
    PROVE  OthersOf(Updated) = OtherLines
  <1> DEFINE place(lines) == {j \in DOMAIN lines : lines[j].key \in Others}
  <1>1. Updated \in Seq(Lines) /\ file \in Seq(Lines) /\ Len(Updated) >= Len(file)
    BY UpdatedLines DEF TypeOK
  <1>2. DOMAIN file \subseteq DOMAIN Updated
    BY <1>1
  <1>3. \A k \in Keys : Line(k).key = k /\ k \notin Others
    BY AnswerType, StartupAssumption
  <1>4. \A i \in DOMAIN file : /\ Updated[i].key = file[i].key
                               /\ file[i].key \in Others => Updated[i] = file[i]
    BY <1>3, UpdatedLines
  <1>5. \A i \in DOMAIN Updated \ DOMAIN file : Updated[i].key \notin Others
    BY <1>3, UpdatedLines
  <1>6. place(Updated) = place(file)
    BY <1>2, <1>4, <1>5
  <1>7. \A i \in place(file) : Updated[i] = file[i]
    BY <1>4
  <1>8. QED
    BY <1>6, <1>7 DEF OthersOf, OtherLines

\* The first line of every setting is the answer to it.
LEMMA AnswersAreSaved ==
    ASSUME TypeOK, Len(answers) = Len(Prompts)
    PROVE  Saves(Updated, answers)
  <1>1. Updated \in Seq(Lines) /\ file \in Seq(Lines) /\ Len(Updated) >= Len(file)
    BY UpdatedLines DEF TypeOK
  <1>2. DOMAIN file = 1 .. Len(file) /\ Len(file) \in Nat /\ DOMAIN file \subseteq DOMAIN Updated
    BY <1>1
  <1>3. \A k \in Keys : Line(k).key = k /\ Line(k).value = AnswerTo(k)
    BY AnswerType
  <1>4. \A i \in DOMAIN file : Updated[i].key = file[i].key
    BY <1>3, UpdatedLines
  <1>5. ASSUME NEW n \in DOMAIN Prompts, NEW i \in DOMAIN Updated,
               Updated[i].key = Prompts[n],
               \A j \in 1 .. i - 1 : Updated[j].key # Prompts[n]
        PROVE  Updated[i].value = answers[n]
    <2>1. Prompts[n] \in Keys /\ AnswerTo(Prompts[n]) = answers[n]
      BY PromptOfKey, AnswerOfKey
    <2>2. CASE i \in DOMAIN file
      <3>1. file[i].key = Prompts[n]
        BY <1>4, <1>5, <2>2
      <3>2. \A j \in 1 .. i - 1 : file[j].key # file[i].key
        BY <1>2, <1>4, <1>5, <2>2, <3>1
      <3>3. Updated[i] = Line(Prompts[n])
        BY <2>1, <2>2, <3>1, <3>2, UpdatedLines
      <3>4. QED
        BY <1>3, <2>1, <3>3
    <2>3. CASE i \notin DOMAIN file
      <3>1. PICK k \in Keys : Updated[i] = Line(k)
        BY <2>3, UpdatedLines
      <3>2. k = Prompts[n]
        BY <1>3, <1>5, <3>1
      <3>3. QED
        BY <1>3, <2>1, <3>1, <3>2
    <2>4. QED
      BY <2>2, <2>3
  <1>6. QED
    BY <1>5 DEF Saves

----------------------------------------------------------------------------
(* The steps *)

\* Nothing of the file is kept in a first state, and nothing was asked for.
LEMMA InitStartup == Init => StartupInv
  <1> SUFFICES ASSUME Init PROVE StartupInv
    OBVIOUS
  <1>1. \A k \in Keys : shell[k] \in Values(k) \cup {Unset} /\ env[k] \in Values(k) \cup {Unset}
    BY DEF Init
  <1>2. PICK n \in 0 .. FileLength : file \in [1 .. n -> Lines]
    BY DEF Init
  <1>3. n \in Nat /\ 1 .. n \subseteq 1 .. FileLength
    BY StartupAssumption
  <1>4. file \in Seq(Lines)
    BY <1>2, <1>3
  <1>5. others \in UNION {[places -> Lines] : places \in SUBSET (1 .. FileLength)}
    <2> DEFINE places == {j \in DOMAIN file : file[j].key \in Others}
    <2>1. others = [i \in places |-> file[i]]
      BY DEF Init, OtherLines, OthersOf
    <2>2. places \subseteq 1 .. n
      BY <1>2
    <2>3. others \in [places -> Lines]
      BY <1>2, <2>1, <2>2
    <2> HIDE DEF places
    <2>4. places \in SUBSET (1 .. FileLength)
      BY <1>3, <2>2
    <2>5. QED
      BY <2>3, <2>4
  <1>6. TypeOK
    BY <1>1, <1>4, <1>5, PromptOfKey DEF Init, TypeOK
  <1>7. QED
    BY <1>6 DEF Init, StartupInv

\* A line of a setting has one of its values.
LEMMA LineValue ==
    ASSUME NEW l \in Lines, l.key \in Keys
    PROVE  l.value \in Values(l.key)
  <1>1. l \notin [key : Others, value : {Text}]
    BY StartupAssumption
  <1>2. PICK k \in Keys : l \in [key : {k}, value : Values(k)]
    BY <1>1 DEF Lines
  <1>3. QED
    BY <1>2

\* The lines of a setting are finitely many places.
LEMMA LinesAreFinite ==
    ASSUME TypeOK, NEW k
    PROVE  /\ LinesOf(k) \subseteq DOMAIN file
           /\ LinesOf(k) \in SUBSET Nat /\ IsFiniteSet(LinesOf(k))
  <1>1. Len(file) \in Nat /\ DOMAIN file = 1 .. Len(file)
    BY DEF TypeOK
  <1>2. LinesOf(k) \subseteq 1 .. Len(file)
    BY <1>1 DEF LinesOf
  <1>3. IsFiniteSet(1 .. Len(file)) /\ 1 .. Len(file) \subseteq Nat
    BY <1>1, FS_Interval
  <1>4. IsFiniteSet(LinesOf(k))
    BY <1>2, <1>3, FS_Subset
  <1>5. QED
    BY <1>1, <1>2, <1>3, <1>4

\* Finitely many places, if any, have a last one.
LEMMA LastPlace ==
    ASSUME NEW places \in SUBSET Nat, IsFiniteSet(places), places # {}
    PROVE  \E i \in places : \A j \in places : j <= i
  <1> DEFINE n == Cardinality(places)
             order == InOrder(places)
  <1>1. n \in Nat /\ n # 0
    BY FS_CardinalityType, FS_EmptySet
  <1>2. /\ order \in [1 .. n -> places]
        /\ \A i, j \in 1 .. n : i < j => order[i] < order[j]
        /\ \A p \in places : \E i \in 1 .. n : order[i] = p
    BY InOrderOfPlaces
  <1> HIDE DEF n, order
  <1>3. order[n] \in places
    BY <1>1, <1>2
  <1>4. ASSUME NEW p \in places PROVE p <= order[n]
    <2>1. PICK i \in 1 .. n : order[i] = p
      BY <1>2
    <2>2. p \in Nat /\ order[n] \in Nat
      BY <1>3
    <2>3. CASE i = n
      BY <2>1, <2>2, <2>3
    <2>4. CASE i < n
      <3>1. order[i] < order[n]
        BY <1>1, <1>2, <2>1, <2>4
      <3>2. QED
        BY <2>1, <2>2, <3>1
    <2>5. QED
      BY <1>1, <2>1, <2>3, <2>4
  <1>5. QED
    BY <1>3, <1>4

\* load_dotenv takes a value from the shell or from a line of the file.
LEMMA FromFileType ==
    ASSUME TypeOK, NEW k \in Keys
    PROVE  FromFile(k) \in Values(k) \cup {Unset}
  <1>1. CASE shell[k] = Unset /\ sameFile /\ LinesOf(k) # {}
    <2> DEFINE last == CHOOSE i \in LinesOf(k) : \A j \in LinesOf(k) : j <= i
    <2>1. file \in Seq(Lines) /\ Len(file) \in Nat /\ DOMAIN file = 1 .. Len(file)
      BY DEF TypeOK
    <2>2. last \in LinesOf(k)
      BY <1>1, LinesAreFinite, LastPlace
    <2>3. file[last] \in Lines /\ file[last].key = k
      BY <2>1, <2>2 DEF LinesOf
    <2>4. file[last].value \in Values(k)
      BY <2>3, LineValue
    <2>5. FromFile(k) = file[last].value
      BY <1>1 DEF FromFile
    <2>6. QED
      BY <2>4, <2>5
  <1>2. QED
    BY <1>1 DEF FromFile, TypeOK

\* A lasting setting is read from its only line.
LEMMA LastingIsRead ==
    ASSUME TypeOK, Saves(file, kept), NEW n \in DOMAIN Prompts, Lasting(n)
    PROVE  FromFile(Prompts[n]) = kept[n]
  <1> DEFINE k == Prompts[n]
  <1>1. shell[k] = Unset /\ sameFile /\ Cardinality(LinesOf(k)) = 1
    BY DEF Lasting
  <1>2. file \in Seq(Lines) /\ Len(file) \in Nat /\ DOMAIN file = 1 .. Len(file)
    BY DEF TypeOK
  <1>3. IsFiniteSet(LinesOf(k))
    BY LinesAreFinite
  <1>4. PICK i : LinesOf(k) = {i}
    BY <1>1, <1>3, FS_Singleton
  <1>5. i \in DOMAIN file /\ file[i].key = k
    BY <1>4 DEF LinesOf
  <1>6. \A j \in 1 .. i - 1 : file[j].key # k
    BY <1>2, <1>4, <1>5 DEF LinesOf
  <1>7. file[i].value = kept[n]
    BY <1>5, <1>6 DEF Saves
  <1>8. (CHOOSE l \in LinesOf(k) : \A j \in LinesOf(k) : j <= l) = i
    <2>1. i <= i
      BY <1>2, <1>5
    <2>2. QED
      BY <1>4, <2>1
  <1>9. QED
    BY <1>1, <1>4, <1>7, <1>8 DEF FromFile

\* The environment of a start is what load_dotenv makes of the file.
LEMMA StartStep ==
    ASSUME StartupInv, Start
    PROVE  StartupInv'
  <1> USE DEF Start
  <1>1. TypeOK /\ (kept # <<>> => Saves(file, kept)) /\ OtherLines = others
    BY DEF StartupInv
  <1>2. /\ \A k \in Keys : env'[k] = FromFile(k)
        /\ \A k \in Keys : env'[k] \in Values(k) \cup {Unset}
    BY <1>1, FromFileType
  <1>3. TypeOK'
    BY <1>1, <1>2, PromptOfKey DEF TypeOK
  <1>4. ASSUME kept # <<>>, NEW i \in DOMAIN Prompts, Lasting(i)
        PROVE  Setting(Prompts[i])' = kept[i]
    <2>1. Prompts[i] \in Keys /\ i \in DOMAIN kept
      BY <1>1, <1>4, PromptOfKey DEF Saves, TypeOK
    <2>2. FromFile(Prompts[i]) = kept[i] /\ kept[i] # Unset
      BY <1>1, <1>4, <2>1, LastingIsRead, StartupAssumption DEF TypeOK
    <2>3. QED
      BY <1>2, <2>1, <2>2 DEF Setting
  <1>5. \A i \in DOMAIN Prompts : Lasting(i)' <=> Lasting(i)
    BY DEF Lasting, LinesOf
  <1>6. (OtherLines = others)' /\ (kept # <<>> => Saves(file, kept))'
    BY <1>1 DEF OtherLines, OthersOf, Saves
  <1>7. RequiredGiven'
    BY DEF RequiredGiven
  <1>8. QED
    BY <1>3, <1>4, <1>5, <1>6, <1>7 DEF StartupInv

\* What a step that leaves the file and what was saved in it leaves to be true.
LEMMA FileStays ==
    ASSUME StartupInv, UNCHANGED <<shell, sameFile, file, kept>>
    PROVE  /\ (kept # <<>> => Saves(file, kept))'
           /\ \A i \in DOMAIN Prompts : Lasting(i)' <=> Lasting(i)
           /\ OtherLines' = OtherLines
  BY DEF StartupInv, Saves, Lasting, LinesOf, OtherLines, OthersOf

\* An answer is one of the settings' values, and not blank where one is required.
LEMMA PromptStep ==
    ASSUME StartupInv, Prompt
    PROVE  StartupInv'
  <1> USE DEF Prompt
  <1> DEFINE n == Len(answers) + 1
             k == Prompts[n]
  <1>1. TypeOK /\ OtherLines = others /\ RequiredGiven /\ prompted
    BY DEF StartupInv
  <1>2. answers \in Seq(UNION {Values(j) : j \in Keys}) /\ Len(answers) \in Nat
    BY <1>1 DEF TypeOK
  <1>3. n \in DOMAIN Prompts /\ k \in Keys
    BY <1>2, PromptOfKey
  <1>4. PICK value \in Answers[k] \cup {Setting(k)} :
            /\ value = Blank => k \notin Required
            /\ answers' = Append(answers, value)
    OBVIOUS
  <1>5. value \in Values(k)
    BY <1>1, <1>3, <1>4, SettingType DEF Values
  <1>6. /\ answers' \in Seq(UNION {Values(j) : j \in Keys}) /\ Len(answers') = n
        /\ \A i \in 1 .. Len(answers) : answers'[i] = answers[i]
        /\ answers'[n] = value
    BY <1>2, <1>3, <1>4, <1>5
  <1>7. DOMAIN answers' = 1 .. n /\ DOMAIN answers = 1 .. Len(answers)
    BY <1>2, <1>6
  <1> HIDE DEF n, k
  <1>8. \A i \in DOMAIN answers' : i \in DOMAIN answers \/ i = n
    BY <1>2, <1>7 DEF n
  <1>9. \A i \in DOMAIN answers' : answers'[i] \in Values(Prompts[i])
    BY <1>1, <1>5, <1>6, <1>7, <1>8 DEF TypeOK, k
  <1>10. TypeOK'
    <2>1. n <= Len(Prompts)
      BY <1>3, PromptOfKey
    <2>2. kept' = kept /\ env' = env /\ shell' = shell
      OBVIOUS
    <2>3. \A given \in {answers', kept} :
              /\ given \in Seq(UNION {Values(j) : j \in Keys}) /\ Len(given) <= Len(Prompts)
              /\ \A i \in DOMAIN given : given[i] \in Values(Prompts[i])
      BY <1>1, <1>6, <1>9, <2>1 DEF TypeOK
    <2>4. QED
      BY <1>1, <2>2, <2>3 DEF TypeOK
  <1>11. RequiredGiven'
    BY <1>1, <1>4, <1>6, <1>7, <1>8 DEF RequiredGiven, k
  <1>12. phase' = "prompts" /\ prompted'
    BY <1>1
  <1>13. QED
    BY <1>1, <1>10, <1>11, <1>12, FileStays DEF StartupInv

\* The file is emptied for writing: nothing is in it, and what is to be written
\* has the answers and the other lines.
LEMMA OpenStep ==
    ASSUME StartupInv, OpenFile
    PROVE  StartupInv'
  <1> USE DEF OpenFile
  <1>1. TypeOK /\ OtherLines = others /\ RequiredGiven /\ prompted /\ Len(answers) = Len(Prompts)
    BY DEF StartupInv
  <1>2. \A k \in Keys : /\ AnswerTo(k)' = AnswerTo(k)
                        /\ env'[k] = IF AnswerTo(k) = Blank THEN Unset ELSE AnswerTo(k)
                        /\ env'[k] \in Values(k) \cup {Unset}
    BY <1>1, AnswerType DEF AnswerTo
  <1>3. /\ content' \in Seq(Lines) /\ OthersOf(content') = others
        /\ Saves(content', answers)
    BY <1>1, UpdatedLines, OthersAreKept, AnswersAreSaved
  <1>4. TypeOK'
    <2>1. file' \in Seq(Lines)
      OBVIOUS
    <2>2. /\ answers \in Seq(UNION {Values(k) : k \in Keys}) /\ Len(answers) <= Len(Prompts)
          /\ \A i \in DOMAIN answers : answers[i] \in Values(Prompts[i])
      BY <1>1 DEF TypeOK
    <2>3. /\ kept' = <<>> /\ kept' \in Seq(UNION {Values(k) : k \in Keys})
          /\ Len(kept') = 0 /\ DOMAIN kept' = {}
      OBVIOUS
    <2>4. Len(Prompts) \in Nat
      BY StartupAssumption
    <2>5. \A given \in {answers', kept'} :
              /\ given \in Seq(UNION {Values(k) : k \in Keys}) /\ Len(given) <= Len(Prompts)
              /\ \A i \in DOMAIN given : given[i] \in Values(Prompts[i])
      <3>1. CASE answers' = kept'
        BY <2>2, <3>1
      <3>2. 0 <= Len(Prompts)
        BY <2>4
      <3>3. QED
        BY <2>2, <2>3, <3>2
    <2>6. /\ \A k \in Keys : /\ shell'[k] \in Values(k) \cup {Unset}
                             /\ env'[k] \in Values(k) \cup {Unset}
          /\ others' \in UNION {[places -> Lines] : places \in SUBSET (1 .. FileLength)}
          /\ phase' \in {"off", "prompts", "writing", "load", "running"}
          /\ processor' \in {"none", "yasinai", "passthrough"}
      BY <1>1, <1>2 DEF TypeOK
    <2>7. QED
      BY <1>3, <2>1, <2>5, <2>6 DEF TypeOK
  <1>5. OthersOf(content)' = OthersOf(content') /\ Saves(content, answers)' = Saves(content', answers)
    BY DEF OthersOf, Saves
  <1>6. RequiredGiven'
    BY <1>1 DEF RequiredGiven
  <1>7. QED
    BY <1>1, <1>2, <1>3, <1>4, <1>5, <1>6 DEF StartupInv

\* The file is filled with it, and the environment has the same answers.
LEMMA FillStep ==
    ASSUME StartupInv, FillFile
    PROVE  StartupInv'
  <1> USE DEF FillFile
  <1>1. /\ TypeOK /\ OthersOf(content) = others /\ Saves(content, answers)
        /\ RequiredGiven /\ prompted
        /\ \A k \in Keys : env[k] = IF AnswerTo(k) = Blank THEN Unset ELSE AnswerTo(k)
    BY DEF StartupInv
  <1>2. TypeOK'
    BY <1>1 DEF TypeOK
  <1>3. (OtherLines = others)'
    BY <1>1 DEF OtherLines, OthersOf
  <1>4. Saves(file, kept)'
    BY <1>1 DEF Saves
  <1>5. ASSUME NEW i \in DOMAIN Prompts
        PROVE  /\ env'[Prompts[i]] = IF answers[i] = Blank THEN Unset ELSE answers[i]
               /\ answers[i] # Unset
               /\ Prompts[i] \in Required => answers[i] # Blank
    <2>1. Prompts[i] \in Keys /\ i \in DOMAIN answers
      BY <1>1, PromptOfKey DEF Saves, TypeOK
    <2>2. QED
      BY <1>1, <2>1, AnswerOfKey, StartupAssumption DEF TypeOK, RequiredGiven
  <1>6. ASSUME NEW i \in DOMAIN Prompts, Lasting(i)'
        PROVE  Setting(Prompts[i])' = kept'[i]
    <2>1. answers[i] # Blank \/ Default[Prompts[i]] = Blank
      BY <1>6 DEF Lasting
    <2>2. QED
      BY <1>5, <2>1 DEF Setting
  <1>7. \A k \in Required : env'[k] \notin {Unset, Blank}
    <2> SUFFICES ASSUME NEW k \in Required PROVE env'[k] \notin {Unset, Blank}
      OBVIOUS
    <2>1. PICK i \in DOMAIN Prompts : Prompts[i] = k
      BY PromptOfKey, StartupAssumption
    <2>2. QED
      BY <1>5, <2>1
  <1>8. QED
    BY <1>2, <1>3, <1>4, <1>6, <1>7 DEF StartupInv

\* load_config reads the environment, and a processor that is built makes it run.
LEMMA LoadStep ==
    ASSUME StartupInv, Load
    PROVE  StartupInv'
  <1> USE DEF Load
  <1>1. TypeOK /\ OtherLines = others
    BY DEF StartupInv
  <1>2. processor' \in {"none", "yasinai", "passthrough"}
    BY DEF ProcessorBuilt
  <1>3. phase' \in {"off", "running"} /\ (phase' = "running" => processor' # "none")
    OBVIOUS
  <1>4. TypeOK'
    BY <1>1, <1>2, <1>3 DEF TypeOK
  <1>5. \A k : Setting(k)' = Setting(k)
    BY DEF Setting
  <1>6. phase' = "running" => processor' = ProcessorBuilt'
    BY <1>3, <1>5 DEF ProcessorBuilt
  <1>7. QED
    BY <1>1, <1>3, <1>4, <1>5, <1>6, FileStays DEF StartupInv

\* An end, or a kill: in the middle of the write it takes the other lines along.
LEMMA StopStep ==
    ASSUME StartupInv, Stop
    PROVE  StartupInv'
  <1> USE DEF Stop
  <1>1. TypeOK
    BY DEF StartupInv
  <1>2. others' \in UNION {[places -> Lines] : places \in SUBSET (1 .. FileLength)}
    <2>1. <<>> \in [{} -> Lines]
      OBVIOUS
    <2>2. QED
      BY <1>1, <2>1 DEF TypeOK
  <1>3. TypeOK'
    <2>1. content' \in Seq(Lines) /\ phase' \in {"off", "prompts", "writing", "load", "running"}
      OBVIOUS
    <2>2. /\ shell' = shell /\ env' = env /\ file' = file /\ answers' = answers
          /\ kept' = kept /\ processor' = processor
      OBVIOUS
    <2> HIDE DEF Stop
    <2>3. QED
      BY <1>1, <1>2, <2>1, <2>2 DEF TypeOK
  <1>4. (OtherLines = others)'
    <2>1. CASE phase = "writing"
      <3>1. file' = <<>> /\ others' = <<>>
        BY <2>1 DEF StartupInv
      <3>2. QED
        BY <3>1 DEF OtherLines, OthersOf
    <2>2. CASE phase # "writing"
      BY <2>2, FileStays DEF StartupInv
    <2>3. QED
      BY <2>1, <2>2
  <1>5. QED
    BY <1>3, <1>4, FileStays DEF StartupInv

LEMMA NextStartup == StartupInv /\ [Next]_vars => StartupInv'
  <1> SUFFICES ASSUME StartupInv, [Next]_vars PROVE StartupInv'
    OBVIOUS
  <1>1. CASE Next
    BY <1>1, StartStep, PromptStep, OpenStep, FillStep, LoadStep, StopStep DEF Next
  <1>2. CASE UNCHANGED vars
    <2>1. TypeOK'
      BY <1>2 DEF vars, StartupInv, TypeOK
    <2>2. QED
      BY <1>2, <2>1, FileStays DEF vars, StartupInv, OthersOf, Saves, AnswerTo, Setting,
         RequiredGiven, ProcessorBuilt
  <1>3. QED
    BY <1>1, <1>2

----------------------------------------------------------------------------
(* The theorems *)

\* The invariant holds for every list of prompts, every set of answers and every
\* first file.
THEOREM StartupInvariant == Spec => []StartupInv
  BY InitStartup, NextStartup, PTL DEF Spec

\* The settings that were saved last are those every later process runs with, and
\* the other lines of the .env file stay where they are, whatever processes are
\* killed and started again.
THEOREM SettingsSurvive == Spec => []SavedSettingsSurvive
  <1>1. StartupInv => SavedSettingsSurvive
    BY DEF StartupInv, SavedSettingsSurvive
  <1>2. QED
    BY <1>1, StartupInvariant, PTL

\* A process that asked for its settings runs only with the required ones, and a
\* process that runs turns no text into nothing, but for PassthroughProcessor's AI.
THEOREM ConfiguredToRun == Spec => []RunningIsConfigured
  <1>1. StartupInv => RunningIsConfigured
    <2> SUFFICES ASSUME StartupInv, phase = "running"
                 PROVE  /\ prompted => \A k \in Required : Setting(k) # Blank
                        /\ \A result \in AIResults : ProcessedText(Text, result) = Blank =>
                               /\ Setting(Provider) = "passthrough" /\ Setting(ApiKey) # Blank
                               /\ result = "blank"
      BY DEF RunningIsConfigured
    <2>1. prompted => \A k \in Required : Setting(k) # Blank
      BY DEF StartupInv, Setting
    <2>2. ASSUME NEW result \in AIResults, ProcessedText(Text, result) = Blank
          PROVE  /\ Setting(Provider) = "passthrough" /\ Setting(ApiKey) # Blank
                 /\ result = "blank"
      <3>1. processor = ProcessorBuilt /\ processor # "none"
        BY DEF StartupInv
      <3>2. Blank # Text /\ Blank # "improved"
        BY StartupAssumption
      <3>3. processor # "yasinai"
        BY <2>2, <3>2 DEF ProcessedText, YasinAIText
      <3>4. Setting(Provider) = "passthrough"
        BY <3>1, <3>3 DEF ProcessorBuilt
      <3>5. PassthroughText(Text, result) = Blank
        BY <2>2, <3>3 DEF ProcessedText
      <3>6. QED
        BY <3>2, <3>4, <3>5 DEF PassthroughText
    <2>3. QED
      BY <2>1, <2>2
  <1>2. QED
    BY <1>1, StartupInvariant, PTL
=============================================================================
