---------------------------- MODULE GatewayProofs -----------------------------
(* The tools behind the gateway, for any projects, environments, connections, *)
(* grants, calls and listings.                                                *)
EXTENDS Gateway, FiniteSetTheorems, SequenceTheorems, TLAPS

-----------------------------------------------------------------------------
(* Induction and least elements, with sets for predicates *)

LEMMA SetInduction ==
  ASSUME NEW S \in SUBSET Nat, 0 \in S, \A n \in S : n + 1 \in S
  PROVE  S = Nat
<1> DEFINE T == Nat \ S
<1> SUFFICES ASSUME T # {} PROVE FALSE
  OBVIOUS
<1>1. PICK m \in T : \A k \in T : ~(<<k, m>> \in OpToRel(<, Nat))
  BY NatLessThanWellFounded, WFMin, Zenon
<1>2. m \in Nat \ {0} /\ m \notin S
  OBVIOUS
<1>3. m - 1 \in S
  <2> SUFFICES ASSUME m - 1 \notin S PROVE FALSE
    OBVIOUS
  <2>1. m - 1 \in T /\ m - 1 < m
    BY <1>2
  <2> QED  BY <1>1, <2>1, <1>2 DEF OpToRel
<1> QED  BY <1>2, <1>3

LEMMA LeastElement ==
  ASSUME NEW S \in SUBSET Nat, S # {}
  PROVE  \E m \in S : \A k \in S : m <= k
<1>1. PICK m \in S : \A k \in S : ~(<<k, m>> \in OpToRel(<, Nat))
  BY NatLessThanWellFounded, WFMin, Zenon
<1>2. \A k \in S : ~(k < m)
  BY <1>1 DEF OpToRel
<1> QED  BY <1>2

-----------------------------------------------------------------------------
(* Catalog *)

\* The cardinality that Catalog speaks of is the one of the library's theorems.
LEMMA CardinalityOfAssets == \A S : Assets!Cardinality(S) = Cardinality(S)
  BY DEF Assets!Cardinality, Cardinality, Assets!IsFiniteSet, IsFiniteSet

LEMMA PositionsAreNumbers ==
  /\ Assets!Positions \subseteq Nat \ {0}
  /\ \A S \in SUBSET Assets!Positions : IsFiniteSet(S) /\ S # Assets!None
<1>1. Assets!Positions = 1 .. Len(AssetListings) /\ Len(AssetListings) \in Nat
  BY ListingsAssumption DEF Assets!Positions
<1>2. IsFiniteSet(Assets!Positions)
  BY <1>1, FS_Interval
<1>3. ASSUME NEW S \in SUBSET Assets!Positions
      PROVE  IsFiniteSet(S) /\ S # Assets!None
  <2>1. IsFiniteSet(S)
    BY <1>2, FS_Subset
  <2>2. 0 \notin S
    BY <1>1
  <2> QED  BY <2>1, <2>2 DEF Assets!None, Assets!Nothing
<1> QED  BY <1>1, <1>3

\* What was read of the listings and the subscriptions in the time of a call.
CatalogInv ==
  /\ subs \in [Assets!Positions -> {"none", "pending", "approved"}]
  /\ ever \subseteq Assets!Positions /\ always \subseteq Assets!Positions
  /\ items # Assets!None => items \subseteq Assets!Positions
  /\ granted # Assets!None => granted \subseteq Assets!Positions
  /\ stage = "waiting" =>
       /\ Assets!Approved \subseteq ever /\ always \subseteq Assets!Approved
       /\ granted # Assets!None =>
            granted \subseteq ever /\ (Cardinality(ever) <= PageSize => always \subseteq granted)

\* The subscription of a listing is one that was read, of the same asset, if there is one.
LEMMA SubscriptionIsRead ==
  ASSUME granted \subseteq Assets!Positions, NEW i \in Assets!Positions
  PROVE  \/ /\ Assets!SubscriptionTo(i) = Assets!Nothing
            /\ \A j \in granted : ~Assets!Same(i, j)
         \/ /\ Assets!SubscriptionTo(i) \in granted /\ Assets!SubscriptionTo(i) # Assets!Nothing
            /\ Assets!Same(i, Assets!SubscriptionTo(i))
<1> DEFINE placed == {j \in granted : Assets!Same(i, j)}
<1>1. Assets!SubscriptionTo(i) =
        IF i \in granted THEN i ELSE IF placed # {} THEN CHOOSE j \in placed : TRUE ELSE Assets!Nothing
  BY DEF Assets!SubscriptionTo
<1>2. Assets!Nothing \notin granted
  BY PositionsAreNumbers DEF Assets!Nothing
<1>3. Assets!Same(i, i)
  BY DEF Assets!Same
<1>4. CASE placed = {}
  BY <1>1, <1>3, <1>4
<1>5. CASE placed # {}
  <2>1. (CHOOSE j \in placed : TRUE) \in placed
    BY <1>5
  <2>2. Assets!SubscriptionTo(i) \in placed
    BY <1>1, <1>3, <2>1
  <2> QED  BY <1>2, <2>2
<1> QED  BY <1>4, <1>5

LEMMA SameIsSymmetric == \A i, j : Assets!Same(i, j) => Assets!Same(j, i)
  BY DEF Assets!Same

\* What FlagsAreTrue says of an entry.
True(e) ==
  /\ e.subscribed => Assets!Owned(e.at) \/ (e.id \in ever /\ Assets!Same(e.id, e.at))
  /\ ~e.subscribed /\ Cardinality(ever) <= PageSize =>
       ~Assets!Owned(e.at) /\ \A i \in always : ~Assets!Same(i, e.at)

LEMMA EntriesAreTrue ==
  ASSUME CatalogInv, stage = "waiting", items # Assets!None, granted # Assets!None
  PROVE  /\ \A e \in Assets!SearchEntries : True(e)
         /\ \A e \in Assets!ListEntries : True(e)
<1> USE DEF CatalogInv
<1>1. ASSUME NEW i \in items, NEW e, e = Assets!Entry(i, Assets!Owned(i) \/ Assets!SubscriptionTo(i) # Assets!Nothing,
                                                    Assets!SubscriptionTo(i), Assets!Place(i))
      PROVE  True(e)
  <2>1. /\ e.at = i /\ e.id = Assets!SubscriptionTo(i)
        /\ e.subscribed <=> Assets!Owned(i) \/ Assets!SubscriptionTo(i) # Assets!Nothing
    BY <1>1 DEF Assets!Entry
  <2> QED  BY <2>1, SubscriptionIsRead, SameIsSymmetric DEF True
<1>2. ASSUME NEW i \in granted, NEW e, e = Assets!Entry(i, TRUE, i, "")
      PROVE  True(e)
  <2>1. e.at = i /\ e.id = i /\ e.subscribed
    BY <1>2 DEF Assets!Entry
  <2> QED  BY <2>1 DEF True, Assets!Same
<1>3. ASSUME NEW i \in items, Assets!Owned(i), NEW e,
             e = Assets!Entry(i, TRUE, Assets!Nothing, Assets!Place(i))
      PROVE  True(e)
  <2>1. e.at = i /\ e.subscribed
    BY <1>3 DEF Assets!Entry
  <2> QED  BY <1>3, <2>1 DEF True
<1> QED  BY <1>1, <1>2, <1>3, Zenon DEF Assets!SearchEntries, Assets!ListEntries

\* The entries of a search are told apart by their positions, the first of some is one.
LEMMA FirstIsOne ==
  ASSUME items \subseteq Assets!Positions, NEW S \in SUBSET Assets!SearchEntries, S # {}
  PROVE  Assets!First(S) \in S
<1> DEFINE at == {e.at : e \in S}
<1>1. at \in SUBSET Nat
  <2>1. \A e \in Assets!SearchEntries : e.at \in items
    BY DEF Assets!SearchEntries, Assets!Entry
  <2> QED  BY <2>1, PositionsAreNumbers
<1>2. PICK m \in at : \A k \in at : m <= k
  <2> HIDE DEF at
  <2>1. at # {}
    BY DEF at
  <2> QED  BY <1>1, <2>1, LeastElement
<1>3. \E e \in S : \A f \in S : e.at <= f.at
  <2>1. PICK e \in S : e.at = m
    BY <1>2
  <2>2. \A f \in S : f.at \in at
    OBVIOUS
  <2> HIDE DEF at
  <2> QED  BY <1>2, <2>1, <2>2
<1> QED  BY <1>3, Zenon DEF Assets!First

LEMMA DedupedLocations ==
  ASSUME items \subseteq Assets!Positions, NEW e \in Assets!Dedupe(Assets!SearchEntries),
         Assets!Place(e.at) # ""
  PROVE  /\ \A f \in Assets!Dedupe(Assets!SearchEntries) :
              Assets!Place(f.at) = Assets!Place(e.at) => f = e
         /\ ~e.subscribed =>
              ~\E i \in items : /\ Assets!Place(i) = Assets!Place(e.at) /\ Assets!TypeFits(i)
                               /\ Assets!Owned(i)
<1> DEFINE group == {f \in Assets!SearchEntries : f.uri = Assets!Place(e.at)}
           subscribed == {f \in group : f.subscribed}
           kept == IF \E f \in group : f.subscribed THEN Assets!First(subscribed)
                   ELSE Assets!First(group)
<1>1. ASSUME NEW f \in Assets!SearchEntries
      PROVE  f.uri = Assets!Place(f.at)
  <2>1. PICK i \in items :
          f = Assets!Entry(i, Assets!Owned(i) \/ Assets!SubscriptionTo(i) # Assets!Nothing,
                           Assets!SubscriptionTo(i), Assets!Place(i))
    BY Zenon DEF Assets!SearchEntries
  <2> QED  BY <2>1 DEF Assets!Entry
<1>2. ASSUME NEW f \in Assets!Dedupe(Assets!SearchEntries), Assets!Place(f.at) = Assets!Place(e.at)
      PROVE  f \in Assets!SearchEntries /\ f = kept
  <2>1. f \in Assets!SearchEntries
    BY DEF Assets!Dedupe
  <2>2. f.uri = Assets!Place(e.at)
    BY <1>1, <1>2, <2>1
  <2>3. f.uri # "" => f = kept
    BY <2>2 DEF Assets!Dedupe
  <2> QED  BY <2>1, <2>2, <2>3
<1>3. ASSUME ~e.subscribed, NEW i \in items, Assets!Place(i) = Assets!Place(e.at),
             Assets!TypeFits(i), Assets!Owned(i)
      PROVE  FALSE
  <2> DEFINE own == Assets!Entry(i, Assets!Owned(i) \/ Assets!SubscriptionTo(i) # Assets!Nothing,
                                 Assets!SubscriptionTo(i), Assets!Place(i))
  <2>1. own \in Assets!SearchEntries
    BY <1>3 DEF Assets!SearchEntries
  <2>2. own.uri = Assets!Place(e.at) /\ own.subscribed
    BY <1>3 DEF Assets!Entry
  <2>3. own \in subscribed
    BY <2>1, <2>2
  <2>4. e = Assets!First(subscribed)
    <3> HIDE DEF own, subscribed
    <3> QED  BY <1>2, <2>1, <2>2
  <2>5. Assets!First(subscribed) \in subscribed
    <3>1. subscribed \in SUBSET Assets!SearchEntries
      OBVIOUS
    <3> HIDE DEF subscribed
    <3> QED  BY <2>3, <3>1, FirstIsOne
  <2> QED  BY <1>3, <2>4, <2>5
<1> QED  BY <1>2, <1>3

LEMMA CatalogStep ==
  ASSUME CatalogInv, [Assets!Next]_(Assets!catVars)
  PROVE  CatalogInv'
<1> USE DEF CatalogInv
<1>0. /\ Assets!None # {} /\ \A S \in SUBSET Assets!Positions : S # Assets!None
      /\ \A S, T : S \in SUBSET T /\ T \in SUBSET Assets!Positions => Cardinality(S) <= Cardinality(T)
      /\ \A S \in SUBSET Assets!Positions : IsFiniteSet(S) /\ Cardinality(S) \in Nat
  BY PositionsAreNumbers, FS_Subset, FS_CardinalityType DEF Assets!None
<1>1. CASE UNCHANGED Assets!catVars
  BY <1>1 DEF Assets!catVars, Assets!reading, Assets!Approved
<1>2. ASSUME NEW i \in Assets!Positions, NEW from, NEW to \in {"none", "pending", "approved"},
             Assets!Change(i, from, to), from # to, to = "approved" => from = "pending"
      PROVE  CatalogInv'
  <2>1. /\ subs' = [subs EXCEPT ![i] = to] /\ UNCHANGED <<read, stage, items, granted, entries>>
        /\ ever' = IF to = "approved" /\ stage = "waiting" THEN ever \cup {i} ELSE ever
        /\ always' = IF stage = "waiting" THEN always \ {i} ELSE always
        /\ subs[i] = from
    BY <1>2 DEF Assets!Change, Assets!reading
  <2>2. /\ Assets!Approved' \subseteq Assets!Approved \cup (IF to = "approved" THEN {i} ELSE {})
        /\ Assets!Approved \ {i} \subseteq Assets!Approved'
    BY <2>1 DEF Assets!Approved
  <2>3. ever \subseteq ever' /\ ever' \subseteq Assets!Positions /\ always' \subseteq always
    BY <2>1
  <2>4. Cardinality(ever) <= Cardinality(ever') /\ Cardinality(ever) \in Nat /\ Cardinality(ever') \in Nat
    BY <1>0, <2>3
  <2>5. Cardinality(ever') <= PageSize => Cardinality(ever) <= PageSize
    BY <2>4, ListingsAssumption
  <2> QED  BY <2>1, <2>2, <2>3, <2>5
<1>3. CASE Assets!Ask
  BY <1>3 DEF Assets!Ask, Assets!Approved
<1>4. CASE Assets!SearchReturns
  BY <1>4 DEF Assets!SearchReturns, Assets!Approved
<1>5. CASE Assets!SubscriptionsReturn
  <2>1. PICK page \in SUBSET Assets!Approved :
          /\ granted' = page
          /\ Cardinality(page) = IF Cardinality(Assets!Approved) <= PageSize
                                 THEN Cardinality(Assets!Approved) ELSE PageSize
    BY <1>5, CardinalityOfAssets, Zenon DEF Assets!SubscriptionsReturn
  <2>2. stage = "waiting" /\ UNCHANGED <<subs, read, stage, items, entries, ever, always>>
    BY <1>5 DEF Assets!SubscriptionsReturn
  <2>3. Assets!Approved \subseteq Assets!Positions
    BY DEF Assets!Approved
  <2>4. ASSUME Cardinality(ever) <= PageSize
        PROVE  Assets!Approved \subseteq page
    <3>1. Cardinality(Assets!Approved) <= Cardinality(ever)
      BY <1>0, <2>2
    <3>2. Cardinality(page) = Cardinality(Assets!Approved)
      BY <1>0, <2>1, <2>3, <2>4, <3>1, ListingsAssumption
    <3> QED  BY <1>0, <2>3, <3>2, FS_Subset
  <2>5. Assets!Approved' = Assets!Approved
    BY <2>2 DEF Assets!Approved
  <2> QED  BY <2>1, <2>2, <2>3, <2>4, <2>5
<1>6. CASE Assets!Fails
  BY <1>6 DEF Assets!Fails
<1>7. CASE Assets!Respond
  BY <1>7 DEF Assets!Respond, Assets!Approved
<1> QED
  BY <1>1, <1>2, <1>3, <1>4, <1>5, <1>6, <1>7
     DEF Assets!Next, Assets!Request, Assets!Approve, Assets!Reject, Assets!Cancel, Assets!Revoke

\* An answer that tells the truth stays true until the next question.
LEMMA AnswerStep ==
  ASSUME CatalogInv, AnswerIsTrue, [Assets!Next]_(Assets!catVars)
  PROVE  AnswerIsTrue'
<1> USE DEF AnswerIsTrue, Assets!FlagsAreTrue, Assets!LocationsOnce
<1>1. CASE Assets!Respond
  <2> DEFINE all == Assets!Dedupe(IF read.tool = "search" THEN Assets!SearchEntries ELSE Assets!ListEntries)
  <2>1. /\ stage = "waiting" /\ items # Assets!None /\ granted # Assets!None
        /\ UNCHANGED <<read, items, ever, always>>
        /\ \A e \in entries' : e \in all
    BY <1>1 DEF Assets!Respond
  <2>2. items \subseteq Assets!Positions
    BY <2>1 DEF CatalogInv
  <2>3. \A e \in entries' : e \in Assets!SearchEntries \cup Assets!ListEntries
    BY <2>1 DEF Assets!Dedupe
  <2>4. \A e \in entries' : True(e)
    BY <2>1, <2>3, EntriesAreTrue
  <2>5. Assets!FlagsAreTrue'
    <3> SUFFICES ASSUME NEW e \in entries'
                 PROVE  /\ e.subscribed => Assets!Owned(e.at) \/ (e.id \in ever' /\ Assets!Same(e.id, e.at))
                        /\ ~e.subscribed /\ Cardinality(ever') <= PageSize =>
                             ~Assets!Owned(e.at) /\ \A i \in always' : ~Assets!Same(i, e.at)
      BY CardinalityOfAssets DEF Assets!Owned, Assets!Same, Assets!Place
    <3>1. True(e) /\ ever' = ever /\ always' = always
      BY <2>1, <2>4
    <3> QED  BY <3>1 DEF True
  <2>6. ASSUME read.tool = "search"
        PROVE  \A e \in entries' : e \in Assets!Dedupe(Assets!SearchEntries)
    BY <2>1, <2>6
  <2>7. Assets!LocationsOnce'
    BY <2>1, <2>2, <2>6, DedupedLocations DEF Assets!Place, Assets!TypeFits, Assets!Owned
  <2> QED  BY <2>5, <2>7
<1>2. CASE ~Assets!Respond
  <2>1. stage' = "done" => UNCHANGED <<stage, read, items, entries, ever, always>>
    BY <1>2 DEF Assets!Next, Assets!Ask, Assets!SearchReturns, Assets!SubscriptionsReturn, Assets!Fails,
                Assets!Request, Assets!Approve, Assets!Reject, Assets!Cancel, Assets!Revoke,
                Assets!Change, Assets!catVars, Assets!reading
  <2> QED  BY <2>1 DEF Assets!Owned, Assets!Same, Assets!Place, Assets!TypeFits
<1> QED  BY <1>1, <1>2

\* Whatever is approved, cancelled or revoked between the two answers that are
\* joined, the entries tell the truth, and a search shows each location once.
THEOREM AnswersAreTrue == Assets!Spec => []AnswerIsTrue
<1>1. Assets!Init => CatalogInv /\ AnswerIsTrue
  BY DEF Assets!Init, CatalogInv, AnswerIsTrue, Assets!FlagsAreTrue, Assets!LocationsOnce
<1> QED  BY <1>1, CatalogStep, AnswerStep, PTL DEF Assets!Spec

-----------------------------------------------------------------------------
(* CatalogDetail *)

LEMMA CardinalityOfColumns == \A S : Columns!Cardinality(S) = Cardinality(S)
  BY DEF Columns!Cardinality, Cardinality, Columns!IsFiniteSet, IsFiniteSet

LEMMA DivisionBounds ==
  ASSUME NEW a \in Nat, NEW b \in Nat \ {0}
  PROVE  /\ a \div b \in Nat /\ b * (a \div b) <= a /\ a < b * (a \div b) + b
         /\ (a + b) \div b = (a \div b) + 1
  OBVIOUS

LEMMA DivisionIsMonotone ==
  ASSUME NEW a \in Nat, NEW c \in Nat, NEW b \in Nat \ {0}, a <= c
  PROVE  a \div b <= c \div b
<1> DEFINE x == a \div b
           y == c \div b
<1>1. x \in Nat /\ y \in Nat /\ b * x < b * y + b
  BY DivisionBounds
<1> HIDE DEF x, y
<1>2. ASSUME x >= y + 1
      PROVE  FALSE
  <2>1. PICK z \in Nat : x = y + 1 + z
    <3>1. x - y - 1 \in Nat /\ x = y + 1 + (x - y - 1)
      BY <1>1, <1>2
    <3> QED  BY <3>1
  <2>2. b * x = b * y + b + b * z /\ b * z >= 0
    BY <1>1, <2>1
  <2> QED  BY <1>1, <2>2
<1>3. x <= y
  BY <1>1, <1>2
<1> QED  BY <1>3 DEF x, y

\* The chunk of a column is one of the chunks, counted from 1.
ChunkOf(i) == ((i - 1) \div ChunkSize) + 1

LEMMA ColumnIsInAChunk ==
  ASSUME NEW n \in Nat
  PROVE  /\ Columns!Chunks(n) \in Nat
         /\ \A i \in 1 .. n : ChunkOf(i) \in 1 .. Columns!Chunks(n)
<1>1. n + ChunkSize - 1 \in Nat
  BY ChunksAssumption
<1>2. Columns!Chunks(n) \in Nat
  BY <1>1, ChunksAssumption, DivisionBounds DEF Columns!Chunks
<1>3. ASSUME NEW i \in 1 .. n
      PROVE  ChunkOf(i) \in 1 .. Columns!Chunks(n)
  <2> DEFINE a == i - 1
  <2>1. a \in Nat /\ a + ChunkSize \in Nat /\ a + ChunkSize <= n + ChunkSize - 1
    BY ChunksAssumption
  <2>2. ChunkOf(i) = (a + ChunkSize) \div ChunkSize /\ ChunkOf(i) \in Nat \ {0}
    <3>1. ChunkOf(i) = (a \div ChunkSize) + 1
      BY DEF ChunkOf
    <3> HIDE DEF a
    <3>2. a \div ChunkSize \in Nat /\ (a + ChunkSize) \div ChunkSize = (a \div ChunkSize) + 1
      BY <2>1, ChunksAssumption, DivisionBounds
    <3> QED  BY <3>1, <3>2
  <2> HIDE DEF a
  <2>3. ChunkOf(i) <= Columns!Chunks(n)
    BY <1>1, <2>1, <2>2, ChunksAssumption, DivisionIsMonotone DEF Columns!Chunks
  <2> QED  BY <1>2, <2>2, <2>3
<1> QED  BY <1>2, <1>3

\* The columns of the chunks up to k.
Through(k) == {i \in 1 .. subject.columns : ChunkOf(i) <= k}

\* The columns that have been asked for, and no others, are shown or reported.
ColumnsInv ==
  /\ subject \in Columns!Subjects
  /\ step \in {"get", "glossary"} => shown = {} /\ unavailable = {}
  /\ step = "get" => fetched = 0
  /\ step = "glossary" => subject.kind = "term"
  /\ step = "fetch" =>
       /\ subject.kind = "glue" /\ fetched \in 0 .. Columns!Chunks(subject.columns)
       /\ shown \cup unavailable \subseteq Through(fetched) /\ shown \cap unavailable = {}
       /\ Through(fetched) \cap subject.parts \subseteq shown \cup unavailable
  /\ Columns!DetailAccountsForAll

LEMMA SubjectTypes ==
  ASSUME subject \in Columns!Subjects
  PROVE  /\ subject.columns \in Nat
         /\ subject.kind = "glue" => subject.parts \subseteq 1 .. subject.columns
         /\ subject.kind \in {"glue", "term"} \/ subject.parts = {}
<1>1. CASE \E n \in 0 .. MaxColumns : subject \in [kind : {"glue"}, columns : {n}, parts : SUBSET (1 .. n)]
  BY <1>1, ChunksAssumption
<1>2. CASE subject \in [kind : {"s3", "form"}, columns : {0}, parts : {{}}]
  BY <1>2
<1>3. CASE subject \in [kind : {"term"}, columns : {0}, parts : {{}, {0}}]
  BY <1>3
<1>4. subject \in (UNION {[kind : {"glue"}, columns : {n}, parts : SUBSET (1 .. n)] : n \in 0 .. MaxColumns})
        => \E n \in 0 .. MaxColumns : subject \in [kind : {"glue"}, columns : {n}, parts : SUBSET (1 .. n)]
  OBVIOUS
<1>5. \/ subject \in (UNION {[kind : {"glue"}, columns : {n}, parts : SUBSET (1 .. n)] : n \in 0 .. MaxColumns})
      \/ subject \in [kind : {"s3", "form"}, columns : {0}, parts : {{}}]
      \/ subject \in [kind : {"term"}, columns : {0}, parts : {{}, {0}}]
  BY Zenon DEF Columns!Subjects
<1> QED  BY <1>1, <1>2, <1>3, <1>4, <1>5

\* The chunks that are asked for next.
LEMMA NextChunks ==
  ASSUME NEW all \in Nat, NEW f \in 0 .. all, NEW batch,
         batch = {c \in 1 .. all : f < c /\ c <= f + MaxConcurrent}
  PROVE  \E l \in f .. all : batch = (f + 1) .. l /\ Cardinality(batch) = l - f
<1> DEFINE l == IF f + MaxConcurrent <= all THEN f + MaxConcurrent ELSE all
<1>1. l \in f .. all
  BY ChunksAssumption
<1>2. batch = (f + 1) .. l
  BY ChunksAssumption
<1> HIDE DEF l
<1>3. Cardinality((f + 1) .. l) = l - f
  <2>1. f \in Int /\ f + 1 \in Int /\ l \in Int /\ f <= l
    BY <1>1
  <2>2. Cardinality((f + 1) .. l) = IF f + 1 > l THEN 0 ELSE l - (f + 1) + 1
    BY <2>1, FS_Interval
  <2> QED  BY <2>1, <2>2
<1> QED  BY <1>1, <1>2, <1>3

LEMMA ColumnsOfChunks ==
  ASSUME subject.columns \in Nat, NEW f \in Nat, NEW l \in Nat, f <= l
  PROVE  /\ UNION {Columns!Chunk(c) : c \in (f + 1) .. l} = Through(l) \ Through(f)
         /\ Through(f) \subseteq Through(l)
<1>1. ASSUME NEW i \in 1 .. subject.columns
      PROVE  /\ ChunkOf(i) \in Nat \ {0}
             /\ \A c \in Nat : i \in Columns!Chunk(c) <=> ChunkOf(i) = c
  <2> DEFINE q == (i - 1) \div ChunkSize
  <2>1. q \in Nat
    <3>1. i - 1 \in Nat
      OBVIOUS
    <3> QED  BY <3>1, ChunksAssumption, DivisionBounds
  <2>2. \A c : i \in Columns!Chunk(c) <=> q = c - 1
    BY DEF Columns!Chunk
  <2>3. ChunkOf(i) = q + 1
    BY DEF ChunkOf
  <2> HIDE DEF q
  <2> QED  BY <2>1, <2>2, <2>3
<1>2. \A c : Columns!Chunk(c) \subseteq 1 .. subject.columns
  BY DEF Columns!Chunk
<1> QED  BY <1>1, <1>2 DEF Through

LEMMA FetchStep ==
  ASSUME ColumnsInv, Columns!FetchColumns
  PROVE  ColumnsInv'
<1> DEFINE all == Columns!Chunks(subject.columns)
           batch == {c \in 1 .. all : fetched < c /\ c <= fetched + MaxConcurrent}
           asked == UNION {Columns!Chunk(c) : c \in batch}
<1>1. /\ step = "fetch" /\ subject.kind = "glue" /\ UNCHANGED subject /\ fetched \in 0 .. all
      /\ subject.columns \in Nat /\ all \in Nat
  BY SubjectTypes, ColumnIsInAChunk DEF Columns!FetchColumns, ColumnsInv
<1>2. /\ fetched' = fetched + Cardinality(batch)
      /\ step' = IF fetched' = all THEN "done" ELSE "fetch"
  BY CardinalityOfColumns, Zenon DEF Columns!FetchColumns
<1>3. PICK l \in fetched .. all : batch = (fetched + 1) .. l /\ Cardinality(batch) = l - fetched
  <2> HIDE DEF all
  <2> QED  BY <1>1, NextChunks
<1>4. fetched' = l /\ l \in Nat /\ fetched \in Nat /\ fetched <= l
  <2> HIDE DEF all, batch
  <2> QED  BY <1>1, <1>2, <1>3
<1>5. asked = Through(l) \ Through(fetched) /\ Through(fetched) \subseteq Through(l)
  <2> HIDE DEF all
  <2>1. asked = UNION {Columns!Chunk(c) : c \in (fetched + 1) .. l}
    BY <1>3, Zenon
  <2> HIDE DEF asked
  <2> QED  BY <1>1, <1>4, <2>1, ColumnsOfChunks
<1>6. PICK rejected \in SUBSET batch :
        \E failed \in SUBSET (asked \ (UNION {Columns!Chunk(c) : c \in rejected})) :
          /\ shown' = shown \cup ((asked \ ((UNION {Columns!Chunk(c) : c \in rejected}) \cup failed))
                                \cap subject.parts)
          /\ unavailable' = unavailable \cup (UNION {Columns!Chunk(c) : c \in rejected}) \cup failed
  BY Zenon DEF Columns!FetchColumns
<1> DEFINE lost == UNION {Columns!Chunk(c) : c \in rejected}
<1>7. lost \subseteq asked
  BY <1>6
<1> HIDE DEF all, batch, asked
<1>8. PICK failed \in SUBSET (asked \ lost) :
        /\ shown' = shown \cup ((asked \ (lost \cup failed)) \cap subject.parts)
        /\ unavailable' = unavailable \cup lost \cup failed
  BY <1>6
<1> HIDE DEF lost
<1>9. /\ shown' \cup unavailable' \subseteq Through(l) /\ shown' \cap unavailable' = {}
      /\ Through(l) \cap subject.parts \subseteq shown' \cup unavailable'
  <2>1. /\ shown \cup unavailable \subseteq Through(fetched) /\ shown \cap unavailable = {}
        /\ Through(fetched) \cap subject.parts \subseteq shown \cup unavailable
    BY <1>1 DEF ColumnsInv
  <2> QED  BY <1>5, <1>7, <1>8, <2>1
<1>10. CASE l = all
  <2>1. subject.parts \subseteq Through(l)
    BY <1>1, <1>10, SubjectTypes, ColumnIsInAChunk DEF Through, ColumnsInv, all
  <2> QED  BY <1>1, <1>2, <1>4, <1>9, <1>10, <2>1 DEF ColumnsInv, Columns!DetailAccountsForAll
<1>11. CASE l # all
  <2>1. Through(fetched)' = Through(l) /\ step' = "fetch"
    BY <1>1, <1>2, <1>4, <1>11 DEF Through
  <2>2. fetched' \in 0 .. all
    BY <1>1, <1>3, <1>4
  <2> QED  BY <1>1, <1>9, <2>1, <2>2 DEF ColumnsInv, Columns!DetailAccountsForAll, all
<1> QED  BY <1>10, <1>11

LEMMA ColumnsStep ==
  ASSUME ColumnsInv, [Columns!Next]_(Columns!detailVars)
  PROVE  ColumnsInv'
<1> USE DEF ColumnsInv, Columns!DetailAccountsForAll
<1> DEFINE n == subject.columns
<1>0. n \in Nat /\ Columns!Chunks(n) \in Nat
  BY SubjectTypes, ColumnIsInAChunk
<1>1. CASE UNCHANGED Columns!detailVars
  BY <1>1 DEF Columns!detailVars, Through
<1>2. CASE Columns!Get
  <2>1. UNCHANGED <<subject, fetched, shown, unavailable>> /\ fetched = 0 /\ shown = {} /\ unavailable = {}
    BY <1>2 DEF Columns!Get
  <2>2. CASE step' = "failed"
    BY <2>1, <2>2
  <2>3. CASE step' = "fetch"
    <3>1. subject.kind = "glue"
      BY <1>2, <2>3 DEF Columns!Get
    <3>2. Through(0) = {}
      BY <1>0, ColumnIsInAChunk DEF Through
    <3> QED  BY <1>0, <2>1, <2>3, <3>1, <3>2 DEF Through
  <2>4. CASE step' = "glossary"
    BY <1>2, <2>1, <2>4 DEF Columns!Get
  <2>5. CASE step' = "done"
    <3>1. CASE subject.kind = "glue"
      <4>1. Columns!Chunks(n) = 0
        BY <1>0, <1>2, <2>5, <3>1 DEF Columns!Get
      <4>2. 1 .. n = {}
        BY <1>0, <4>1, ColumnIsInAChunk
      <4> QED  BY <2>1, <2>5, <3>1, <4>2, SubjectTypes
    <3>2. CASE subject.kind # "glue"
      <4>1. subject.parts = {}
        BY <1>2, <2>5, <3>2, SubjectTypes DEF Columns!Get
      <4> QED  BY <2>1, <2>5, <4>1
    <3> QED  BY <3>1, <3>2
  <2> QED  BY <1>2, <2>2, <2>3, <2>4, <2>5 DEF Columns!Get
<1>3. CASE Columns!FetchColumns
  BY <1>3, FetchStep
<1>4. CASE Columns!GetGlossary
  BY <1>4 DEF Columns!GetGlossary
<1> QED  BY <1>1, <1>2, <1>3, <1>4 DEF Columns!Next

\* However the columns are cut into chunks and whichever are rejected, a detail has
\* or reports each part, and never both.
THEOREM DetailsAccountForAll == Columns!Spec => []DetailAccountsForAll
<1>1. Columns!Init => ColumnsInv
  BY DEF Columns!Init, ColumnsInv, Columns!DetailAccountsForAll
<1>2. ColumnsInv => DetailAccountsForAll
  BY DEF ColumnsInv, DetailAccountsForAll
<1> QED  BY <1>1, <1>2, ColumnsStep, PTL DEF Columns!Spec

-----------------------------------------------------------------------------
(* DataAccess: credentials *)

Keys == {<<Data!Resolved(c.project).tooling, c.token>> : c \in Calls}
Issued == [key : Keys, left : Nat, trusted : Int]

\* Steps of a call before it has credentials.
Early == {"idle", "environments", "credentials", "redeem"}

\* The cache never trusts credentials longer than they are valid; and what is left
\* of those in use, with the time since the cache was looked at, exceeds the margin.
CredentialsInv ==
  /\ call \in Calls /\ since \in Nat
  /\ credsCache # Data!None => credsCache \in Issued /\ credsCache.trusted <= credsCache.left
  /\ creds # Data!None =>
       creds \in Issued /\ creds.key = Data!Key /\ creds.left + since > Margin
  /\ toolPc \in Early => creds = Data!None

\* A call ends, or goes on without a look at credentials.
Ends ==
  /\ toolPc' = "idle" /\ creds' = Data!None /\ since' = 0
  /\ credsCache' \in {credsCache, Data!None} /\ UNCHANGED call
GoesOn ==
  /\ toolPc' \in Early => toolPc \in Early
  /\ UNCHANGED <<credsCache, creds, since, call>>

LEMMA StepsOfCalls ==
  ASSUME [Data!Next]_(Data!daVars)
  PROVE  Ends \/ GoesOn \/ Data!Receive \/ Data!GetCached \/ Data!Redeem \/ Data!Tick
<1> USE DEF Ends, GoesOn, Early, Data!Goto, Data!Answer, Data!caches, Data!locals
<1>1. CASE UNCHANGED Data!daVars
  BY <1>1 DEF Data!daVars
<1>2. CASE Data!Fails \/ Data!Results \/ Data!Access \/ Data!Discard
  BY <1>2 DEF Data!Fails, Data!Results, Data!Access, Data!Discard
<1>3. CASE Data!ResolveEnvironments \/ Data!Start \/ Data!QueryEnds \/ Data!OwnAccount \/ Data!ListOne
             \/ Data!ConnectionsChange
  BY <1>3 DEF Data!ResolveEnvironments, Data!Start, Data!QueryEnds, Data!OwnAccount, Data!ListOne,
              Data!ConnectionsChange
<1>4. CASE Data!Poll \/ Data!GetDataAccess
  BY <1>4 DEF Data!Poll, Data!GetDataAccess
<1>5. ASSUME NEW own, NEW domain, Data!Settle(own, domain), UNCHANGED credsCache
      PROVE  Ends \/ GoesOn
  BY <1>5 DEF Data!Settle
<1>6. CASE Data!ProjectConnections
  <2>1. PICK own : Data!WithOwn(own) /\ UNCHANGED credsCache
    BY <1>6 DEF Data!ProjectConnections
  <2> QED  BY <1>5, <2>1 DEF Data!WithOwn
<1>7. CASE Data!DomainConnections
  BY <1>5, <1>7 DEF Data!DomainConnections
<1> QED  BY <1>1, <1>2, <1>3, <1>4, <1>6, <1>7 DEF Data!Next

LEMMA CredentialsStep ==
  ASSUME CredentialsInv, [Data!Next]_(Data!daVars)
  PROVE  CredentialsInv'
<1> USE DEF CredentialsInv
<1>0. Data!None \notin Issued
  BY DEF Issued, Data!None
<1>1. CASE Ends
  BY <1>1 DEF Ends, Data!Key
<1>2. CASE GoesOn
  BY <1>2 DEF GoesOn, Data!Key
<1>3. CASE Data!Receive
  BY <1>3 DEF Data!Receive, Data!caches, Early
<1>4. CASE Data!GetCached
  <2>1. /\ toolPc = "credentials" /\ since' = 0 /\ UNCHANGED <<credsCache, call>>
        /\ \/ Data!Cached /\ creds' = credsCache /\ toolPc' \in {"start", "account", "connections"}
           \/ creds' = creds
    BY <1>4 DEF Data!GetCached, Data!Goto, Data!caches, Data!AfterCredentials
  <2>2. Data!Cached => credsCache.key = Data!Key /\ credsCache.left > Margin /\ credsCache \in Issued
    BY TimesAssumption DEF Data!Cached, Issued
  <2> QED  BY <2>1, <2>2, TimesAssumption DEF Data!Key, Issued, Early
<1>5. CASE Data!Redeem
  <2>1. PICK trusted \in {Life, Fallback - since} :
          credsCache' = [key |-> Data!Key, left |-> Life, trusted |-> trusted]
    BY <1>5 DEF Data!Redeem
  <2>2. /\ creds' = credsCache' /\ UNCHANGED <<since, call>>
        /\ toolPc' \in {"start", "account", "connections"}
    BY <1>5 DEF Data!Redeem, Data!Goto, Data!AfterCredentials
  <2>3. credsCache' \in Issued /\ credsCache'.trusted <= credsCache'.left /\ credsCache'.key = Data!Key
        /\ credsCache'.left = Life
    BY <2>1, TimesAssumption DEF Issued, Keys, Data!Key
  <2> QED  BY <2>2, <2>3, TimesAssumption DEF Data!Key, Early
<1>6. CASE Data!Tick
  <2>1. ASSUME NEW c \in Issued
        PROVE  /\ Data!Older(c) \in Issued /\ Data!Older(c).key = c.key
               /\ c.trusted <= c.left => Data!Older(c).trusted <= Data!Older(c).left
               /\ Data!Older(c).left + 1 >= c.left
    <3> DEFINE mid == [c EXCEPT !.left = Data!Less(c.left)]
    <3>1. Data!Less(c.left) \in Nat /\ Data!Less(c.trusted) \in Int /\ Data!Less(c.left) + 1 >= c.left
      BY DEF Data!Less, Issued
    <3>2. mid \in Issued /\ mid.key = c.key /\ mid.left = Data!Less(c.left) /\ mid.trusted = c.trusted
      BY <3>1 DEF Issued
    <3>3. Data!Older(c) = [mid EXCEPT !.trusted = Data!Less(c.trusted)]
      BY <1>0, Zenon DEF Data!Older
    <3> HIDE DEF mid
    <3>4. /\ Data!Older(c) \in Issued /\ Data!Older(c).key = c.key
          /\ Data!Older(c).left = Data!Less(c.left) /\ Data!Older(c).trusted = Data!Less(c.trusted)
      BY <3>1, <3>2, <3>3 DEF Issued
    <3>5. c.trusted <= c.left => Data!Less(c.trusted) <= Data!Less(c.left)
      BY DEF Data!Less, Issued
    <3> QED  BY <3>1, <3>4, <3>5
  <2>2. /\ credsCache' = Data!Older(credsCache) /\ creds' = Data!Older(creds) /\ UNCHANGED <<call, toolPc>>
        /\ since' = IF creds # Data!None \/ toolPc = "redeem" THEN since + 1 ELSE since
    BY <1>6 DEF Data!Tick
  <2>3. Data!Older(Data!None) = Data!None
    BY DEF Data!Older
  <2>4. CASE creds = Data!None
    BY <1>0, <2>1, <2>2, <2>3, <2>4
  <2>5. CASE creds # Data!None
    <3>1. creds' \in Issued /\ creds'.key = Data!Key /\ creds'.left + 1 >= creds.left
      BY <2>1, <2>2, <2>5
    <3>2. creds'.left + since' > Margin
      BY <2>2, <2>5, <3>1, TimesAssumption DEF Issued
    <3> QED  BY <1>0, <2>1, <2>2, <2>3, <2>5, <3>1, <3>2 DEF Data!Key
  <2> QED  BY <2>4, <2>5
<1> QED  BY <1>1, <1>2, <1>3, <1>4, <1>5, <1>6, StepsOfCalls

\* A call works with credentials of its own project and token, which have not expired
\* for the minute after it looked at the cache, for any number of calls and whatever
\* the service says of their expiry.
THEOREM CredentialsAreOwn == Data!Spec => []UsesOwnCredentials
<1>1. Data!Init => CredentialsInv
  BY DEF Data!Init, CredentialsInv, Early
<1>2. CredentialsInv => UsesOwnCredentials
  BY TimesAssumption DEF CredentialsInv, UsesOwnCredentials, Data!UsesOwnCredentials, Data!Key, Issued
<1> QED  BY <1>1, <1>2, CredentialsStep, PTL DEF Data!Spec

-----------------------------------------------------------------------------
(* DataAccess: grants *)

\* A grant of a folder that holds a key holds the folder for which access is asked.
LEMMA FolderIsCovered ==
  ASSUME NEW key \in Seq(STRING), "/" \in Data!Range(key),
         NEW prefix \in Seq(STRING), prefix = << >> \/ Data!Last(prefix) = "/",
         Data!IsPrefix(prefix, key)
  PROVE  Data!IsPrefix(prefix, Data!Folder(key))
<1>1. CASE Data!Last(key) = "/"
  BY <1>1 DEF Data!Folder
<1>2. CASE Data!Last(key) # "/"
  <2> DEFINE slashes == {i \in DOMAIN key : key[i] = "/"}
             fromEnd == {Len(key) - i : i \in slashes}
             least == CHOOSE i \in DOMAIN key :
                        key[i] = "/" /\ \A j \in i + 1 .. Len(key) : key[j] # "/"
  <2>1. PICK m \in DOMAIN key : key[m] = "/" /\ \A j \in m + 1 .. Len(key) : key[j] # "/"
    <3>1. fromEnd \in SUBSET Nat /\ fromEnd # {}
      BY DEF Data!Range
    <3>2. PICK k \in fromEnd : \A l \in fromEnd : k <= l
      <4> HIDE DEF fromEnd
      <4> QED  BY <3>1, LeastElement
    <3>3. PICK m \in slashes : k = Len(key) - m
      BY <3>2
    <3>4. ASSUME NEW j \in m + 1 .. Len(key) PROVE key[j] # "/"
      <4> SUFFICES ASSUME key[j] = "/" PROVE FALSE
        OBVIOUS
      <4>1. j \in slashes
        BY <3>3
      <4>2. Len(key) - j \in fromEnd
        BY <4>1
      <4>3. Len(key) - m <= Len(key) - j
        BY <3>2, <3>3, <4>2
      <4> QED  BY <3>3, <4>3
    <3> QED  BY <3>3, <3>4
  <2>2. /\ least \in 1 .. Len(key) /\ key[least] = "/"
        /\ \A j \in least + 1 .. Len(key) : key[j] # "/"
    BY <2>1
  <2>3. Data!Folder(key) = SubSeq(key, 1, least)
    BY <1>2, Zenon DEF Data!Folder
  <2> HIDE DEF least
  <2>4. CASE prefix = << >>
    BY <2>2, <2>3, <2>4 DEF Data!IsPrefix
  <2>5. CASE prefix # << >>
    <3>1. Len(prefix) \in 1 .. Len(key) /\ SubSeq(prefix, 1, Len(prefix)) = SubSeq(key, 1, Len(prefix))
      BY <2>5 DEF Data!IsPrefix
    <3>2. key[Len(prefix)] = "/"
      BY <2>5, <3>1 DEF Data!Last
    <3>3. Len(prefix) <= least
      BY <2>2, <3>1, <3>2
    <3>4. Len(SubSeq(key, 1, least)) = least
          /\ SubSeq(SubSeq(key, 1, least), 1, Len(prefix)) = SubSeq(key, 1, Len(prefix))
      BY <2>2, <3>1, <3>3
    <3> QED  BY <2>3, <3>1, <3>3, <3>4 DEF Data!IsPrefix
  <2> QED  BY <2>4, <2>5
<1> QED  BY <1>1, <1>2

\* What is asked for is a path of the call; a refusal found nothing granted.
GrantsInv ==
  /\ call \in Calls /\ target.key \in Seq(STRING)
  /\ answer = "denied" => toolPc = "idle" /\ Data!Granted = {}

LEMMA CallTyped ==
  ASSUME call \in Calls
  PROVE  /\ call.project \in Projects /\ call.path \in Seq(STRING)
         /\ Data!Relative(call.path) \in Seq(STRING)
<1>1. call.project \in Projects /\ call.path \in Seq(STRING)
  BY CallsAssumption DEF CallTypes
<1>2. ASSUME call.path # << >> PROVE Tail(call.path) \in Seq(STRING)
  BY <1>1, <1>2, HeadTailProperties
<1> QED  BY <1>1, <1>2, Zenon DEF Data!Relative

LEMMA ResolutionKey ==
  \A own, domain, path : Data!Resolution(own, domain, path).key = Data!Relative(path)
  BY DEF Data!Resolution, Data!In

LEMMA GrantsStep ==
  ASSUME GrantsInv, [Data!Next]_(Data!daVars)
  PROVE  GrantsInv'
<1> USE DEF GrantsInv
\* The steps that leave the object alone and refuse nothing.
<1>0. ASSUME UNCHANGED <<target, call>>,
             answer' # "denied" \/ (toolPc = "idle" /\ UNCHANGED <<answer, toolPc>>)
      PROVE  GrantsInv'
  BY <1>0 DEF Data!Granted
<1>1. CASE UNCHANGED Data!daVars
  BY <1>0, <1>1 DEF Data!daVars, Data!locals
<1>2. CASE Data!Receive
  <2>1. target'.key = << >> /\ call' \in Calls /\ answer' = "none"
    BY <1>2 DEF Data!Receive, Data!NoTarget
  <2>2. << >> \in Seq(STRING)
    OBVIOUS
  <2> QED  BY <2>1, <2>2
<1>3. CASE Data!Fails \/ Data!Results \/ Data!Access \/ Data!Discard
  BY <1>0, <1>3 DEF Data!Fails, Data!Results, Data!Access, Data!Discard, Data!Answer
<1>4. CASE Data!ResolveEnvironments \/ Data!GetCached \/ Data!Redeem \/ Data!Start \/ Data!ListOne
  BY <1>0, <1>4 DEF Data!ResolveEnvironments, Data!GetCached, Data!Redeem, Data!Start, Data!ListOne,
                    Data!Goto, Data!locals
<1>5. CASE Data!QueryEnds \/ Data!Tick \/ Data!ConnectionsChange
  BY <1>0, <1>5 DEF Data!QueryEnds, Data!Tick, Data!ConnectionsChange, Data!locals
<1>6. CASE Data!Poll
  BY <1>0, <1>6 DEF Data!Poll, Data!Goto, Data!Answer, Data!locals
<1>7. CASE Data!OwnAccount
  BY <1>7, CallTyped DEF Data!OwnAccount, Data!Goto
<1>8. ASSUME NEW own, NEW domain, Data!Settle(own, domain), toolPc # "idle"
      PROVE  GrantsInv'
  BY <1>0, <1>8, CallTyped, ResolutionKey DEF Data!Settle, Data!Goto, Data!Answer
<1>9. CASE Data!ProjectConnections
  <2>1. PICK own : Data!WithOwn(own) /\ toolPc # "idle"
    BY <1>9 DEF Data!ProjectConnections
  <2> QED  BY <1>0, <1>8, <2>1 DEF Data!WithOwn, Data!Goto
<1>10. CASE Data!DomainConnections
  BY <1>8, <1>10 DEF Data!DomainConnections
<1>11. CASE Data!GetDataAccess
  BY <1>0, <1>11 DEF Data!GetDataAccess, Data!Goto, Data!Answer, Data!Granted, Data!locals
<1> QED  BY <1>1, <1>2, <1>3, <1>4, <1>5, <1>6, <1>7, <1>9, <1>10, <1>11 DEF Data!Next

\* A refusal has found no grant that covers the folder of the object, hence none that
\* covers the object, for any grants and paths.
THEOREM RefusalsAreRight == Data!Spec => []GrantedIsReadable
<1>1. Data!Init => GrantsInv
  <2>1. << >> \in Seq(STRING)
    OBVIOUS
  <2>2. Data!Init => call \in Calls /\ target.key = << >> /\ answer = "none"
    <3>1. Data!NoTarget.key = << >>
      BY DEF Data!NoTarget
    <3> QED  BY <3>1 DEF Data!Init
  <2> QED  BY <2>1, <2>2 DEF GrantsInv
<1>2. GrantsInv => GrantedIsReadable
  <2> SUFFICES ASSUME GrantsInv, answer = "denied", "/" \in Data!Range(target.key),
                      NEW g \in Grants[call.project], g.prefix = << >> \/ Data!Last(g.prefix) = "/",
                      Data!Covers(g, target.bucket, target.account, target.key)
               PROVE  FALSE
    BY DEF GrantedIsReadable, Data!GrantedIsReadable
  <2>1. g.prefix \in Seq(STRING)
    BY GrantsAssumption, CallTyped DEF GrantsInv
  <2>2. Data!IsPrefix(g.prefix, Data!Folder(target.key))
    BY <2>1, FolderIsCovered DEF GrantsInv, Data!Covers
  <2> QED  BY <2>2 DEF GrantsInv, Data!Granted, Data!Covers
<1> QED  BY <1>1, <1>2, GrantsStep, PTL DEF Data!Spec

-----------------------------------------------------------------------------
(* DataAccess: lists of connections *)

\* N steps, each a function of the value before it, have a history.
LEMMA HistoryOfSteps ==
  ASSUME NEW X, NEW x \in X, NEW N \in Nat, NEW G \in [1 .. N -> [X -> X]]
  PROVE  \E f \in [0 .. N -> X] : f[0] = x /\ \A n \in 1 .. N : f[n] = G[n][f[n - 1]]
<1> DEFINE Upto(m) == \E f \in [0 .. m -> X] : f[0] = x /\ \A n \in 1 .. m : f[n] = G[n][f[n - 1]]
           S == {m \in Nat : m <= N => Upto(m)}
<1>1. 0 \in S
  <2> DEFINE g == [n \in 0 .. 0 |-> x]
  <2>1. g \in [0 .. 0 -> X] /\ g[0] = x /\ \A n \in 1 .. 0 : g[n] = G[n][g[n - 1]]
    OBVIOUS
  <2> HIDE DEF g
  <2> QED  BY <2>1
<1>2. ASSUME NEW m \in S PROVE m + 1 \in S
  <2> SUFFICES ASSUME m + 1 <= N PROVE Upto(m + 1)
    OBVIOUS
  <2>1. PICK f \in [0 .. m -> X] : f[0] = x /\ \A n \in 1 .. m : f[n] = G[n][f[n - 1]]
    OBVIOUS
  <2> DEFINE g == [n \in 0 .. m + 1 |-> IF n <= m THEN f[n] ELSE G[m + 1][f[m]]]
  <2>2. f[m] \in X /\ G[m + 1] \in [X -> X]
    OBVIOUS
  <2>3. g \in [0 .. m + 1 -> X]
    BY <2>2
  <2>4. g[0] = x
    BY <2>1
  <2>5. ASSUME NEW n \in 1 .. m + 1 PROVE g[n] = G[n][g[n - 1]]
    <3>1. g[n - 1] = f[n - 1]
      OBVIOUS
    <3>2. CASE n <= m
      BY <2>1, <3>1, <3>2
    <3>3. CASE n = m + 1
      BY <3>1, <3>3
    <3> QED  BY <3>2, <3>3
  <2> HIDE DEF g
  <2> QED  BY <2>3, <2>4, <2>5
<1>3. S = Nat
  <2> HIDE DEF S
  <2>1. S \in SUBSET Nat
    BY DEF S
  <2> QED  BY <1>1, <1>2, <2>1, SetInduction
<1> QED  BY <1>3

\* Two histories agree at the end if they begin alike and each step keeps them alike.
LEMMA OneHistory ==
  ASSUME NEW N \in Nat, NEW f, NEW g, f[0] = g[0],
         \A n \in 1 .. N : f[n - 1] = g[n - 1] => f[n] = g[n]
  PROVE  f[N] = g[N]
<1> DEFINE S == {m \in Nat : m <= N => f[m] = g[m]}
<1>1. 0 \in S
  OBVIOUS
<1>2. ASSUME NEW m \in S PROVE m + 1 \in S
  <2> SUFFICES ASSUME m + 1 <= N PROVE f[m + 1] = g[m + 1]
    OBVIOUS
  <2>1. m + 1 \in 1 .. N /\ (m + 1) - 1 = m /\ f[m] = g[m]
    OBVIOUS
  <2> QED  BY <2>1
<1>3. S = Nat
  <2> HIDE DEF S
  <2>1. S \in SUBSET Nat
    BY DEF S
  <2> QED  BY <1>1, <1>2, <2>1, SetInduction
<1> QED  BY <1>3

\* What one connection adds.
Plus(known, c) ==
  IF \E i \in DOMAIN known : Data!SameUri(known[i], c) THEN known ELSE Append(known, c)

Lists == Seq(Connections)
Pluses(list) == [n \in 1 .. Len(list) |-> [known \in Lists |-> Plus(known, list[n])]]

LEMMA PlusTyped ==
  ASSUME NEW list \in Lists
  PROVE  /\ Len(list) \in Nat
         /\ Pluses(list) \in [1 .. Len(list) -> [Lists -> Lists]]
         /\ \A n \in 1 .. Len(list) : \A known \in Lists : Pluses(list)[n][known] = Plus(known, list[n])
<1>1. ASSUME NEW known \in Lists, NEW c \in Connections PROVE Plus(known, c) \in Lists
  BY DEF Plus, Lists
<1>2. Len(list) \in Nat /\ \A n \in 1 .. Len(list) : list[n] \in Connections
  BY DEF Lists
<1> QED  BY <1>1, <1>2 DEF Pluses

\* Added is the end of a history of its steps.
LEMMA AddedIsAHistory ==
  ASSUME NEW known \in Lists, NEW list \in Lists
  PROVE  \E f \in [0 .. Len(list) -> Lists] :
           /\ f[0] = known /\ \A n \in 1 .. Len(list) : f[n] = Plus(f[n - 1], list[n])
           /\ Data!Added(known, list) = f[Len(list)]
<1> DEFINE Equation(g) ==
             g = [n \in 0 .. Len(list) |-> IF n = 0 THEN known ELSE Plus(g[n - 1], list[n])]
           after == CHOOSE g : Equation(g)
<1>0. Len(list) \in Nat
  BY PlusTyped
<1>1. PICK f \in [0 .. Len(list) -> Lists] :
        f[0] = known /\ \A n \in 1 .. Len(list) : f[n] = Pluses(list)[n][f[n - 1]]
  <2>1. Pluses(list) \in [1 .. Len(list) -> [Lists -> Lists]]
    BY PlusTyped
  <2> QED  BY <1>0, <2>1, HistoryOfSteps, SMTT(40)
<1>2. ASSUME NEW n \in 1 .. Len(list) PROVE f[n] = Plus(f[n - 1], list[n])
  <2>1. n - 1 \in 0 .. Len(list)
    BY <1>0
  <2>2. f[n - 1] \in Lists
    BY <2>1
  <2> QED  BY <1>1, <2>2, PlusTyped
<1>3. Equation(f)
  BY <1>0, <1>1, <1>2
<1>4. Equation(after)
  <2> HIDE DEF Equation
  <2> QED  BY <1>3
<1>5. Data!Added(known, list) = after[Len(list)]
  BY Zenon DEF Data!Added, Plus
<1> HIDE DEF after
<1>6. after[0] = f[0] /\ \A n \in 1 .. Len(list) : after[n] = Plus(after[n - 1], list[n])
  BY <1>0, <1>1, <1>4
<1>7. \A n \in 1 .. Len(list) : after[n - 1] = f[n - 1] => after[n] = f[n]
  BY <1>2, <1>6
<1>8. after[Len(list)] = f[Len(list)]
  BY <1>0, <1>6, <1>7, OneHistory
<1> QED  BY <1>1, <1>2, <1>5, <1>8

LEMMA AddedEndsHistories ==
  ASSUME NEW known \in Lists, NEW list \in Lists, NEW g, g[0] = known,
         \A n \in 1 .. Len(list) : g[n] = Plus(g[n - 1], list[n])
  PROVE  Data!Added(known, list) = g[Len(list)]
<1>1. PICK f \in [0 .. Len(list) -> Lists] :
        /\ f[0] = known /\ \A n \in 1 .. Len(list) : f[n] = Plus(f[n - 1], list[n])
        /\ Data!Added(known, list) = f[Len(list)]
  BY AddedIsAHistory
<1>2. \A n \in 1 .. Len(list) : f[n - 1] = g[n - 1] => f[n] = g[n]
  BY <1>1
<1>3. Len(list) \in Nat /\ f[0] = g[0]
  BY <1>1, PlusTyped
<1>4. f[Len(list)] = g[Len(list)]
  BY <1>2, <1>3, OneHistory
<1> QED  BY <1>1, <1>4

\* Adding two lists one after the other is adding their concatenation.
LEMMA AddedInTurn ==
  ASSUME NEW known \in Lists, NEW first \in Lists, NEW second \in Lists
  PROVE  /\ Data!Added(known, first) \in Lists
         /\ Data!Added(known, first \o second) = Data!Added(Data!Added(known, first), second)
<1> DEFINE both == first \o second
           N == Len(first)
<1>1. /\ both \in Lists /\ N \in Nat /\ Len(second) \in Nat /\ Len(both) = N + Len(second)
      /\ \A n \in 1 .. N : both[n] = first[n]
      /\ \A n \in 1 .. Len(second) : both[N + n] = second[n]
  BY DEF Lists
<1>2. PICK f \in [0 .. Len(both) -> Lists] :
        /\ f[0] = known /\ \A n \in 1 .. Len(both) : f[n] = Plus(f[n - 1], both[n])
        /\ Data!Added(known, both) = f[Len(both)]
  BY <1>1, AddedIsAHistory
<1> HIDE DEF both, N
<1> USE <1>1
<1>3. Data!Added(known, first) = f[N] /\ f[N] \in Lists
  <2>1. \A n \in 1 .. N : f[n] = Plus(f[n - 1], first[n])
    BY <1>2
  <2>2. f[N] \in Lists
    BY <1>2
  <2> QED  BY <1>2, <2>1, <2>2, AddedEndsHistories DEF N
<1> DEFINE g == [n \in 0 .. Len(second) |-> f[N + n]]
<1>4. g[0] = f[N] /\ g[Len(second)] = f[Len(both)]
  OBVIOUS
<1>5. ASSUME NEW n \in 1 .. Len(second) PROVE g[n] = Plus(g[n - 1], second[n])
  <2>1. g[n] = f[N + n] /\ g[n - 1] = f[(N + n) - 1] /\ N + n \in 1 .. Len(both)
    OBVIOUS
  <2> QED  BY <1>2, <2>1
<1> HIDE DEF g
<1>6. Data!Added(f[N], second) = g[Len(second)]
  BY <1>3, <1>4, <1>5, AddedEndsHistories
<1> QED  BY <1>2, <1>3, <1>4, <1>6 DEF both

LEMMA FlattenIsAHistory ==
  ASSUME NEW s \in Seq(Lists)
  PROVE  \E u \in [0 .. Len(s) -> Lists] :
           /\ u[0] = << >> /\ \A n \in 1 .. Len(s) : u[n] = u[n - 1] \o s[n]
           /\ Data!FlattenSeq(s) = u[Len(s)]
<1> DEFINE G == [n \in 1 .. Len(s) |-> [k \in Lists |-> k \o s[n]]]
           Equation(g) == g = [i \in 1 .. Len(s) |-> IF i = 1 THEN s[i] ELSE g[i - 1] \o s[i]]
           flatten == CHOOSE g : Equation(g)
<1>1. Len(s) \in Nat /\ << >> \in Lists /\ \A n \in 1 .. Len(s) : s[n] \in Lists
  BY DEF Lists
<1>2. G \in [1 .. Len(s) -> [Lists -> Lists]]
  <2>1. \A k \in Lists : \A l \in Lists : k \o l \in Lists
    BY DEF Lists
  <2> QED  BY <1>1, <2>1
<1>3. PICK u \in [0 .. Len(s) -> Lists] : u[0] = << >> /\ \A n \in 1 .. Len(s) : u[n] = G[n][u[n - 1]]
  <2> DEFINE empty == << >>
             N == Len(s)
  <2>1. empty \in Lists /\ N \in Nat
    BY <1>1
  <2>3. G \in [1 .. N -> [Lists -> Lists]]
    BY <1>2
  <2> HIDE DEF G, empty, N
  <2>2. \E u \in [0 .. N -> Lists] : u[0] = empty /\ \A n \in 1 .. N : u[n] = G[n][u[n - 1]]
    BY <2>1, <2>3, HistoryOfSteps, SMTT(40)
  <2> QED  BY <2>2 DEF empty, N
<1>4. ASSUME NEW n \in 1 .. Len(s) PROVE u[n] = u[n - 1] \o s[n]
  <2>1. n - 1 \in 0 .. Len(s)
    BY <1>1
  <2>2. u[n - 1] \in Lists
    BY <2>1
  <2> QED  BY <1>3, <2>2
<1> HIDE DEF G
<1>5. CASE s = << >>
  BY <1>3, <1>4, <1>5 DEF Data!FlattenSeq
<1>6. CASE s # << >>
  <2>1. Equation([n \in 1 .. Len(s) |-> u[n]])
    <3>1. \A l \in Lists : << >> \o l = l
      BY DEF Lists
    <3>2. ASSUME NEW n \in 1 .. Len(s)
          PROVE  u[n] = IF n = 1 THEN s[n] ELSE u[n - 1] \o s[n]
      <4>1. u[n] = u[n - 1] \o s[n]
        BY <1>4
      <4>2. CASE n = 1
        <5>1. u[n - 1] = << >> /\ << >> \o s[n] = s[n]
          BY <1>1, <1>3, <3>1, <4>2
        <5> QED  BY <4>1, <4>2, <5>1
      <4>3. CASE n # 1
        BY <4>1, <4>3
      <4> QED  BY <4>2, <4>3
    <3> QED  BY <1>1, <3>2
  <2>2. Equation(flatten)
    <3> HIDE DEF Equation
    <3> QED  BY <2>1
  <2>3. Len(s) # 0
    BY <1>1, <1>6
  <2>4. Data!FlattenSeq(s) = flatten[Len(s)]
    BY <2>3, Zenon DEF Data!FlattenSeq
  <2> HIDE DEF flatten
  <2> DEFINE h == [n \in 0 .. Len(s) |-> IF n = 0 THEN << >> ELSE flatten[n]]
  <2>5. h[0] = u[0] /\ h[Len(s)] = flatten[Len(s)]
    BY <1>1, <1>3, <2>3
  <2>6. ASSUME NEW n \in 1 .. Len(s), h[n - 1] = u[n - 1] PROVE h[n] = u[n]
    <3>1. h[n] = flatten[n] /\ h[n - 1] = IF n = 1 THEN << >> ELSE flatten[n - 1]
      BY <1>1
    <3>2. flatten[n] = IF n = 1 THEN s[n] ELSE flatten[n - 1] \o s[n]
      BY <1>1, <2>2
    <3>3. << >> \o s[n] = s[n]
      BY <1>1 DEF Lists
    <3> HIDE DEF h
    <3> QED  BY <1>4, <2>6, <3>1, <3>2, <3>3
  <2> HIDE DEF h
  <2>7. h[Len(s)] = u[Len(s)]
    BY <1>1, <2>5, <2>6, OneHistory
  <2> QED  BY <1>3, <1>4, <2>4, <2>5, <2>7
<1> QED  BY <1>5, <1>6

LEMMA FlattenOneMore ==
  ASSUME NEW s \in Seq(Lists), NEW e \in Lists
  PROVE  Data!FlattenSeq(s) \in Lists /\ Data!FlattenSeq(Append(s, e)) = Data!FlattenSeq(s) \o e
<1> DEFINE t == Append(s, e)
<1>1. /\ t \in Seq(Lists) /\ Len(s) \in Nat /\ Len(t) = Len(s) + 1 /\ t[Len(s) + 1] = e
      /\ \A n \in 1 .. Len(s) : t[n] = s[n]
  OBVIOUS
<1> HIDE DEF t
<1>2. PICK u \in [0 .. Len(s) -> Lists] :
        /\ u[0] = << >> /\ \A n \in 1 .. Len(s) : u[n] = u[n - 1] \o s[n]
        /\ Data!FlattenSeq(s) = u[Len(s)]
  BY FlattenIsAHistory
<1>3. PICK v \in [0 .. Len(t) -> Lists] :
        /\ v[0] = << >> /\ \A n \in 1 .. Len(t) : v[n] = v[n - 1] \o t[n]
        /\ Data!FlattenSeq(t) = v[Len(t)]
  BY <1>1, FlattenIsAHistory
<1>4. ASSUME NEW n \in 1 .. Len(s), u[n - 1] = v[n - 1] PROVE u[n] = v[n]
  <2>1. n \in 1 .. Len(t) /\ t[n] = s[n]
    BY <1>1
  <2>2. u[n] = u[n - 1] \o s[n] /\ v[n] = v[n - 1] \o t[n]
    BY <1>2, <1>3, <2>1, Zenon
  <2> QED  BY <1>4, <2>1, <2>2
<1>5. u[Len(s)] = v[Len(s)]
  <2>1. u[0] = v[0]
    BY <1>2, <1>3, Zenon
  <2> QED  BY <1>1, <1>4, <2>1, OneHistory
<1>6. v[Len(s) + 1] = v[Len(s)] \o e
  <2>1. Len(s) + 1 \in 1 .. Len(t) /\ (Len(s) + 1) - 1 = Len(s)
    BY <1>1
  <2>2. v[Len(s) + 1] = v[(Len(s) + 1) - 1] \o t[Len(s) + 1]
    BY <1>3, <2>1, Zenon
  <2> QED  BY <1>1, <2>1, <2>2
<1>7. u[Len(s)] \in Lists
  BY <1>1
<1> QED  BY <1>1, <1>2, <1>3, <1>5, <1>6, <1>7 DEF t

-----------------------------------------------------------------------------
(* DataAccess: the age of what is known of the connections *)

\* The domain's connections after k of the projects that the role of p sees.
Partial(p, k) == Data!Unique(Data!FlattenSeq([i \in 1 .. k |-> conns[Sees[p][i]]]))

LEMMA PartialLists ==
  ASSUME conns \in [Projects -> ConnectionLists], NEW p \in Projects
  PROVE  /\ Data!Listed(p) \in Lists /\ Data!SeenFrom(p) \in Lists
         /\ Sees[p] \in Seq(Projects) /\ Partial(p, 0) = << >>
         /\ Partial(p, Len(Sees[p])) = Data!SeenFrom(p)
         /\ \A k \in 0 .. Len(Sees[p]) :
              /\ Partial(p, k) \in Lists
              /\ k < Len(Sees[p]) => Partial(p, k + 1) = Data!Added(Partial(p, k), conns[Sees[p][k + 1]])
<1> DEFINE N == Len(Sees[p])
           firstLists(k) == [i \in 1 .. k |-> conns[Sees[p][i]]]
<1>1. Sees[p] \in Seq(Projects) /\ N \in Nat /\ \A q \in Projects : conns[q] \in Lists
  BY ConnectionsAssumption DEF Lists
<1>2. << >> \in Lists /\ \A l \in Lists : Data!Unique(l) \in Lists
  <2>1. << >> \in Lists
    BY DEF Lists
  <2> QED  BY <2>1, AddedInTurn DEF Data!Unique
<1>3. ASSUME NEW k \in 0 .. N
      PROVE  firstLists(k) \in Seq(Lists) /\ Data!FlattenSeq(firstLists(k)) \in Lists
  <2>1. firstLists(k) \in Seq(Lists)
    <3>1. \A i \in 1 .. k : conns[Sees[p][i]] \in Lists
      BY <1>1
    <3> QED  BY <1>1, <3>1
  <2> HIDE DEF firstLists
  <2> QED  BY <1>2, <2>1, FlattenOneMore
<1>4. ASSUME NEW k \in 0 .. N, k < N
      PROVE  Partial(p, k + 1) = Data!Added(Partial(p, k), conns[Sees[p][k + 1]])
  <2> DEFINE next == conns[Sees[p][k + 1]]
  <2>1. next \in Lists
    BY <1>1, <1>4
  <2>2. firstLists(k + 1) = Append(firstLists(k), next)
    BY <1>1, <1>3, <1>4
  <2> HIDE DEF next, firstLists
  <2>3. Data!FlattenSeq(firstLists(k + 1)) = Data!FlattenSeq(firstLists(k)) \o next
    BY <1>3, <2>1, <2>2, FlattenOneMore
  <2>4. Data!Unique(Data!FlattenSeq(firstLists(k)) \o next) = Data!Added(Data!Unique(Data!FlattenSeq(firstLists(k))), next)
    BY <1>2, <1>3, <2>1, AddedInTurn DEF Data!Unique
  <2> QED  BY <2>3, <2>4 DEF Partial, firstLists, next
<1>5. Partial(p, 0) = << >>
  <2>1. firstLists(0) = << >>
    OBVIOUS
  <2>2. Data!FlattenSeq(<< >>) = << >>
    BY DEF Data!FlattenSeq
  <2>3. Data!Added(<< >>, << >>) = << >>
    <3> DEFINE none == << >>
               g == [n \in 0 .. 0 |-> none]
    <3>1. g[0] = none /\ Len(none) = 0 /\ \A n \in 1 .. Len(none) : g[n] = Plus(g[n - 1], none[n])
      OBVIOUS
    <3>2. none \in Lists
      BY <1>2
    <3> HIDE DEF none, g
    <3>3. Data!Added(none, none) = g[Len(none)]
      BY <3>1, <3>2, AddedEndsHistories
    <3> QED  BY <3>1, <3>3 DEF none
  <2> QED  BY <2>1, <2>2, <2>3 DEF Partial, Data!Unique
<1>6. Partial(p, N) = Data!SeenFrom(p)
  <2>1. DOMAIN Sees[p] = 1 .. N
    BY <1>1
  <2> QED  BY <2>1 DEF Partial, Data!SeenFrom
<1>7. Data!Listed(p) \in Lists
  BY <1>1, <1>2 DEF Data!Listed
<1>8. \A k \in 0 .. N : Partial(p, k) \in Lists
  BY <1>2, <1>3 DEF Partial
<1>9. Data!SeenFrom(p) \in Lists
  BY <1>1, <1>6, <1>8
<1> QED  BY <1>1, <1>4, <1>5, <1>6, <1>7, <1>8, <1>9

Kept == [left : 0 .. TTL, list : Lists]

ListsTyped ==
  /\ call \in Calls /\ conns \in [Projects -> ConnectionLists]
  /\ quiet \in Nat /\ age \in 0 .. Timeout
  /\ projectCache \in [Projects -> Kept] /\ domainCache \in Kept

\* An entry that is younger than the last change of the connections is up to date;
\* that of the domain may have been begun as long before as a call lasts.
EntriesInv ==
  /\ \A p \in Projects :
       projectCache[p].left > 0 /\ quiet + projectCache[p].left > TTL =>
         projectCache[p].list = Data!Listed(p)
  /\ domainCache.left > 0 /\ quiet + domainCache.left > TTL + Timeout =>
       \E p \in Projects : domainCache.list = Data!SeenFrom(p)

\* What a call that lists the domain's connections has found.
ListingInv ==
  toolPc = "domain" =>
    /\ found \in [own : Lists, domain : Lists, todo : Seq(Projects)]
    /\ Data!Candidates(found.own, call.path) = {}
    /\ quiet >= TTL + age => found.own = Data!Listed(call.project)
    /\ quiet > age =>
         \E k \in 0 .. Len(Sees[call.project]) :
           /\ found.todo = SubSeq(Sees[call.project], k + 1, Len(Sees[call.project]))
           /\ found.domain = Partial(call.project, k)

\* What a relative path comes to.
IsNamed(own, object) ==
  \E p \in Projects :
    /\ own \o Data!SeenFrom(p) # << >>
    /\ object = Data!Resolution(own, Data!SeenFrom(p), call.path)

TargetInv ==
  /\ toolPc = "account" => call.uri
  /\ toolPc \in {"grants", "object"} /\ ~call.uri /\ quiet >= TTL + Timeout + age =>
       IsNamed(Data!Listed(call.project), target)

ListsInv == ListsTyped /\ EntriesInv /\ ListingInv /\ TargetInv

\* The object is the one of today if the lists are: the domain's list does not count
\* when there is a candidate in the project's.
LEMMA SettleNames ==
  ASSUME ListsTyped, NEW own \in Lists, NEW domain \in Lists, Data!Resolves(own, domain),
         (Data!Candidates(own, call.path) # {} /\ domain = << >>)
           \/ \E p \in Projects : domain = Data!SeenFrom(p)
  PROVE  IsNamed(own, Data!Resolution(own, domain, call.path))
<1>1. own \o domain # << >>
  BY DEF Data!Resolves
<1>2. CASE Data!Candidates(own, call.path) # {} /\ domain = << >>
  <2>1. PICK p : p = call.project /\ p \in Projects /\ Data!SeenFrom(p) \in Lists
    BY CallTyped, PartialLists DEF ListsTyped
  <2>2. own # << >>
    BY <1>1, <1>2 DEF Lists
  <2>3. own \o Data!SeenFrom(p) # << >>
    BY <2>1, <2>2, ConcatEqualIffEmpty DEF Lists
  <2>4. Data!Resolution(own, domain, call.path) = Data!Resolution(own, Data!SeenFrom(p), call.path)
    BY <1>2 DEF Data!Resolution
  <2> QED  BY <2>1, <2>3, <2>4 DEF IsNamed
<1>3. CASE \E p \in Projects : domain = Data!SeenFrom(p)
  BY <1>1, <1>3, Zenon DEF IsNamed
<1> QED  BY <1>2, <1>3

LEMMA SameConnections ==
  ASSUME UNCHANGED <<conns, call>>
  PROVE  /\ \A p : Data!Listed(p)' = Data!Listed(p) /\ Data!SeenFrom(p)' = Data!SeenFrom(p)
         /\ \A p, k : Partial(p, k)' = Partial(p, k)
         /\ \A own, object : IsNamed(own, object)' = IsNamed(own, object)
<1>1. \A p : Data!Listed(p)' = Data!Listed(p)
  BY DEF Data!Listed
<1>2. \A p : Data!SeenFrom(p)' = Data!SeenFrom(p)
  BY DEF Data!SeenFrom
<1>3. \A p, k : Partial(p, k)' = Partial(p, k)
  BY DEF Partial
<1>4. \A own, object : IsNamed(own, object)' = IsNamed(own, object)
  BY <1>2, Zenon DEF IsNamed
<1> QED  BY <1>1, <1>2, <1>3, <1>4

\* A call is received, ends or is at a step for which the lists do not matter.
Elsewhere ==
  /\ call' \in Calls /\ age' \in {age, 0} /\ UNCHANGED <<conns, quiet>>
  /\ projectCache' \in {projectCache, [p \in Projects |-> Data!NoList]}
  /\ domainCache' \in {domainCache, Data!NoList}
  /\ toolPc' \notin {"domain", "grants", "object"} /\ (toolPc' = "account" => call'.uri)

LEMMA ElsewhereKeeps ==
  ASSUME ListsInv, Elsewhere
  PROVE  ListsInv'
<1> USE DEF ListsInv, Elsewhere
<1>1. Data!NoList \in Kept /\ Data!NoList.left = 0
  <2>1. << >> \in Lists
    BY DEF Lists
  <2> QED  BY <2>1, TimesAssumption DEF Data!NoList, Kept
<1>2. ListsTyped'
  BY <1>1, TimesAssumption DEF ListsTyped
<1>3. \A p : Data!Listed(p)' = Data!Listed(p) /\ Data!SeenFrom(p)' = Data!SeenFrom(p)
  BY DEF Data!Listed, Data!SeenFrom
<1>4. EntriesInv'
  BY <1>1, <1>3 DEF EntriesInv
<1>5. ListingInv' /\ TargetInv'
  BY DEF ListingInv, TargetInv
<1> QED  BY <1>2, <1>4, <1>5

\* The object is settled with lists that are those of today if the connections have
\* not changed for as long as the entries and the call last.
LEMMA SettleKeeps ==
  ASSUME ListsTyped, NEW own \in Lists, NEW domain \in Lists, Data!Settle(own, domain), toolPc # "idle",
         quiet >= TTL + Timeout + age =>
           /\ own = Data!Listed(call.project)
           /\ (Data!Candidates(own, call.path) # {} /\ domain = << >>)
                \/ \E p \in Projects : domain = Data!SeenFrom(p)
  PROVE  /\ UNCHANGED <<conns, quiet, call>> /\ age' \in {age, 0}
         /\ ListingInv' /\ TargetInv'
<1>1. CASE /\ Data!Resolves(own, domain) /\ target' = Data!Resolution(own, domain, call.path)
           /\ toolPc' \in {"grants", "object"} /\ UNCHANGED <<conns, quiet, call, age>>
  <2>1. ListingInv'
    BY <1>1 DEF ListingInv
  <2>2. ASSUME quiet >= TTL + Timeout + age
        PROVE  IsNamed(Data!Listed(call.project), target')
    BY <1>1, <2>2, SettleNames
  <2>3. IsNamed(Data!Listed(call.project), target)' <=> IsNamed(Data!Listed(call.project), target')
    BY <1>1, Zenon DEF IsNamed, Data!Listed, Data!SeenFrom
  <2>4. TargetInv'
    BY <1>1, <2>2, <2>3 DEF TargetInv
  <2> QED  BY <1>1, <2>1, <2>4
<1>2. CASE toolPc' = "idle" /\ age' = 0 /\ UNCHANGED <<conns, quiet, call>>
  BY <1>2 DEF ListingInv, TargetInv
<1> QED  BY <1>1, <1>2 DEF Data!Settle, Data!Goto, Data!Answer

LEMMA ProjectConnectionsStep ==
  ASSUME ListsInv, Data!ProjectConnections
  PROVE  ListsInv'
<1> USE DEF ListsInv
<1>0. toolPc = "connections" /\ call.project \in Projects
  BY CallTyped DEF Data!ProjectConnections, ListsTyped
<1>1. PICK own :
        /\ Data!WithOwn(own)
        /\ \/ /\ projectCache[call.project].left > 0 /\ own = projectCache[call.project].list
              /\ UNCHANGED projectCache
           \/ /\ own = Data!Listed(call.project)
              /\ projectCache' = [projectCache EXCEPT ![call.project] = [left |-> TTL, list |-> own]]
  BY DEF Data!ProjectConnections, Data!Listed
<1>2. own \in Lists /\ (quiet >= TTL => own = Data!Listed(call.project))
  BY <1>0, <1>1, PartialLists, TimesAssumption DEF ListsTyped, EntriesInv, Kept
<1>3. ASSUME UNCHANGED <<conns, quiet, call>>, age' \in {age, 0}, UNCHANGED domainCache
      PROVE  ListsTyped' /\ EntriesInv'
  <2>1. \A p : Data!Listed(p)' = Data!Listed(p) /\ Data!SeenFrom(p)' = Data!SeenFrom(p)
    BY <1>3, SameConnections
  <2>2. [left |-> TTL, list |-> own] \in Kept
    BY <1>2, TimesAssumption DEF Kept
  <2>3. projectCache' \in [Projects -> Kept]
    BY <1>0, <1>1, <2>2 DEF ListsTyped
  <2>4. \A p \in Projects : \/ projectCache'[p] = projectCache[p]
                            \/ projectCache'[p].list = Data!Listed(p)
    BY <1>0, <1>1 DEF ListsTyped
  <2> QED  BY <1>3, <2>1, <2>3, <2>4, TimesAssumption DEF ListsTyped, EntriesInv
<1>4. CASE Data!Candidates(own, call.path) # {} /\ Data!Settle(own, << >>) /\ UNCHANGED domainCache
  <2>1. << >> \in Lists
    BY DEF Lists
  <2> QED  BY <1>0, <1>2, <1>3, <1>4, <2>1, SettleKeeps, TimesAssumption DEF ListsTyped
<1>5. CASE domainCache.left > 0 /\ Data!Settle(own, domainCache.list) /\ UNCHANGED domainCache
  <2>1. domainCache.list \in Lists
    BY DEF ListsTyped, Kept
  <2>2. quiet >= TTL + Timeout + age => \E p \in Projects : domainCache.list = Data!SeenFrom(p)
    BY <1>5, TimesAssumption DEF ListsTyped, EntriesInv, Kept
  <2> QED  BY <1>0, <1>2, <1>3, <1>5, <2>1, <2>2, SettleKeeps, TimesAssumption DEF ListsTyped
<1>6. CASE /\ Data!Candidates(own, call.path) = {}
           /\ found' = [own |-> own, domain |-> << >>, todo |-> Sees[call.project]]
           /\ Data!Goto("domain") /\ UNCHANGED domainCache
  <2>1. toolPc' = "domain" /\ UNCHANGED <<conns, quiet, call, age>>
    BY <1>6 DEF Data!Goto
  <2>2. found'.own = own /\ found'.domain = << >> /\ found'.todo = Sees[call.project]
    BY <1>6
  <2>3. << >> \in Lists
    BY DEF Lists
  <2>4. /\ Partial(call.project, 0) = << >> /\ Len(Sees[call.project]) \in Nat
        /\ Sees[call.project] = SubSeq(Sees[call.project], 0 + 1, Len(Sees[call.project]))
    BY <1>0, PartialLists DEF ListsTyped
  <2>5. ListingInv'
    <3>1. (quiet >= TTL + age)' => found'.own = Data!Listed(call.project)'
      BY <1>2, <2>1, <2>2, SameConnections, TimesAssumption DEF ListsTyped
    <3>2. /\ found'.todo = SubSeq(Sees[call.project], 0 + 1, Len(Sees[call.project]))'
          /\ found'.domain = Partial(call.project, 0)'
      BY <2>1, <2>2, <2>4, SameConnections
    <3>3. 0 \in 0 .. Len(Sees[call.project])'
      BY <2>1, <2>4
    <3>4. found' \in [own : Lists, domain : Lists, todo : Seq(Projects)]
      BY <1>0, <1>2, <1>6, <2>3, PartialLists DEF ListsTyped
    <3> QED  BY <1>6, <2>1, <2>2, <3>1, <3>2, <3>3, <3>4 DEF ListingInv
  <2>6. TargetInv'
    BY <2>1 DEF TargetInv
  <2> QED  BY <1>3, <1>6, <2>1, <2>5, <2>6
<1> QED  BY <1>1, <1>4, <1>5, <1>6 DEF Data!WithOwn

LEMMA ListOneStep ==
  ASSUME ListsInv, Data!ListOne
  PROVE  ListsInv'
<1> USE DEF ListsInv
<1> DEFINE p == call.project
           all == Sees[p]
           mid == [found EXCEPT !.domain = Data!Added(found.domain, conns[Head(found.todo)])]
<1>1. /\ toolPc = "domain" /\ toolPc' = "domain" /\ found.todo # << >>
      /\ UNCHANGED <<conns, quiet, call, age, projectCache, domainCache>>
  BY DEF Data!ListOne, Data!Goto, Data!caches
<1>2. ListsTyped' /\ EntriesInv' /\ TargetInv'
  BY <1>1, SameConnections DEF ListsTyped, EntriesInv, TargetInv
<1>3. p \in Projects /\ all \in Seq(Projects) /\ Len(all) \in Nat
  BY CallTyped, PartialLists DEF ListsTyped
<1>4. /\ found \in [own : Lists, domain : Lists, todo : Seq(Projects)]
      /\ found' = [mid EXCEPT !.todo = Tail(found.todo)]
  BY <1>1, Zenon DEF ListingInv, Data!ListOne
<1>5. /\ Head(found.todo) \in Projects /\ Tail(found.todo) \in Seq(Projects)
      /\ Data!Added(found.domain, conns[Head(found.todo)]) \in Lists
  <2>1. Head(found.todo) \in Projects /\ Tail(found.todo) \in Seq(Projects)
    BY <1>1, <1>4, HeadTailProperties
  <2>2. conns[Head(found.todo)] \in Lists
    BY <2>1, ConnectionsAssumption DEF ListsTyped, Lists
  <2> QED  BY <1>4, <2>1, <2>2, AddedInTurn
<1>6. /\ mid \in [own : Lists, domain : Lists, todo : Seq(Projects)] /\ mid.own = found.own
      /\ mid.domain = Data!Added(found.domain, conns[Head(found.todo)])
  BY <1>4, <1>5
<1> HIDE DEF mid
<1>7. /\ found' \in [own : Lists, domain : Lists, todo : Seq(Projects)] /\ found'.own = found.own
      /\ found'.domain = Data!Added(found.domain, conns[Head(found.todo)])
      /\ found'.todo = Tail(found.todo)
  BY <1>4, <1>5, <1>6
<1>8. ASSUME quiet > age
      PROVE  \E k \in 0 .. Len(all) :
               found'.todo = SubSeq(all, k + 1, Len(all)) /\ found'.domain = Partial(p, k)
  <2>1. PICK k \in 0 .. Len(all) :
          found.todo = SubSeq(all, k + 1, Len(all)) /\ found.domain = Partial(p, k)
    BY <1>1, <1>8 DEF ListingInv
  <2>2. k < Len(all)
    BY <1>1, <1>3, <2>1
  <2>3. Head(found.todo) = all[k + 1] /\ Tail(found.todo) = SubSeq(all, (k + 1) + 1, Len(all))
    <3>1. k + 1 \in 1 .. Len(all) /\ Len(all) \in (k + 1) .. Len(all)
      BY <1>3, <2>2
    <3> HIDE DEF all
    <3> QED  BY <1>3, <2>1, <3>1, HeadTailOfSubSeq
  <2>4. Partial(p, k + 1) = Data!Added(Partial(p, k), conns[all[k + 1]])
    BY <1>3, <2>2, PartialLists DEF ListsTyped
  <2>5. k + 1 \in 0 .. Len(all)
    BY <1>3, <2>2
  <2> QED  BY <1>7, <2>1, <2>3, <2>4, <2>5
<1>9. ListingInv'
  <2>1. (quiet >= TTL + age)' => found'.own = Data!Listed(p)'
    BY <1>1, <1>7, SameConnections DEF ListingInv
  <2>2. (quiet > age)' =>
          \E k \in 0 .. Len(all)' :
            found'.todo = SubSeq(all, k + 1, Len(all))' /\ found'.domain = Partial(p, k)'
    BY <1>1, <1>8, SameConnections
  <2>3. Data!Candidates(found.own, call.path)' = {}
    BY <1>1, <1>7 DEF ListingInv, Data!Candidates
  <2> QED  BY <1>1, <1>7, <2>1, <2>2, <2>3 DEF ListingInv
<1> QED  BY <1>2, <1>9

LEMMA DomainConnectionsStep ==
  ASSUME ListsInv, Data!DomainConnections
  PROVE  ListsInv'
<1> USE DEF ListsInv
<1>1. /\ toolPc = "domain" /\ found.todo = << >>
      /\ domainCache' = [left |-> TTL, list |-> found.domain] /\ UNCHANGED projectCache
      /\ Data!Settle(found.own, found.domain)
  BY DEF Data!DomainConnections
<1>2. call.project \in Projects /\ found.own \in Lists /\ found.domain \in Lists
  BY <1>1, CallTyped DEF ListsTyped, ListingInv
<1>3. quiet > age => found.domain = Data!SeenFrom(call.project)
  <2> SUFFICES ASSUME quiet > age PROVE found.domain = Data!SeenFrom(call.project)
    OBVIOUS
  <2>1. PICK k \in 0 .. Len(Sees[call.project]) :
          /\ found.todo = SubSeq(Sees[call.project], k + 1, Len(Sees[call.project]))
          /\ found.domain = Partial(call.project, k)
    BY <1>1 DEF ListingInv
  <2>2. Sees[call.project] \in Seq(Projects)
    BY <1>2, PartialLists DEF ListsTyped
  <2>3. k = Len(Sees[call.project])
    BY <1>1, <2>1, <2>2
  <2> QED  BY <1>2, <2>1, <2>3, PartialLists DEF ListsTyped
<1>4. quiet >= TTL + Timeout + age => found.own = Data!Listed(call.project) /\ quiet > age
  BY <1>1, TimesAssumption DEF ListsTyped, ListingInv
<1>5. UNCHANGED <<conns, quiet, call>> /\ age' \in {age, 0} /\ ListingInv' /\ TargetInv'
  BY <1>1, <1>2, <1>3, <1>4, SettleKeeps
<1>6. ListsTyped'
  <2>1. domainCache' \in Kept
    BY <1>1, <1>2, TimesAssumption DEF Kept
  <2> QED  BY <1>1, <1>5, <2>1, TimesAssumption DEF ListsTyped
<1>7. EntriesInv'
  <2>1. quiet + TTL > TTL + Timeout => quiet > age
    BY TimesAssumption DEF ListsTyped
  <2>2. domainCache'.left = TTL /\ domainCache'.list = found.domain
    BY <1>1
  <2> QED  BY <1>1, <1>2, <1>3, <1>5, <2>1, <2>2, SameConnections DEF EntriesInv
<1> QED  BY <1>5, <1>6, <1>7

LEMMA TimePasses ==
  ASSUME ListsInv, Data!Tick
  PROVE  ListsInv'
<1> USE DEF ListsInv
<1>1. /\ UNCHANGED <<conns, call, toolPc, found, target>> /\ age' \in 0 .. Timeout
      /\ quiet' \in Nat /\ quiet' <= quiet + 1 /\ age' = (IF toolPc = "idle" THEN 0 ELSE age + 1)
      /\ projectCache' = [p \in Projects |-> Data!OlderList(projectCache[p])]
      /\ domainCache' = Data!OlderList(domainCache)
  BY TimesAssumption DEF Data!Tick, ListsTyped, Data!Settled
<1>2. ASSUME NEW l \in Kept
      PROVE  /\ Data!OlderList(l) \in Kept
             /\ Data!OlderList(l).left > 0 =>
                  Data!OlderList(l).left = l.left - 1 /\ Data!OlderList(l).list = l.list
  <2>1. CASE l.left <= 1
    <3>1. << >> \in Lists
      BY DEF Lists
    <3>2. Data!NoList \in Kept /\ Data!NoList.left = 0
      BY <3>1, TimesAssumption DEF Data!NoList, Kept
    <3> QED  BY <2>1, <3>2 DEF Data!OlderList
  <2>2. CASE ~(l.left <= 1)
    <3>1. Data!OlderList(l) = [l EXCEPT !.left = l.left - 1]
      BY <2>2, Zenon DEF Data!OlderList
    <3>2. l.left - 1 \in 0 .. TTL
      BY <2>2, TimesAssumption DEF Kept
    <3> QED  BY <3>1, <3>2 DEF Kept
  <2> QED  BY <2>1, <2>2
<1>3. ListsTyped'
  BY <1>1, <1>2 DEF ListsTyped
<1>4. EntriesInv'
  <2>1. ASSUME NEW p \in Projects, projectCache'[p].left > 0, quiet' + projectCache'[p].left > TTL
        PROVE  projectCache'[p].list = Data!Listed(p)'
    <3>1. projectCache[p] \in Kept /\ projectCache'[p] = Data!OlderList(projectCache[p])
      BY <1>1 DEF ListsTyped
    <3>2. projectCache'[p].left = projectCache[p].left - 1 /\ projectCache'[p].list = projectCache[p].list
      BY <1>2, <2>1, <3>1
    <3>3. projectCache[p].left > 0 /\ quiet + projectCache[p].left > TTL
      BY <1>1, <2>1, <3>1, <3>2, TimesAssumption DEF ListsTyped, Kept
    <3> QED  BY <1>1, <3>2, <3>3, SameConnections DEF EntriesInv
  <2>2. ASSUME domainCache'.left > 0, quiet' + domainCache'.left > TTL + Timeout
        PROVE  \E p \in Projects : domainCache'.list = Data!SeenFrom(p)'
    <3>1. domainCache \in Kept
      BY DEF ListsTyped
    <3>2. domainCache'.left = domainCache.left - 1 /\ domainCache'.list = domainCache.list
      BY <1>1, <1>2, <2>2, <3>1
    <3>3. domainCache.left > 0 /\ quiet + domainCache.left > TTL + Timeout
      BY <1>1, <2>2, <3>1, <3>2, TimesAssumption DEF ListsTyped, Kept
    <3> QED  BY <1>1, <3>2, <3>3, SameConnections DEF EntriesInv
  <2> QED  BY <2>1, <2>2 DEF EntriesInv
<1>5. ListingInv'
  <2> SUFFICES ASSUME toolPc = "domain" PROVE ListingInv'
    BY <1>1 DEF ListingInv
  <2>1. /\ age' = age + 1 /\ (quiet' > age' => quiet > age)
        /\ quiet' >= TTL + age' => quiet >= TTL + age
    BY <1>1, TimesAssumption DEF ListsTyped
  <2>2. Data!Candidates(found.own, call.path)' = Data!Candidates(found.own, call.path)
    BY <1>1 DEF Data!Candidates
  <2>3. (quiet > age)' =>
          \E k \in 0 .. Len(Sees[call.project])' :
            /\ found'.todo = SubSeq(Sees[call.project], k + 1, Len(Sees[call.project]))'
            /\ found'.domain = Partial(call.project, k)'
    BY <1>1, <2>1, SameConnections DEF ListingInv
  <2> QED  BY <1>1, <2>1, <2>2, <2>3, SameConnections DEF ListingInv
<1>6. TargetInv'
  <2> SUFFICES ASSUME toolPc \in {"grants", "object"} PROVE TargetInv'
    BY <1>1 DEF TargetInv
  <2>1. quiet' >= TTL + Timeout + age' => quiet >= TTL + Timeout + age
    BY <1>1, TimesAssumption DEF ListsTyped
  <2>2. IsNamed(Data!Listed(call.project), target)' <=> IsNamed(Data!Listed(call.project), target)
    BY <1>1, Zenon DEF IsNamed, Data!Listed, Data!SeenFrom
  <2> QED  BY <1>1, <2>1, <2>2 DEF TargetInv
<1> QED  BY <1>3, <1>4, <1>5, <1>6

LEMMA ListsStep ==
  ASSUME ListsInv, [Data!Next]_(Data!daVars)
  PROVE  ListsInv'
<1> USE DEF ListsInv
<1>0. ASSUME UNCHANGED <<conns, quiet, projectCache, domainCache, call, toolPc, age, found, target>>
      PROVE  ListsInv'
  <2>1. ListsTyped' /\ EntriesInv'
    BY <1>0, SameConnections DEF ListsTyped, EntriesInv
  <2>2. ListingInv'
    BY <1>0, SameConnections DEF ListingInv, Data!Candidates
  <2>3. TargetInv'
    <3>1. IsNamed(Data!Listed(call.project), target)' <=> IsNamed(Data!Listed(call.project), target)
      BY <1>0, Zenon DEF IsNamed, Data!Listed, Data!SeenFrom
    <3> QED  BY <1>0, <3>1 DEF TargetInv
  <2> QED  BY <2>1, <2>2, <2>3
<1>1. CASE UNCHANGED Data!daVars
  BY <1>0, <1>1 DEF Data!daVars, Data!caches, Data!locals
<1>2. CASE Data!QueryEnds
  BY <1>0, <1>2 DEF Data!QueryEnds, Data!caches
<1>3. call \in Calls
  BY DEF ListsTyped
<1>4. CASE Data!Receive \/ Data!Fails \/ Data!Results \/ Data!Access \/ Data!Discard
  <2>1. Elsewhere
    BY <1>3, <1>4 DEF Elsewhere, Data!Receive, Data!Fails, Data!Results, Data!Access, Data!Discard,
                      Data!Answer, Data!caches
  <2> QED  BY <2>1, ElsewhereKeeps
<1>5. CASE Data!ResolveEnvironments \/ Data!GetCached \/ Data!Redeem \/ Data!Start \/ Data!Poll
  <2> USE DEF Elsewhere, Data!Goto, Data!caches
  <2>1. CASE Data!ResolveEnvironments \/ Data!Start
    <3>1. (Data!Goto("credentials") \/ Data!Goto("poll")) /\ UNCHANGED Data!caches
      BY <2>1, Zenon DEF Data!ResolveEnvironments, Data!Start
    <3> QED  BY <1>3, <3>1, ElsewhereKeeps
  <2>2. CASE Data!GetCached
    BY <1>3, <2>2, ElsewhereKeeps DEF Data!GetCached, Data!AfterCredentials
  <2>3. CASE Data!Redeem
    BY <1>3, <2>3, ElsewhereKeeps DEF Data!Redeem, Data!AfterCredentials
  <2>4. CASE Data!Poll
    BY <1>3, <2>4, ElsewhereKeeps DEF Data!Poll, Data!Answer
  <2> QED  BY <1>5, <2>1, <2>2, <2>3, <2>4
<1>6. CASE Data!OwnAccount
  <2>1. /\ toolPc' = "grants" /\ call'.uri
        /\ UNCHANGED <<conns, quiet, projectCache, domainCache, call, age>>
    BY <1>6 DEF Data!OwnAccount, Data!Goto, Data!caches, TargetInv
  <2>2. ListsTyped' /\ EntriesInv'
    BY <2>1, SameConnections DEF ListsTyped, EntriesInv
  <2> QED  BY <2>1, <2>2 DEF ListingInv, TargetInv
<1>7. CASE Data!GetDataAccess
  <2>1. CASE Data!Goto("object") /\ UNCHANGED <<Data!locals, Data!caches>>
    <3>1. /\ toolPc = "grants" /\ toolPc' = "object"
          /\ UNCHANGED <<conns, quiet, projectCache, domainCache, call, age, target>>
      BY <1>7, <2>1 DEF Data!GetDataAccess, Data!Goto, Data!caches, Data!locals
    <3>2. ListsTyped' /\ EntriesInv'
      BY <3>1, SameConnections DEF ListsTyped, EntriesInv
    <3>3. IsNamed(Data!Listed(call.project), target)' <=> IsNamed(Data!Listed(call.project), target)
      BY <3>1, Zenon DEF IsNamed, Data!Listed, Data!SeenFrom
    <3> QED  BY <3>1, <3>2, <3>3 DEF ListingInv, TargetInv
  <2>2. CASE Data!Answer("denied") /\ UNCHANGED Data!caches
    <3>1. Elsewhere
      BY <1>3, <2>2 DEF Elsewhere, Data!Answer, Data!caches
    <3> QED  BY <3>1, ElsewhereKeeps
  <2> QED  BY <1>7, <2>1, <2>2 DEF Data!GetDataAccess
<1>8. CASE Data!ConnectionsChange
  <2>1. /\ quiet' = 0 /\ conns' \in [Projects -> ConnectionLists]
        /\ UNCHANGED <<projectCache, domainCache, call, toolPc, age, found>>
    BY <1>8 DEF Data!ConnectionsChange, Data!caches, Data!locals, ListsTyped
  <2>2. ListsTyped' /\ EntriesInv'
    BY <2>1, TimesAssumption DEF ListsTyped, EntriesInv, Kept
  <2>3. ListingInv' /\ TargetInv'
    BY <2>1, TimesAssumption DEF ListsTyped, ListingInv, TargetInv, Data!Candidates
  <2> QED  BY <2>2, <2>3
<1> QED  BY <1>1, <1>2, <1>4, <1>5, <1>6, <1>7, <1>8, ProjectConnectionsStep, ListOneStep,
            DomainConnectionsStep, TimePasses DEF Data!Next

\* Whenever the connections have not changed for as long as an entry of a cache and
\* two calls last, a relative path comes to the object that they name, for any
\* connections, projects and calls and however requests of calls follow each other.
THEOREM ResolutionsAreOfToday == Data!Spec => []ResolvesAsListed
<1>1. Data!Init => ListsInv
  <2> SUFFICES ASSUME Data!Init PROVE ListsInv
    OBVIOUS
  <2>1. Data!NoList \in Kept /\ Data!NoList.left = 0
    <3>1. << >> \in Lists
      BY DEF Lists
    <3> QED  BY <3>1, TimesAssumption DEF Data!NoList, Kept
  <2>2. /\ call \in Calls /\ conns \in [Projects -> ConnectionLists] /\ quiet \in Nat /\ age = 0
        /\ toolPc = "idle" /\ projectCache = [p \in Projects |-> Data!NoList] /\ domainCache = Data!NoList
    BY TimesAssumption DEF Data!Init, Data!Settled
  <2>3. ListsTyped /\ EntriesInv
    BY <2>1, <2>2, TimesAssumption DEF ListsTyped, EntriesInv
  <2> QED  BY <2>2, <2>3 DEF ListsInv, ListingInv, TargetInv
<1>2. ListsInv => ResolvesAsListed
  <2> SUFFICES ASSUME ListsInv, toolPc \in {"grants", "object"}, ~call.uri, quiet = Data!Settled
               PROVE  IsNamed(Data!Listed(call.project), target)
    BY Zenon DEF ResolvesAsListed, Data!ResolvesAsListed, IsNamed
  <2>1. quiet >= TTL + Timeout + age
    BY TimesAssumption DEF Data!Settled, ListsInv, ListsTyped
  <2> QED  BY <2>1 DEF ListsInv, TargetInv
<1> QED  BY <1>1, <1>2, ListsStep, PTL DEF Data!Spec

-----------------------------------------------------------------------------
(* Forecast: the calendar *)

LEMMA CardinalityOfSeries == \A S : Series!Cardinality(S) = Cardinality(S)
  BY DEF Series!Cardinality, Cardinality

\* How many months the calendar has.
Span == Len(MonthDays)

\* The equation that defines the first days has a solution.
LEMMA FirstDayEquation ==
  /\ Span \in Nat /\ \A m \in 1 .. Span : MonthDays[m] \in 28 .. 31
  /\ Series!FirstDay =
       [m \in 1 .. Span + 1 |-> IF m = 1 THEN 0 ELSE Series!FirstDay[m - 1] + MonthDays[m - 1]]
<1> DEFINE G == [m \in 1 .. Span |-> [d \in Nat |-> d + MonthDays[m]]]
           Equation(g) == g = [m \in 1 .. Len(MonthDays) + 1 |->
                                 IF m = 1 THEN 0 ELSE g[m - 1] + MonthDays[m - 1]]
           first == CHOOSE g : Equation(g)
<1>1. Span \in Nat /\ \A m \in 1 .. Span : MonthDays[m] \in 28 .. 31
  BY CalendarAssumption DEF Span
<1>2. G \in [1 .. Span -> [Nat -> Nat]]
  BY <1>1
<1>3. PICK f \in [0 .. Span -> Nat] : f[0] = 0 /\ \A m \in 1 .. Span : f[m] = G[m][f[m - 1]]
  <2> DEFINE zero == 0
             days == Nat
  <2>1. zero \in days /\ G \in [1 .. Span -> [days -> days]]
    BY <1>2
  <2> HIDE DEF G, zero, days
  <2>2. \E f \in [0 .. Span -> days] : f[0] = zero /\ \A m \in 1 .. Span : f[m] = G[m][f[m - 1]]
    BY <1>1, <2>1, HistoryOfSteps, SMTT(40)
  <2> QED  BY <2>2 DEF zero, days
<1>4. ASSUME NEW m \in 1 .. Span PROVE f[m] = f[m - 1] + MonthDays[m]
  <2>1. f[m - 1] \in Nat
    BY <1>1
  <2> QED  BY <1>3, <2>1
<1>5. Equation([m \in 1 .. Span + 1 |-> f[m - 1]])
  <2>1. ASSUME NEW m \in 1 .. Span + 1, m # 1 PROVE f[m - 1] = f[(m - 1) - 1] + MonthDays[m - 1]
    <3>1. m - 1 \in 1 .. Span
      BY <1>1, <2>1
    <3> QED  BY <1>4, <3>1
  <2>2. ASSUME NEW m \in 1 .. Span + 1
        PROVE  f[m - 1] = IF m = 1 THEN 0 ELSE f[(m - 1) - 1] + MonthDays[m - 1]
    BY <1>3, <2>1
  <2>3. \A m \in 1 .. Span + 1 : m # 1 => m - 1 \in 1 .. Span + 1
    BY <1>1
  <2> QED  BY <2>2, <2>3 DEF Span
<1>6. Equation(first)
  <2> HIDE DEF Equation
  <2> QED  BY <1>5
<1>7. Series!FirstDay = first
  BY Zenon DEF Series!FirstDay
<1> HIDE DEF first
<1> QED  BY <1>1, <1>6, <1>7, Zenon DEF Span

\* A month has between 28 and 31 days.
LEMMA FirstDays ==
  /\ Span \in Nat /\ Series!FirstDay[1] = 0
  /\ \A m \in 1 .. Span + 1 : Series!FirstDay[m] \in Nat
  /\ \A m \in 1 .. Span : /\ Series!FirstDay[m] + 28 <= Series!FirstDay[m + 1]
                           /\ Series!FirstDay[m + 1] <= Series!FirstDay[m] + 31
<1>1. /\ Span \in Nat /\ \A m \in 1 .. Span : MonthDays[m] \in 28 .. 31
      /\ Series!FirstDay =
           [m \in 1 .. Span + 1 |-> IF m = 1 THEN 0 ELSE Series!FirstDay[m - 1] + MonthDays[m - 1]]
  BY FirstDayEquation
<1>2. Series!FirstDay[1] = 0
  BY <1>1
<1>3. ASSUME NEW m \in 1 .. Span PROVE Series!FirstDay[m + 1] = Series!FirstDay[m] + MonthDays[m]
  BY <1>1
<1> DEFINE S == {k \in Nat : k <= Span => Series!FirstDay[k + 1] \in Nat}
<1>4. 0 \in S
  BY <1>2
<1>5. ASSUME NEW k \in S PROVE k + 1 \in S
  <2> SUFFICES ASSUME k + 1 <= Span PROVE Series!FirstDay[(k + 1) + 1] \in Nat
    OBVIOUS
  <2>1. /\ Series!FirstDay[(k + 1) + 1] = Series!FirstDay[k + 1] + MonthDays[k + 1]
        /\ MonthDays[k + 1] \in 28 .. 31
    BY <1>1, <1>3
  <2>2. Series!FirstDay[k + 1] \in Nat
    BY <1>1
  <2> QED  BY <2>1, <2>2
<1>6. S = Nat
  <2>1. S \in SUBSET Nat
    OBVIOUS
  <2> HIDE DEF S
  <2> QED  BY <1>4, <1>5, <2>1, SetInduction
<1>7. ASSUME NEW m \in 1 .. Span + 1 PROVE Series!FirstDay[m] \in Nat
  <2>1. m - 1 \in Nat /\ m - 1 <= Span /\ (m - 1) + 1 = m
    BY <1>1
  <2>2. Series!FirstDay[(m - 1) + 1] \in Nat
    BY <1>6, <2>1
  <2> QED  BY <2>1, <2>2
<1>8. ASSUME NEW m \in 1 .. Span
      PROVE  /\ Series!FirstDay[m] + 28 <= Series!FirstDay[m + 1]
             /\ Series!FirstDay[m + 1] <= Series!FirstDay[m] + 31
  <2>1. Series!FirstDay[m] \in Nat /\ MonthDays[m] \in 28 .. 31
    BY <1>1, <1>7
  <2> QED  BY <1>3, <2>1
<1> QED  BY <1>1, <1>2, <1>7, <1>8

LEMMA MonthsInOrder ==
  ASSUME NEW m \in 1 .. Span + 1, NEW k \in 1 .. Span + 1, m < k
  PROVE  Series!FirstDay[m] + 28 <= Series!FirstDay[k]
<1> DEFINE S == {j \in Nat : m + j < Span + 1 => Series!FirstDay[m] + 28 <= Series!FirstDay[(m + j) + 1]}
<1>1. 0 \in S
  <2> SUFFICES ASSUME m < Span + 1 PROVE Series!FirstDay[m] + 28 <= Series!FirstDay[m + 1]
    OBVIOUS
  <2>1. m \in 1 .. Span
    BY FirstDays
  <2> QED  BY <2>1, FirstDays
<1>2. ASSUME NEW j \in S PROVE j + 1 \in S
  <2> SUFFICES ASSUME m + (j + 1) < Span + 1
               PROVE  Series!FirstDay[m] + 28 <= Series!FirstDay[(m + (j + 1)) + 1]
    OBVIOUS
  <2> DEFINE l == m + (j + 1)
  <2>1. l \in 1 .. Span /\ (m + j) + 1 = l
    BY FirstDays
  <2>2. Series!FirstDay[m] + 28 <= Series!FirstDay[l]
    BY <2>1, FirstDays
  <2>3. /\ Series!FirstDay[l] \in Nat /\ Series!FirstDay[l + 1] \in Nat
        /\ Series!FirstDay[m] \in Nat /\ Series!FirstDay[l] + 28 <= Series!FirstDay[l + 1]
    BY <2>1, FirstDays
  <2> HIDE DEF l
  <2>4. Series!FirstDay[m] + 28 <= Series!FirstDay[l + 1]
    BY <2>2, <2>3
  <2> QED  BY <2>4 DEF l
<1>3. S = Nat
  <2>1. S \in SUBSET Nat
    OBVIOUS
  <2> HIDE DEF S
  <2> QED  BY <1>1, <1>2, <2>1, SetInduction
<1> DEFINE j == k - (m + 1)
<1>4. j \in Nat /\ m + j < Span + 1 /\ (m + j) + 1 = k
  BY FirstDays
<1> HIDE DEF j
<1>5. Series!FirstDay[m] + 28 <= Series!FirstDay[(m + j) + 1]
  BY <1>3, <1>4
<1> QED  BY <1>4, <1>5

\* Every day of the calendar is in one month.
LEMMA MonthOfDay ==
  ASSUME NEW t \in Nat, t < Series!FirstDay[Span + 1]
  PROVE  /\ Series!MonthOf(t) \in 1 .. Span /\ Series!FirstDay[Series!MonthOf(t)] <= t
         /\ t < Series!FirstDay[Series!MonthOf(t) + 1]
         /\ Series!DayOf(t) \in 1 .. 31
         /\ Series!DayOf(t) = (t - Series!FirstDay[Series!MonthOf(t)]) + 1
<1>1. \E m \in 1 .. Span : Series!FirstDay[m] <= t /\ t < Series!FirstDay[m + 1]
  <2> SUFFICES ASSUME \A m \in 1 .. Span : Series!FirstDay[m] <= t => ~(t < Series!FirstDay[m + 1])
               PROVE  FALSE
    OBVIOUS
  <2> DEFINE S == {m \in Nat : m <= Span => Series!FirstDay[m + 1] <= t}
  <2>1. 0 \in S
    BY FirstDays
  <2>2. ASSUME NEW m \in S PROVE m + 1 \in S
    <3> SUFFICES ASSUME m + 1 <= Span PROVE Series!FirstDay[(m + 1) + 1] <= t
      OBVIOUS
    <3>1. m + 1 \in 1 .. Span /\ Series!FirstDay[m + 1] <= t /\ Series!FirstDay[(m + 1) + 1] \in Nat
      BY FirstDays
    <3> QED  BY <3>1
  <2>3. S = Nat
    <3>1. S \in SUBSET Nat
      OBVIOUS
    <3> HIDE DEF S
    <3> QED  BY <2>1, <2>2, <3>1, SetInduction
  <2>4. Span \in S /\ Series!FirstDay[Span + 1] \in Nat
    BY <2>3, FirstDays
  <2> QED  BY <2>4, FirstDays
<1> DEFINE m == Series!MonthOf(t)
<1>2. m \in 1 .. Span /\ Series!FirstDay[m] <= t /\ t < Series!FirstDay[m + 1]
  <2>1. DOMAIN MonthDays = 1 .. Span
    BY CalendarAssumption DEF Span
  <2> QED  BY <1>1, <2>1, Zenon DEF Series!MonthOf
<1>3. Series!DayOf(t) = (t - Series!FirstDay[m]) + 1
  BY DEF Series!DayOf
<1> HIDE DEF m
<1>4. /\ Series!FirstDay[m] \in Nat /\ Series!FirstDay[m + 1] \in Nat
      /\ Series!FirstDay[m + 1] <= Series!FirstDay[m] + 31
  BY <1>2, FirstDays
<1>5. Series!DayOf(t) \in 1 .. 31
  BY <1>2, <1>3, <1>4
<1> QED  BY <1>2, <1>3, <1>5 DEF m

LEMMA MonthIsUnique ==
  ASSUME NEW t \in Nat, NEW m \in 1 .. Span, Series!FirstDay[m] <= t, t < Series!FirstDay[m + 1]
  PROVE  t < Series!FirstDay[Span + 1] /\ Series!MonthOf(t) = m
<1> USE FirstDays
<1>1. /\ Series!FirstDay[m] \in Nat /\ Series!FirstDay[m + 1] \in Nat
      /\ Series!FirstDay[Span + 1] \in Nat
  OBVIOUS
<1>2. t < Series!FirstDay[Span + 1]
  <2>1. m = Span \/ Series!FirstDay[m + 1] + 28 <= Series!FirstDay[Span + 1]
    BY MonthsInOrder
  <2> QED  BY <1>1, <2>1
<1>3. ASSUME NEW k \in 1 .. Span, NEW l \in 1 .. Span, Series!FirstDay[k] <= t, t < Series!FirstDay[k + 1],
             Series!FirstDay[l] <= t, t < Series!FirstDay[l + 1]
      PROVE  ~(k < l)
  <2> SUFFICES ASSUME k < l PROVE FALSE
    OBVIOUS
  <2>1. k + 1 = l \/ Series!FirstDay[k + 1] + 28 <= Series!FirstDay[l]
    BY MonthsInOrder
  <2>2. Series!FirstDay[k + 1] \in Nat /\ Series!FirstDay[l] \in Nat
    OBVIOUS
  <2> QED  BY <1>3, <2>1, <2>2
<1>4. /\ Series!MonthOf(t) \in 1 .. Span /\ Series!FirstDay[Series!MonthOf(t)] <= t
      /\ t < Series!FirstDay[Series!MonthOf(t) + 1]
  BY <1>2, MonthOfDay
<1> DEFINE k == Series!MonthOf(t)
<1>5. k \in 1 .. Span /\ ~(k < m) /\ ~(m < k)
  BY <1>3, <1>4
<1> HIDE DEF k
<1>6. k = m
  BY <1>5
<1> QED  BY <1>2, <1>6 DEF k

-----------------------------------------------------------------------------
(* Forecast: steps *)

\* The calendar goes on for a step, and a month, after t.
Inside(freq, t) == t \in Nat /\ (freq.unit # "D" => t < Series!FirstDay[Span - Series!Months(freq)])

LEMMA MonthsTyped ==
  ASSUME NEW freq \in Freqs
  PROVE  /\ freq.n \in Nat /\ freq.unit \in {"D", "M", "Q"}
         /\ Series!Months(freq) \in Nat /\ (Series!Months(freq) = 0 <=> freq.n = 0)
         /\ freq.unit # "D" => Span - Series!Months(freq) \in 1 .. Span
<1>1. freq.n \in Nat /\ freq.unit \in {"D", "M", "Q"}
  BY CalendarAssumption
<1>2. Series!Months(freq) \in Nat /\ (Series!Months(freq) = 0 <=> freq.n = 0)
  BY <1>1 DEF Series!Months
<1>3. freq.unit # "D" => Series!Months(freq) < Span
  BY CalendarAssumption DEF Span
<1> QED  BY <1>1, <1>2, <1>3, FirstDays

\* The month of a day inside is one that a step can be taken from.
LEMMA MonthInside ==
  ASSUME NEW freq \in Freqs, freq.unit # "D", NEW t, Inside(freq, t)
  PROVE  /\ t \in Nat /\ t < Series!FirstDay[Span + 1]
         /\ Series!MonthOf(t) \in 1 .. Span /\ Series!MonthOf(t) + Series!Months(freq) < Span
         /\ Series!FirstDay[Series!MonthOf(t)] <= t /\ t < Series!FirstDay[Series!MonthOf(t) + 1]
         /\ Series!DayOf(t) \in 1 .. 31
         /\ Series!DayOf(t) = (t - Series!FirstDay[Series!MonthOf(t)]) + 1
<1> DEFINE m == Series!MonthOf(t)
           last == Span - Series!Months(freq)
<1>1. /\ t \in Nat /\ t < Series!FirstDay[last] /\ last \in 1 .. Span
      /\ Series!Months(freq) \in Nat /\ Span \in Nat
  BY MonthsTyped, FirstDays DEF Inside
<1>2. last + Series!Months(freq) = Span
  BY <1>1
<1> HIDE DEF last
<1>3. /\ Series!FirstDay[last] \in Nat /\ Series!FirstDay[Span + 1] \in Nat
      /\ Series!FirstDay[last] + 28 <= Series!FirstDay[Span + 1]
  BY <1>1, FirstDays, MonthsInOrder
<1>4. t < Series!FirstDay[Span + 1]
  BY <1>1, <1>3
<1>5. /\ m \in 1 .. Span /\ Series!FirstDay[m] <= t /\ t < Series!FirstDay[m + 1]
      /\ Series!DayOf(t) \in 1 .. 31 /\ Series!DayOf(t) = (t - Series!FirstDay[m]) + 1
  BY <1>1, <1>4, MonthOfDay
<1> HIDE DEF m
<1>6. m < last
  <2> SUFFICES ASSUME last <= m PROVE FALSE
    BY <1>1, <1>5
  <2>1. Series!FirstDay[last] <= Series!FirstDay[m]
    <3>1. CASE last = m
      BY <1>3, <3>1
    <3>2. CASE last < m
      <4>1. Series!FirstDay[last] + 28 <= Series!FirstDay[m] /\ Series!FirstDay[m] \in Nat
        BY <1>1, <1>5, <3>2, FirstDays, MonthsInOrder
      <4> QED  BY <1>3, <4>1
    <3> QED  BY <1>1, <1>5, <3>1, <3>2
  <2>2. Series!FirstDay[m] \in Nat
    BY <1>5, FirstDays
  <2> QED  BY <1>1, <1>3, <1>5, <2>1, <2>2
<1>7. m + Series!Months(freq) < Span
  BY <1>1, <1>2, <1>5, <1>6
<1> QED  BY <1>1, <1>4, <1>5, <1>7 DEF m

\* A step of months comes to the first of a month: the one that is meant, but for the
\* days that a short month has not.
LEMMA MonthStep ==
  ASSUME NEW freq \in Freqs, freq.unit # "D", NEW t, Inside(freq, t)
  PROVE  /\ Series!Step(freq, t) \in Nat
         /\ freq.n > 0 => Series!Step(freq, t) > t
         /\ Series!DayOf(t) < 29 \/ freq.n = 0 =>
              Series!Step(freq, t) = Series!FirstDay[Series!MonthOf(t) + Series!Months(freq)]
<1> DEFINE m == Series!MonthOf(t)
           to == m + Series!Months(freq)
           d == Series!DayOf(t)
           x == Series!FirstDay[to] + d - 1
           k == Series!MonthOf(x)
<1>1. /\ t \in Nat /\ m \in 1 .. Span /\ Series!Months(freq) \in Nat /\ to < Span /\ Span \in Nat
      /\ Series!FirstDay[m] <= t /\ t < Series!FirstDay[m + 1] /\ d \in 1 .. 31
      /\ d = (t - Series!FirstDay[m]) + 1
      /\ freq.n \in Nat /\ (Series!Months(freq) = 0 <=> freq.n = 0)
  BY MonthInside, MonthsTyped, FirstDays
<1>2. /\ to \in 1 .. Span /\ to + 1 \in 1 .. Span /\ m + 1 \in 1 .. Span
      /\ to \in 1 .. Span + 1 /\ m + 1 \in 1 .. Span + 1
      /\ m <= to
  BY <1>1
<1>3. Series!Step(freq, t) = Series!FirstDay[k]
  BY DEF Series!Step
<1>4. freq.n = 0 => to = m
  BY <1>1
<1>5. freq.n > 0 => m + 1 <= to
  BY <1>1
<1>6. x = Series!FirstDay[to] + d - 1
  OBVIOUS
<1> HIDE DEF m, to, d, x
<1>7. /\ Series!FirstDay[m] \in Nat /\ Series!FirstDay[m + 1] \in Nat /\ Series!FirstDay[to] \in Nat
      /\ Series!FirstDay[to + 1] \in Nat /\ Series!FirstDay[(to + 1) + 1] \in Nat
      /\ Series!FirstDay[to] + 28 <= Series!FirstDay[to + 1]
      /\ Series!FirstDay[to + 1] + 28 <= Series!FirstDay[(to + 1) + 1]
  BY <1>1, <1>2, FirstDays
<1>8. x \in Nat /\ Series!FirstDay[to] <= x /\ x < Series!FirstDay[(to + 1) + 1]
  <2>1. d \in Nat /\ 1 <= d /\ d <= 31
    BY <1>1
  <2> QED  BY <1>6, <1>7, <2>1
<1>9. k \in {to, to + 1} /\ (x < Series!FirstDay[to + 1] => k = to)
  <2>1. CASE x < Series!FirstDay[to + 1]
    <3>1. Series!MonthOf(x) = to
      BY <1>2, <1>8, <2>1, MonthIsUnique
    <3> QED  BY <3>1
  <2>2. CASE ~(x < Series!FirstDay[to + 1])
    <3>1. Series!FirstDay[to + 1] <= x
      BY <1>7, <1>8, <2>2
    <3>2. Series!MonthOf(x) = to + 1
      BY <1>2, <1>8, <3>1, MonthIsUnique
    <3> QED  BY <2>2, <3>2
  <2> QED  BY <2>1, <2>2
<1> HIDE DEF k
<1>10. Series!FirstDay[k] \in Nat /\ Series!FirstDay[to] <= Series!FirstDay[k]
  BY <1>7, <1>9
<1>11. freq.n > 0 => Series!FirstDay[k] > t
  <2> SUFFICES ASSUME freq.n > 0 PROVE Series!FirstDay[k] > t
    OBVIOUS
  <2>1. Series!FirstDay[m + 1] <= Series!FirstDay[to]
    <3>1. CASE m + 1 = to
      BY <1>7, <3>1
    <3>2. CASE m + 1 < to
      <4>1. Series!FirstDay[m + 1] + 28 <= Series!FirstDay[to]
        BY <1>2, <3>2, MonthsInOrder
      <4> QED  BY <1>7, <4>1
    <3> QED  BY <1>1, <1>2, <1>5, <3>1, <3>2
  <2> QED  BY <1>1, <1>7, <1>10, <2>1
<1>12. d < 29 \/ freq.n = 0 => k = to
  <2>1. d < 29 => x < Series!FirstDay[to + 1]
    BY <1>1, <1>6, <1>7
  <2>2. freq.n = 0 => x < Series!FirstDay[to + 1]
    BY <1>1, <1>4, <1>6, <1>7
  <2> QED  BY <1>9, <2>1, <2>2
<1> QED  BY <1>3, <1>10, <1>11, <1>12 DEF m, to, d

\* A step goes on, or (with no length) comes to a time that it stays at.
LEMMA StepGoesOn ==
  ASSUME NEW freq \in Freqs, NEW t, Inside(freq, t)
  PROVE  /\ Series!Step(freq, t) \in Nat
         /\ freq.n > 0 => Series!Step(freq, t) > t
         /\ freq.n = 0 => /\ Series!Step(freq, t) <= t
                          /\ Series!Step(freq, Series!Step(freq, t)) = Series!Step(freq, t)
<1>1. t \in Nat /\ freq.n \in Nat
  BY MonthsTyped DEF Inside
<1>2. CASE freq.unit = "D"
  <2>1. Series!Step(freq, t) = t + freq.n
    BY <1>2 DEF Series!Step
  <2> QED  BY <1>1, <2>1
<1>3. CASE freq.unit # "D"
  <2> SUFFICES ASSUME freq.n = 0
               PROVE  /\ Series!Step(freq, t) <= t
                      /\ Series!Step(freq, Series!Step(freq, t)) = Series!Step(freq, t)
    BY <1>3, MonthStep
  <2> DEFINE m == Series!MonthOf(t)
             first == Series!FirstDay[m]
  <2>1. /\ m \in 1 .. Span /\ first <= t /\ t < Series!FirstDay[m + 1] /\ Series!Months(freq) = 0
        /\ t < Series!FirstDay[Span - Series!Months(freq)]
    BY <1>3, MonthInside, MonthsTyped DEF Inside
  <2>2. Series!Step(freq, t) = first
    <3>1. m + Series!Months(freq) = m
      BY <2>1
    <3> QED  BY <1>3, <3>1, MonthStep
  <2> HIDE DEF m
  <2>3. /\ first \in Nat /\ Series!FirstDay[m + 1] \in Nat /\ Span \in Nat
        /\ Span - Series!Months(freq) = Span /\ Series!FirstDay[Span] \in Nat
    BY <2>1, FirstDays
  <2>4. Inside(freq, first)
    BY <1>1, <2>1, <2>3 DEF Inside
  <2> HIDE DEF first
  <2>5. Series!MonthOf(first) = m
    <3>1. Series!FirstDay[m] <= first /\ first < Series!FirstDay[m + 1]
      BY <1>1, <2>1, <2>3 DEF first
    <3> QED  BY <2>1, <2>3, <3>1, MonthIsUnique
  <2>6. Series!Step(freq, first) = first
    <3>1. m + Series!Months(freq) = m
      BY <2>1
    <3> QED  BY <1>3, <2>4, <2>5, <3>1, MonthStep DEF first
  <2> QED  BY <2>1, <2>2, <2>6
<1> QED  BY <1>2, <1>3

-----------------------------------------------------------------------------
(* Forecast: the times that the loop of fillSeries visits *)

\* The equation of the visited times, from each time t on, with its steps in nx.
IsVisits(f, nx, b) ==
  \A t \in Nat : f[t] = IF t > b THEN << >> ELSE IF nx[t] = t THEN <<t>> ELSE <<t>> \o f[nx[t]]

LEMMA VisitsExist ==
  ASSUME NEW b \in Nat, NEW nx \in [0 .. b -> Nat], \A t \in 0 .. b : nx[t] > t
  PROVE  \E f \in [Nat -> Seq(Nat)] : IsVisits(f, nx, b)
<1> DEFINE From(f, k) == \A t \in Nat : t + k > b =>
                           f[t] = IF t > b THEN << >> ELSE <<t>> \o f[nx[t]]
           Has(k) == \E f \in [Nat -> Seq(Nat)] : From(f, k)
           S == {k \in Nat : k <= b + 1 => Has(k)}
<1>1. 0 \in S
  <2> DEFINE g == [t \in Nat |-> << >>]
  <2>1. << >> \in Seq(Nat)
    OBVIOUS
  <2>2. g \in [Nat -> Seq(Nat)]
    BY <2>1
  <2>3. ASSUME NEW t \in Nat, t + 0 > b PROVE g[t] = IF t > b THEN << >> ELSE <<t>> \o g[nx[t]]
    <3>1. t > b /\ g[t] = << >>
      BY <2>3
    <3> QED  BY <3>1
  <2> HIDE DEF g
  <2>4. Has(0)
    BY <2>2, <2>3
  <2> HIDE DEF Has
  <2> QED  BY <2>4
<1>2. ASSUME NEW k \in S PROVE k + 1 \in S
  <2>1. k \in Nat /\ (k <= b + 1 => Has(k))
    OBVIOUS
  <2> SUFFICES ASSUME k + 1 <= b + 1 PROVE Has(k + 1)
    <3> HIDE DEF Has
    <3> QED  BY <2>1
  <2> HIDE DEF S
  <2>2. PICK f \in [Nat -> Seq(Nat)] : From(f, k)
    <3>1. k <= b + 1
      BY <2>1
    <3> HIDE DEF From
    <3> QED  BY <2>1, <3>1
  <2> DEFINE c == b - k
             new == <<c>> \o f[nx[c]]
             g == [t \in Nat |-> IF t = c THEN new ELSE f[t]]
  <2>3. c \in 0 .. b /\ c + k = b /\ c \in Nat
    BY <2>1
  <2>4. nx[c] \in Nat /\ nx[c] > c
    BY <2>3
  <2>10. \A t \in Nat : t + (k + 1) > b /\ t # c => t > c /\ t + k > b
    BY <2>1
  <2>11. \A t, u \in Nat : t > c /\ u > t => u # c
    BY <2>3
  <2> HIDE DEF c
  <2>5. new \in Seq(Nat)
    <3>1. <<c>> \in Seq(Nat) /\ f[nx[c]] \in Seq(Nat)
      BY <2>3, <2>4
    <3> QED  BY <3>1
  <2> HIDE DEF new
  <2>6. g \in [Nat -> Seq(Nat)]
    BY <2>5
  <2>7. g[c] = new /\ \A t \in Nat : t # c => g[t] = f[t]
    BY <2>3
  <2> HIDE DEF g
  <2>8. ASSUME NEW t \in Nat, t + (k + 1) > b
        PROVE  g[t] = IF t > b THEN << >> ELSE <<t>> \o g[nx[t]]
    <3>1. CASE t = c
      <4>1. ~(t > b)
        BY <2>3, <3>1
      <4>2. g[nx[c]] = f[nx[c]]
        <5>1. nx[c] # c
          BY <2>3, <2>4
        <5> QED  BY <2>4, <2>7, <5>1
      <4> QED  BY <2>7, <3>1, <4>1, <4>2 DEF new
    <3>2. CASE t # c
      <4>1. t > c /\ t + k > b
        BY <2>8, <2>10, <3>2
      <4>2. g[t] = f[t]
        BY <2>7, <3>2
      <4>3. f[t] = IF t > b THEN << >> ELSE <<t>> \o f[nx[t]]
        BY <2>2, <4>1
      <4>4. CASE t > b
        BY <4>2, <4>3, <4>4
      <4>5. CASE ~(t > b)
        <5>1. t \in 0 .. b
          BY <4>5
        <5>2. nx[t] \in Nat /\ nx[t] > t
          BY <5>1
        <5>3. nx[t] # c
          BY <2>11, <4>1, <5>2
        <5>4. g[nx[t]] = f[nx[t]]
          BY <2>7, <5>2, <5>3
        <5> QED  BY <4>2, <4>3, <4>5, <5>4
      <4> QED  BY <4>4, <4>5
    <3> QED  BY <3>1, <3>2
  <2>9. From(g, k + 1)
    BY <2>8
  <2> HIDE DEF From
  <2> QED  BY <2>6, <2>9
<1>3. S = Nat
  <2>1. S \in SUBSET Nat
    OBVIOUS
  <2> HIDE DEF S
  <2> QED  BY <1>1, <1>2, <2>1, SetInduction
<1>4. PICK f \in [Nat -> Seq(Nat)] : From(f, b + 1)
  <2> HIDE DEF Has
  <2>1. b + 1 \in Nat /\ b + 1 <= b + 1
    OBVIOUS
  <2>2. Has(b + 1)
    BY <1>3, <2>1
  <2> QED  BY <2>2 DEF Has
<1>5. ASSUME NEW t \in Nat
      PROVE  f[t] = IF t > b THEN << >> ELSE IF nx[t] = t THEN <<t>> ELSE <<t>> \o f[nx[t]]
  <2>1. t + (b + 1) > b
    OBVIOUS
  <2>2. f[t] = IF t > b THEN << >> ELSE <<t>> \o f[nx[t]]
    BY <1>4, <2>1
  <2>3. ASSUME ~(t > b) PROVE nx[t] # t
    <3>1. t \in 0 .. b
      BY <2>3
    <3>2. nx[t] \in Nat /\ nx[t] > t
      BY <3>1
    <3> QED  BY <3>1, <3>2
  <2> QED  BY <2>2, <2>3
<1> QED  BY <1>5 DEF IsVisits

\* A loop without a length: at most the start of a month is visited besides.
LEMMA VisitsOfNoLength ==
  ASSUME NEW b \in Nat, NEW nx \in [0 .. b -> Nat], \A t \in 0 .. b : nx[t] <= t /\ nx[nx[t]] = nx[t]
  PROVE  \E f \in [Nat -> Seq(Nat)] : IsVisits(f, nx, b)
<1> DEFINE f == [t \in Nat |-> IF t > b THEN << >> ELSE IF nx[t] = t THEN <<t>> ELSE <<t>> \o <<nx[t]>>]
<1>1. ASSUME NEW t \in Nat PROVE f[t] \in Seq(Nat)
  <2>1. CASE t > b
    <3>1. << >> \in Seq(Nat)
      OBVIOUS
    <3> QED  BY <2>1, <3>1
  <2>2. CASE ~(t > b)
    <3>1. nx[t] \in Nat
      BY <2>2
    <3>2. <<t>> \in Seq(Nat) /\ <<nx[t]>> \in Seq(Nat)
      BY <3>1
    <3>3. <<t>> \o <<nx[t]>> \in Seq(Nat)
      BY <3>2
    <3> QED  BY <2>2, <3>2, <3>3
  <2> QED  BY <2>1, <2>2
<1>2. ASSUME NEW t \in Nat
      PROVE  f[t] = IF t > b THEN << >> ELSE IF nx[t] = t THEN <<t>> ELSE <<t>> \o f[nx[t]]
  <2>1. CASE t > b
    BY <2>1
  <2>2. CASE ~(t > b)
    <3>1. nx[t] \in Nat /\ nx[t] <= t /\ nx[nx[t]] = nx[t]
      <4>1. t \in 0 .. b
        BY <2>2
      <4> QED  BY <4>1
    <3>2. f[nx[t]] = <<nx[t]>>
      BY <2>2, <3>1
    <3>3. f[t] = IF nx[t] = t THEN <<t>> ELSE <<t>> \o <<nx[t]>>
      BY <2>2
    <3> HIDE DEF f
    <3> QED  BY <2>2, <3>2, <3>3
  <2> QED  BY <2>1, <2>2
<1>3. f \in [Nat -> Seq(Nat)]
  <2>1. f = [t \in Nat |-> f[t]]
    OBVIOUS
  <2> HIDE DEF f
  <2> QED  BY <1>1, <2>1
<1> HIDE DEF f
<1> QED  BY <1>2, <1>3 DEF IsVisits

\* s enumerates T in order, by steps of nx that end after b.
Enumerates(s, T, nx, b) ==
  /\ s \in Seq(Nat) /\ Len(s) > 0 /\ {s[i] : i \in 1 .. Len(s)} = T
  /\ \A i, j \in 1 .. Len(s) : i < j => s[i] < s[j]
  /\ \A i \in 1 .. Len(s) - 1 : s[i + 1] = nx[s[i]]
  /\ nx[s[Len(s)]] > b

\* A time before the others.
LEMMA OneMoreVisit ==
  ASSUME NEW b \in Nat, NEW nx, NEW T \in SUBSET Nat, NEW s, NEW t \in Nat,
         Enumerates(s, T, nx, b), \A u \in T : t < u, s[1] = nx[t]
  PROVE  Enumerates(<<t>> \o s, {t} \cup T, nx, b)
<1> DEFINE p == <<t>> \o s
<1>1. s \in Seq(Nat) /\ Len(s) \in Nat /\ Len(s) > 0
  BY DEF Enumerates
<1>2. /\ p \in Seq(Nat) /\ Len(p) = Len(s) + 1 /\ p[1] = t
      /\ \A i \in 1 .. Len(s) : p[i + 1] = s[i]
  <2>1. <<t>> \in Seq(Nat) /\ Len(<<t>>) = 1 /\ <<t>>[1] = t
    OBVIOUS
  <2> QED  BY <1>1, <2>1
<1> HIDE DEF p
<1>3. ASSUME NEW i \in 1 .. Len(p), i # 1 PROVE i - 1 \in 1 .. Len(s) /\ p[i] = s[i - 1]
  <2>1. i - 1 \in 1 .. Len(s) /\ (i - 1) + 1 = i
    BY <1>1, <1>2, <1>3
  <2> QED  BY <1>2, <2>1
<1>4. {p[i] : i \in 1 .. Len(p)} = {t} \cup T
  <2>1. ASSUME NEW i \in 1 .. Len(p) PROVE p[i] \in {t} \cup T
    BY <1>2, <1>3 DEF Enumerates
  <2>2. ASSUME NEW u \in {t} \cup T PROVE \E i \in 1 .. Len(p) : p[i] = u
    <3>1. CASE u = t
      <4>1. 1 \in 1 .. Len(p)
        BY <1>1, <1>2
      <4> QED  BY <1>2, <3>1, <4>1
    <3>2. CASE u \in T
      <4>1. PICK i \in 1 .. Len(s) : s[i] = u
        BY <3>2 DEF Enumerates
      <4>2. i + 1 \in 1 .. Len(p) /\ p[i + 1] = u
        BY <1>1, <1>2, <4>1
      <4> QED  BY <4>2
    <3> QED  BY <3>1, <3>2
  <2> QED  BY <2>1, <2>2
<1>5. ASSUME NEW i \in 1 .. Len(p), NEW j \in 1 .. Len(p), i < j PROVE p[i] < p[j]
  <2>1. j # 1 /\ j - 1 \in 1 .. Len(s) /\ p[j] = s[j - 1]
    BY <1>1, <1>2, <1>3, <1>5
  <2>2. CASE i = 1
    BY <1>2, <2>1, <2>2 DEF Enumerates
  <2>3. CASE i # 1
    <3>1. i - 1 \in 1 .. Len(s) /\ p[i] = s[i - 1] /\ i - 1 < j - 1
      BY <1>1, <1>2, <1>3, <1>5, <2>3
    <3> QED  BY <2>1, <3>1 DEF Enumerates
  <2> QED  BY <2>2, <2>3
<1>6. ASSUME NEW i \in 1 .. Len(p) - 1 PROVE p[i + 1] = nx[p[i]]
  <2>1. i \in 1 .. Len(s) /\ p[i + 1] = s[i]
    BY <1>1, <1>2
  <2>2. CASE i = 1
    BY <1>2, <2>1, <2>2
  <2>3. CASE i # 1
    <3>1. i \in 1 .. Len(p)
      BY <1>1, <1>2
    <3>2. p[i] = s[i - 1] /\ i - 1 \in 1 .. Len(s)
      BY <1>3, <2>3, <3>1
    <3>3. i - 1 \in 1 .. Len(s) - 1 /\ (i - 1) + 1 = i
      BY <1>1, <1>2, <2>1, <3>2
    <3> QED  BY <2>1, <3>2, <3>3 DEF Enumerates
  <2> QED  BY <2>2, <2>3
<1>7. nx[p[Len(p)]] > b
  <2>1. p[Len(p)] = s[Len(s)]
    BY <1>1, <1>2
  <2> QED  BY <2>1 DEF Enumerates
<1>8. Len(p) > 0
  BY <1>1, <1>2
<1> QED  BY <1>2, <1>4, <1>5, <1>6, <1>7, <1>8 DEF Enumerates, p

\* The only time.
LEMMA LastVisit ==
  ASSUME NEW b \in Nat, NEW nx, NEW t \in Nat, nx[t] > b
  PROVE  Enumerates(<<t>>, {t}, nx, b) /\ <<t>>[1] = t
<1> DEFINE p == <<t>>
<1>1. p \in Seq(Nat) /\ Len(p) = 1 /\ p[1] = t
  OBVIOUS
<1> HIDE DEF p
<1>2. {p[i] : i \in 1 .. Len(p)} = {t}
  BY <1>1
<1>3. nx[p[Len(p)]] > b
  BY <1>1
<1>4. Len(p) > 0 /\ \A i, j \in 1 .. Len(p) : ~(i < j)
  BY <1>1
<1>5. \A i \in 1 .. Len(p) - 1 : FALSE
  BY <1>1
<1> QED  BY <1>1, <1>2, <1>3, <1>4, <1>5 DEF Enumerates, p

\* The next one of a time in `on' is the one that a step comes to.
Connects(nx, on, b) ==
  \A t \in on : /\ nx[t] <= b => nx[t] \in on
                /\ \A u \in on : u > t => u >= nx[t]

Onward(on, t) == {u \in on : u >= t}

\* Times that the steps reach one after the other are visited in order, and no others.
LEMMA VisitsEnumerate ==
  ASSUME NEW b \in Nat, NEW nx \in [0 .. b -> Nat], \A t \in 0 .. b : nx[t] > t,
         NEW f, IsVisits(f, nx, b), NEW on \in SUBSET (0 .. b), Connects(nx, on, b)
  PROVE  \A t \in on : Enumerates(f[t], Onward(on, t), nx, b) /\ f[t][1] = t
<1> DEFINE Good(t) == Enumerates(f[t], {u \in on : u >= t}, nx, b) /\ f[t][1] = t
<1> USE DEF Connects, Onward
<1>1. ASSUME NEW t \in on, nx[t] <= b => Good(nx[t]) PROVE Good(t)
  <2>1. t \in Nat /\ t <= b /\ nx[t] \in Nat /\ nx[t] > t
    <3>1. t \in 0 .. b
      OBVIOUS
    <3> QED  BY <3>1
  <2>2. f[t] = <<t>> \o f[nx[t]]
    <3>1. ~(t > b) /\ nx[t] # t
      BY <2>1
    <3> QED  BY <2>1, <3>1 DEF IsVisits
  <2>3. CASE nx[t] > b
    <3>1. f[nx[t]] = << >>
      BY <2>1, <2>3 DEF IsVisits
    <3>2. <<t>> \o << >> = <<t>>
      <4>1. <<t>> \in Seq(Nat)
        BY <2>1
      <4> QED  BY <4>1
    <3>3. {u \in on : u >= t} = {t}
      <4>1. ASSUME NEW u \in on, u >= t PROVE u = t
        <5>1. u \in Nat /\ u <= b
          <6>1. u \in 0 .. b
            OBVIOUS
          <6> QED  BY <6>1
        <5>2. ~(u >= nx[t])
          BY <2>1, <2>3, <5>1
        <5>3. ~(u > t)
          BY <5>2
        <5> QED  BY <2>1, <4>1, <5>1, <5>3
      <4>2. t \in on /\ t >= t
        BY <2>1
      <4> QED  BY <4>1, <4>2
    <3>4. f[t] = <<t>>
      BY <2>2, <3>1, <3>2
    <3> QED  BY <2>1, <2>3, <3>3, <3>4, LastVisit
  <2>4. CASE ~(nx[t] > b)
    <3> DEFINE s == f[nx[t]]
               T == {u \in on : u >= nx[t]}
    <3>1. nx[t] <= b /\ nx[t] \in on
      BY <2>1, <2>4
    <3>2. Enumerates(s, T, nx, b) /\ s[1] = nx[t]
      BY <1>1, <3>1
    <3>3. T \in SUBSET Nat /\ \A u \in T : t < u
      <4>1. ASSUME NEW u \in T PROVE u \in Nat /\ t < u
        <5>1. u \in 0 .. b /\ u >= nx[t]
          OBVIOUS
        <5> QED  BY <2>1, <5>1
      <4> QED  BY <4>1
    <3>4. {u \in on : u >= t} = {t} \cup T
      <4>1. ASSUME NEW u \in on, u >= t PROVE u = t \/ u \in T
        <5>1. u \in 0 .. b
          OBVIOUS
        <5>2. u = t \/ u > t
          BY <2>1, <4>1, <5>1
        <5> QED  BY <5>2
      <4>2. ASSUME NEW u \in {t} \cup T PROVE u \in on /\ u >= t
        <5>1. CASE u = t
          BY <2>1, <5>1
        <5>2. CASE u \in T
          <6>1. u \in 0 .. b /\ u >= nx[t] /\ u \in on
            BY <5>2
          <6> QED  BY <2>1, <6>1
        <5> QED  BY <5>1, <5>2
      <4> HIDE DEF T
      <4> QED  BY <4>1, <4>2
    <3> HIDE DEF s, T
    <3>5. Enumerates(<<t>> \o s, {t} \cup T, nx, b)
      BY <2>1, <3>2, <3>3, OneMoreVisit
    <3>6. (<<t>> \o s)[1] = t
      <4>1. s \in Seq(Nat) /\ <<t>> \in Seq(Nat) /\ Len(<<t>>) = 1 /\ <<t>>[1] = t
        BY <2>1, <3>2 DEF Enumerates
      <4> QED  BY <4>1
    <3> QED  BY <2>2, <3>4, <3>5, <3>6 DEF s
  <2> QED  BY <2>3, <2>4
<1> HIDE DEF Good
<1> DEFINE S == {k \in Nat : \A t \in on : t + k >= b => Good(t)}
<1>2. 0 \in S
  <2>1. ASSUME NEW t \in on, t + 0 >= b PROVE Good(t)
    <3>1. t \in 0 .. b
      OBVIOUS
    <3>2. nx[t] \in Nat /\ nx[t] > t
      BY <3>1
    <3>3. ~(nx[t] <= b)
      BY <2>1, <3>1, <3>2
    <3> QED  BY <1>1, <3>3
  <2> QED  BY <2>1
<1>3. ASSUME NEW k \in S PROVE k + 1 \in S
  <2>1. k \in Nat /\ \A t \in on : t + k >= b => Good(t)
    OBVIOUS
  <2>2. ASSUME NEW t \in on, t + (k + 1) >= b PROVE Good(t)
    <3>1. t \in 0 .. b
      OBVIOUS
    <3>2. nx[t] \in Nat /\ nx[t] > t
      BY <3>1
    <3>3. nx[t] + k >= b
      BY <2>1, <2>2, <3>1, <3>2
    <3>4. nx[t] <= b => Good(nx[t])
      BY <2>1, <3>3
    <3> QED  BY <1>1, <3>4
  <2> QED  BY <2>1, <2>2
<1>4. S = Nat
  <2>1. S \in SUBSET Nat
    OBVIOUS
  <2> HIDE DEF S
  <2> QED  BY <1>2, <1>3, <2>1, SetInduction
<1>5. ASSUME NEW t \in on PROVE Good(t)
  <2>1. t \in 0 .. b
    OBVIOUS
  <2>2. t + b >= b
    BY <2>1
  <2>3. b \in S
    BY <1>4
  <2> QED  BY <2>2, <2>3
<1> QED  BY <1>5 DEF Good

\* The i-th member of a set of numbers, counted from below, is that of its enumeration.
LEMMA EnumerationCounts ==
  ASSUME NEW T \in SUBSET Nat, NEW s, NEW nx, NEW b, Enumerates(s, T, nx, b)
  PROVE  s = [i \in 1 .. Series!Cardinality(T) |->
                CHOOSE t \in T : Series!Cardinality({u \in T : u <= t}) = i]
<1> DEFINE Below(t) == {u \in T : u <= t}
<1>1. /\ s \in Seq(Nat) /\ Len(s) \in Nat /\ Len(s) > 0
      /\ \A i \in 1 .. Len(s) : s[i] \in T /\ s[i] \in Nat
      /\ \A t \in T : \E i \in 1 .. Len(s) : t = s[i]
      /\ \A i, j \in 1 .. Len(s) : i < j => s[i] < s[j]
  <2>1. /\ s \in Seq(Nat) /\ Len(s) > 0 /\ {s[i] : i \in 1 .. Len(s)} = T
        /\ \A i, j \in 1 .. Len(s) : i < j => s[i] < s[j]
    BY DEF Enumerates
  <2>2. ASSUME NEW i \in 1 .. Len(s) PROVE s[i] \in T /\ s[i] \in Nat
    BY <2>1
  <2>3. ASSUME NEW t \in T PROVE \E i \in 1 .. Len(s) : t = s[i]
    BY <2>1
  <2>4. Len(s) \in Nat
    BY <2>1
  <2> QED  BY <2>1, <2>2, <2>3, <2>4
<1>2. ASSUME NEW i \in 1 .. Len(s) PROVE Series!Cardinality(Below(s[i])) = i
  <2> DEFINE g == [j \in 1 .. i |-> s[j]]
  <2>1. i \in Nat /\ \A j \in 1 .. i : j \in 1 .. Len(s)
    BY <1>1
  <2>2. ASSUME NEW j \in 1 .. i PROVE g[j] \in Below(s[i])
    <3>1. j \in 1 .. Len(s) /\ g[j] = s[j] /\ (j < i \/ j = i)
      BY <2>1
    <3>2. s[j] \in T /\ s[j] \in Nat /\ s[i] \in Nat /\ (j < i => s[j] < s[i])
      BY <1>1, <3>1
    <3>3. s[j] <= s[i]
      BY <3>1, <3>2
    <3> QED  BY <3>1, <3>2, <3>3
  <2>3. ASSUME NEW j \in 1 .. i, NEW k \in 1 .. i, g[j] = g[k] PROVE j = k
    <3>1. j \in 1 .. Len(s) /\ k \in 1 .. Len(s) /\ s[j] = s[k]
      BY <2>1, <2>3
    <3>2. /\ s[j] \in Nat /\ s[k] \in Nat
          /\ (j < k => s[j] < s[k]) /\ (k < j => s[k] < s[j])
      BY <1>1, <3>1
    <3>3. ~(j < k) /\ ~(k < j)
      BY <3>1, <3>2
    <3> QED  BY <3>3
  <2>4. ASSUME NEW t \in Below(s[i]) PROVE \E j \in 1 .. i : g[j] = t
    <3>1. t \in T /\ t <= s[i]
      OBVIOUS
    <3>2. PICK j \in 1 .. Len(s) : t = s[j]
      BY <1>1, <3>1
    <3>3. s[j] \in Nat /\ s[i] \in Nat /\ (i < j => s[i] < s[j])
      BY <1>1
    <3>4. ~(i < j)
      BY <3>1, <3>2, <3>3
    <3>5. j \in 1 .. i
      BY <1>1, <3>4
    <3> QED  BY <3>2, <3>5
  <2> DEFINE all == Below(s[i])
  <2>5. g \in [1 .. i -> all]
    BY <2>2
  <2>6. \A t \in all : \E j \in 1 .. i : g[j] = t
    BY <2>4
  <2>7. \A j, k \in 1 .. i : g[j] = g[k] => j = k
    BY <2>3
  <2> HIDE DEF g, all
  <2>8. g \in Bijection(1 .. i, all)
    <3>1. DOMAIN g = 1 .. i
      BY <2>5
    <3>2. IsInjective(g)
      BY <2>7, <3>1 DEF IsInjective
    <3>3. g \in Injection(1 .. i, all) /\ g \in Surjection(1 .. i, all)
      BY <2>5, <2>6, <3>2, Zenon DEF Injection, Surjection
    <3> QED  BY <3>3 DEF Bijection
  <2>9. ExistsBijection(1 .. i, all)
    BY <2>8 DEF ExistsBijection
  <2>10. IsFiniteSet(1 .. i) /\ Series!Cardinality(1 .. i) = i
    BY <2>1, CardinalityOfSeries, FS_Interval
  <2>11. Series!Cardinality(all) = i
    BY <2>9, <2>10, CardinalityOfSeries, FS_Bijection
  <2> QED  BY <2>11 DEF all
<1>3. Series!Cardinality(T) = Len(s)
  <2>1. Len(s) \in 1 .. Len(s)
    BY <1>1
  <2>2. ASSUME NEW t \in T PROVE t <= s[Len(s)]
    <3>1. PICK i \in 1 .. Len(s) : t = s[i]
      BY <1>1
    <3>2. (i < Len(s) \/ i = Len(s)) /\ s[i] \in Nat /\ s[Len(s)] \in Nat
      BY <1>1, <2>1
    <3>3. i < Len(s) => s[i] < s[Len(s)]
      BY <1>1, <2>1
    <3> QED  BY <3>1, <3>2, <3>3
  <2>3. Below(s[Len(s)]) = T
    BY <2>2
  <2> HIDE DEF Below
  <2> QED  BY <1>2, <2>1, <2>3
<1>4. ASSUME NEW i \in 1 .. Len(s)
      PROVE  s[i] = CHOOSE t \in T : Series!Cardinality(Below(t)) = i
  <2>1. s[i] \in T /\ Series!Cardinality(Below(s[i])) = i
    BY <1>1, <1>2
  <2>2. ASSUME NEW t \in T, Series!Cardinality(Below(t)) = i PROVE t = s[i]
    <3>1. PICK j \in 1 .. Len(s) : t = s[j]
      BY <1>1
    <3>2. Series!Cardinality(Below(s[j])) = j
      BY <1>2
    <3> HIDE DEF Below
    <3> QED  BY <2>2, <3>1, <3>2
  <2> HIDE DEF Below
  <2>3. \A t \in T : Series!Cardinality(Below(t)) = i => t = s[i]
    BY <2>2
  <2> QED  BY <2>1, <2>3
<1>5. s = [i \in 1 .. Len(s) |-> s[i]]
  BY <1>1
<1>6. s = [i \in 1 .. Len(s) |-> CHOOSE t \in T : Series!Cardinality(Below(t)) = i]
  <2> HIDE DEF Below
  <2> QED  BY <1>4, <1>5
<1> QED  BY <1>3, <1>6

-----------------------------------------------------------------------------
(* Forecast: the first and the last time of a series *)

LEMMA Extremes ==
  ASSUME NEW n \in Nat, n > 0, NEW v \in [1 .. n -> Nat]
  PROVE  /\ \E l \in 1 .. n : \A i \in 1 .. n : v[l] <= v[i]
         /\ \E l \in 1 .. n : \A i \in 1 .. n : v[l] >= v[i]
<1> DEFINE Low(k) == \E l \in 1 .. k + 1 : \A i \in 1 .. k + 1 : v[l] <= v[i]
           High(k) == \E l \in 1 .. k + 1 : \A i \in 1 .. k + 1 : v[l] >= v[i]
           S == {k \in Nat : k + 1 <= n => Low(k) /\ High(k)}
<1>1. 0 \in S
  <2> SUFFICES ASSUME 0 + 1 <= n PROVE Low(0) /\ High(0)
    OBVIOUS
  <2>1. 1 \in 1 .. n /\ 1 \in 1 .. 0 + 1 /\ \A i \in 1 .. 0 + 1 : i = 1
    OBVIOUS
  <2> QED  BY <2>1
<1>2. ASSUME NEW k \in S PROVE k + 1 \in S
  <2> SUFFICES ASSUME (k + 1) + 1 <= n PROVE Low(k + 1) /\ High(k + 1)
    <3> HIDE DEF Low, High
    <3> QED  OBVIOUS
  <2> DEFINE e == (k + 1) + 1
  <2>1. k \in Nat /\ e \in 1 .. n /\ e \in 1 .. e /\ v[e] \in Nat
    OBVIOUS
  <2>2. \A i \in 1 .. e : i = e \/ i \in 1 .. k + 1
    OBVIOUS
  <2>3. \A i \in 1 .. e : i \in 1 .. n /\ v[i] \in Nat
    BY <2>1
  <2>4. \A i \in 1 .. k + 1 : i \in 1 .. e
    BY <2>1
  <2>5. PICK l \in 1 .. k + 1 : \A i \in 1 .. k + 1 : v[l] <= v[i]
    OBVIOUS
  <2>6. PICK h \in 1 .. k + 1 : \A i \in 1 .. k + 1 : v[h] >= v[i]
    OBVIOUS
  <2> HIDE DEF e
  <2>7. \E x \in 1 .. e : \A i \in 1 .. e : v[x] <= v[i]
    <3>1. CASE v[l] <= v[e]
      <4>1. \A i \in 1 .. e : v[l] <= v[i]
        BY <2>2, <2>5, <3>1
      <4> QED  BY <2>4, <4>1
    <3>2. CASE ~(v[l] <= v[e])
      <4>1. \A i \in 1 .. e : v[e] <= v[i]
        <5>1. ASSUME NEW i \in 1 .. e PROVE v[e] <= v[i]
          <6>1. v[i] \in Nat /\ v[l] \in Nat /\ (i = e \/ v[l] <= v[i])
            BY <2>2, <2>3, <2>4, <2>5
          <6> QED  BY <2>1, <3>2, <6>1
        <5> QED  BY <5>1
      <4> QED  BY <2>1, <4>1
    <3> QED  BY <3>1, <3>2
  <2>8. \E x \in 1 .. e : \A i \in 1 .. e : v[x] >= v[i]
    <3>1. CASE v[h] >= v[e]
      <4>1. \A i \in 1 .. e : v[h] >= v[i]
        BY <2>2, <2>6, <3>1
      <4> QED  BY <2>4, <4>1
    <3>2. CASE ~(v[h] >= v[e])
      <4>1. \A i \in 1 .. e : v[e] >= v[i]
        <5>1. ASSUME NEW i \in 1 .. e PROVE v[e] >= v[i]
          <6>1. v[i] \in Nat /\ v[h] \in Nat /\ (i = e \/ v[h] >= v[i])
            BY <2>2, <2>3, <2>4, <2>6
          <6> QED  BY <2>1, <3>2, <6>1
        <5> QED  BY <5>1
      <4> QED  BY <2>1, <4>1
    <3> QED  BY <3>1, <3>2
  <2> QED  BY <2>7, <2>8 DEF e
<1>3. S = Nat
  <2>1. S \in SUBSET Nat
    OBVIOUS
  <2> HIDE DEF S
  <2> QED  BY <1>1, <1>2, <2>1, SetInduction
<1> DEFINE k == n - 1
<1>4. k \in Nat /\ k + 1 = n
  OBVIOUS
<1> HIDE DEF k
<1>5. Low(k) /\ High(k)
  <2> HIDE DEF Low, High
  <2> QED  BY <1>3, <1>4
<1> QED  BY <1>4, <1>5

\* What a series is: observations, of which there is one at least.
IsSeries(list) == list # << >> /\ list \in Seq([ts : Nat, y : Int, item : STRING])

LEMMA SeriesEnds ==
  ASSUME NEW list, IsSeries(list)
  PROVE  /\ Series!Start(list) \in Series!Times(list) /\ Series!End(list) \in Series!Times(list)
         /\ \A t \in Series!Times(list) : t \in Nat /\ Series!Start(list) <= t /\ t <= Series!End(list)
<1> DEFINE v == [i \in 1 .. Len(list) |-> list[i].ts]
           n == Len(list)
<1>1. n \in Nat /\ n > 0 /\ DOMAIN list = 1 .. n /\ \A i \in 1 .. n : list[i].ts \in Nat
  <2> DEFINE Row == [ts : Nat, y : Int, item : STRING]
  <2>1. list # << >> /\ list \in Seq(Row)
    BY DEF IsSeries
  <2>2. \A r \in Row : r.ts \in Nat
    OBVIOUS
  <2> HIDE DEF Row
  <2>3. n \in Nat /\ n > 0 /\ DOMAIN list = 1 .. n /\ \A i \in 1 .. n : list[i] \in Row
    BY <2>1
  <2> QED  BY <2>2, <2>3
<1>2. v \in [1 .. n -> Nat] /\ \A i \in 1 .. n : v[i] = list[i].ts
  BY <1>1
<1>3. Series!Times(list) = {v[i] : i \in 1 .. n}
  BY <1>1, <1>2 DEF Series!Times
<1> HIDE DEF v, n
<1>4. /\ \E l \in 1 .. n : \A i \in 1 .. n : v[l] <= v[i]
      /\ \E l \in 1 .. n : \A i \in 1 .. n : v[l] >= v[i]
  BY <1>1, <1>2, Extremes
<1>5. \E t \in Series!Times(list) : \A u \in Series!Times(list) : t <= u
  BY <1>3, <1>4
<1>6. \E t \in Series!Times(list) : \A u \in Series!Times(list) : t >= u
  BY <1>3, <1>4
<1>7. Series!Start(list) \in Series!Times(list) /\ \A u \in Series!Times(list) : Series!Start(list) <= u
  BY <1>5, Zenon DEF Series!Start
<1>8. Series!End(list) \in Series!Times(list) /\ \A u \in Series!Times(list) : Series!End(list) >= u
  BY <1>6, Zenon DEF Series!End
<1>9. \A t \in Series!Times(list) : t \in Nat
  BY <1>2, <1>3
<1> QED  BY <1>7, <1>8, <1>9
-----------------------------------------------------------------------------
(* Forecast: the grid is the periods *)

LEMMA Multiples ==
  ASSUME NEW d \in Nat, NEW n \in Nat, n > 0, d % n = 0
  PROVE  /\ (d + n) % n = 0
         /\ \A e \in Nat : e % n = 0 /\ e > d => e >= d + n
<1> DEFINE q == d \div n
<1>1. d = n * q + (d % n) /\ q \in Int
  OBVIOUS
<1> HIDE DEF q
<1>2. d = n * q
  BY <1>1
<1>3. d + n = n * (q + 1) + 0 /\ 0 \in 0 .. n - 1 /\ q + 1 \in Int
  BY <1>1, <1>2
<1>4. ASSUME NEW x \in Int, NEW p \in Int, x = n * p + 0 PROVE x % n = 0
  BY <1>4
<1>5. ASSUME NEW e \in Nat, e % n = 0, e > d PROVE e >= d + n
  <2> DEFINE p == e \div n
  <2>1. e = n * p + (e % n) /\ p \in Int
    OBVIOUS
  <2> HIDE DEF p
  <2>2. e = n * p
    BY <1>5, <2>1
  <2> QED  BY <1>1, <1>2, <1>5, <2>1, <2>2
<1>6. d + n \in Int
  OBVIOUS
<1>7. (d + n) % n = 0
  BY <1>3, <1>4, <1>6
<1> QED  BY <1>5, <1>7

\* The steps of the grid's loop.
StepsTo(freq, b) == [t \in 0 .. b |-> Series!Step(freq, t)]

\* Every time of the series leaves the calendar room for a step.
HasRoom(list, freq) == \A t \in Series!Times(list) : Inside(freq, t)

LEMMA RoomBeforeEnd ==
  ASSUME NEW list, NEW freq \in Freqs, IsSeries(list), HasRoom(list, freq)
  PROVE  /\ Series!End(list) \in Nat /\ Series!Start(list) \in 0 .. Series!End(list)
         /\ Series!Start(list) \in Nat
         /\ \A t \in 0 .. Series!End(list) : Inside(freq, t)
         /\ StepsTo(freq, Series!End(list)) \in [0 .. Series!End(list) -> Nat]
<1> DEFINE b == Series!End(list)
           a == Series!Start(list)
<1>1. b \in Nat /\ a \in Nat /\ a <= b /\ Inside(freq, b)
  BY SeriesEnds DEF HasRoom
<1> HIDE DEF a, b
<1>2. ASSUME NEW t \in 0 .. b PROVE Inside(freq, t)
  <2>1. t \in Nat /\ t <= b
    OBVIOUS
  <2>2. CASE freq.unit = "D"
    BY <2>1, <2>2 DEF Inside
  <2>3. CASE freq.unit # "D"
    <3> DEFINE x == Series!FirstDay[Span - Series!Months(freq)]
    <3>1. Span - Series!Months(freq) \in 1 .. Span /\ b < x
      BY <1>1, <2>3, MonthsTyped DEF Inside
    <3>2. x \in Nat
      BY <3>1, FirstDays
    <3> HIDE DEF x
    <3>3. t < x
      BY <1>1, <2>1, <3>1, <3>2
    <3> QED  BY <2>1, <2>3, <3>3 DEF Inside, x
  <2> QED  BY <2>2, <2>3
<1>3. StepsTo(freq, b) \in [0 .. b -> Nat]
  BY <1>2, StepGoesOn DEF StepsTo
<1> QED  BY <1>1, <1>2, <1>3 DEF a, b

\* The loop has the equation of the visits, which has a solution.
LEMMA GridVisits ==
  ASSUME NEW list, NEW freq \in Freqs, IsSeries(list), HasRoom(list, freq)
  PROVE  \E f : /\ IsVisits(f, StepsTo(freq, Series!End(list)), Series!End(list))
                /\ Series!Grid(list, freq) = f[Series!Start(list)]
<1> DEFINE b == Series!End(list)
           nx == StepsTo(freq, b)
           Equation(g) == g = [t \in Nat |-> IF t > Series!End(list) THEN << >>
                                             ELSE IF Series!Step(freq, t) = t THEN <<t>>
                                             ELSE <<t>> \o g[Series!Step(freq, t)]]
           f == CHOOSE g : Equation(g)
<1>1. Series!Grid(list, freq) = f[Series!Start(list)]
  BY Zenon DEF Series!Grid
<1>2. b \in Nat /\ nx \in [0 .. b -> Nat] /\ \A t \in 0 .. b : Inside(freq, t)
  BY RoomBeforeEnd
<1>3. \A t \in Nat : ~(t > b) => nx[t] = Series!Step(freq, t)
  <2>1. \A t \in Nat : ~(t > b) => t \in 0 .. b
    BY <1>2
  <2> QED  BY <2>1 DEF StepsTo
<1>4. \E g \in [Nat -> Seq(Nat)] : IsVisits(g, nx, b)
  <2>1. CASE freq.n = 0
    <3>1. ASSUME NEW t \in 0 .. b PROVE nx[t] <= t /\ nx[nx[t]] = nx[t]
      <4>1. t \in Nat /\ nx[t] = Series!Step(freq, t)
        BY DEF StepsTo
      <4>2. /\ Series!Step(freq, t) \in Nat /\ Series!Step(freq, t) <= t
            /\ Series!Step(freq, Series!Step(freq, t)) = Series!Step(freq, t)
        BY <1>2, <2>1, StepGoesOn
      <4> DEFINE u == Series!Step(freq, t)
      <4>3. u \in 0 .. b
        BY <1>2, <4>1, <4>2
      <4>4. nx[u] = Series!Step(freq, u)
        BY <4>3 DEF StepsTo
      <4> QED  BY <4>1, <4>2, <4>4
    <3> HIDE DEF nx, b
    <3> QED  BY <1>2, <3>1, VisitsOfNoLength
  <2>2. CASE freq.n > 0
    <3>1. ASSUME NEW t \in 0 .. b PROVE nx[t] > t
      <4>1. nx[t] = Series!Step(freq, t)
        BY DEF StepsTo
      <4> QED  BY <1>2, <2>2, <4>1, StepGoesOn
    <3> HIDE DEF nx, b
    <3> QED  BY <1>2, <3>1, VisitsExist
  <2> QED  BY <2>1, <2>2, MonthsTyped
<1>5. \E g : Equation(g)
  <2>1. PICK g \in [Nat -> Seq(Nat)] : IsVisits(g, nx, b)
    BY <1>4
  <2>2. ASSUME NEW t \in Nat
        PROVE  g[t] = IF t > Series!End(list) THEN << >>
                      ELSE IF Series!Step(freq, t) = t THEN <<t>> ELSE <<t>> \o g[Series!Step(freq, t)]
    <3>1. g[t] = IF t > b THEN << >> ELSE IF nx[t] = t THEN <<t>> ELSE <<t>> \o g[nx[t]]
      BY <2>1 DEF IsVisits
    <3> QED  BY <1>3, <3>1
  <2>3. Equation(g)
    <3>1. g = [t \in Nat |-> g[t]]
      OBVIOUS
    <3> QED  BY <2>2, <3>1
  <2> QED  BY <2>3, Zenon
<1>6. Equation(f)
  <2> HIDE DEF Equation
  <2> QED  BY <1>5, Zenon
<1> HIDE DEF f
<1>7. ASSUME NEW t \in Nat
      PROVE  f[t] = IF t > b THEN << >> ELSE IF nx[t] = t THEN <<t>> ELSE <<t>> \o f[nx[t]]
  <2>1. f[t] = IF t > b THEN << >>
               ELSE IF Series!Step(freq, t) = t THEN <<t>> ELSE <<t>> \o f[Series!Step(freq, t)]
    BY <1>6
  <2> QED  BY <1>3, <2>1
<1> HIDE DEF Equation, nx
<1>8. IsVisits(f, nx, b)
  BY <1>7 DEF IsVisits
<1> QED  BY <1>1, <1>8 DEF nx

\* Steps of no length visit at most two times.
LEMMA GridOfNoLength ==
  ASSUME NEW list, NEW freq \in Freqs, IsSeries(list), HasRoom(list, freq), freq.n = 0
  PROVE  Series!Grid(list, freq) \in Seq(Nat) /\ Len(Series!Grid(list, freq)) <= 2
<1> DEFINE b == Series!End(list)
           nx == StepsTo(freq, b)
           t == Series!Start(list)
           u == Series!Step(freq, t)
<1>1. PICK f : IsVisits(f, nx, b) /\ Series!Grid(list, freq) = f[t]
  BY GridVisits
<1>2. b \in Nat /\ t \in 0 .. b /\ t \in Nat /\ Inside(freq, t)
  BY RoomBeforeEnd
<1>3. u \in Nat /\ u <= t /\ Series!Step(freq, u) = u
  BY <1>2, StepGoesOn
<1>4. u \in 0 .. b /\ ~(t > b) /\ ~(u > b)
  BY <1>2, <1>3
<1>5. nx[t] = u /\ nx[u] = u
  BY <1>2, <1>3, <1>4 DEF StepsTo
<1> HIDE DEF nx, b, t, u
<1>6. f[t] = IF u = t THEN <<t>> ELSE <<t>> \o f[u]
  BY <1>1, <1>2, <1>4, <1>5 DEF IsVisits
<1>7. f[u] = <<u>>
  BY <1>1, <1>3, <1>4, <1>5 DEF IsVisits
<1>8. /\ <<t>> \in Seq(Nat) /\ Len(<<t>>) = 1
      /\ <<t>> \o <<u>> \in Seq(Nat) /\ Len(<<t>> \o <<u>>) = 2
  BY <1>2, <1>3
<1> QED  BY <1>1, <1>6, <1>7, <1>8

LEMMA MonthsFollow ==
  ASSUME NEW t \in Nat, NEW u \in Nat, t <= u, u < Series!FirstDay[Span + 1]
  PROVE  Series!MonthOf(t) <= Series!MonthOf(u)
<1> DEFINE m == Series!MonthOf(t)
           k == Series!MonthOf(u)
<1>1. k \in 1 .. Span /\ Series!FirstDay[k] <= u /\ u < Series!FirstDay[k + 1]
  BY MonthOfDay
<1>2. t < Series!FirstDay[Span + 1]
  BY FirstDays
<1>3. m \in 1 .. Span /\ Series!FirstDay[m] <= t /\ t < Series!FirstDay[m + 1]
  BY <1>2, MonthOfDay
<1> HIDE DEF m, k
<1>4. ASSUME k < m PROVE FALSE
  <2>1. /\ k + 1 \in 1 .. Span + 1 /\ m \in 1 .. Span + 1
        /\ Series!FirstDay[k + 1] \in Nat /\ Series!FirstDay[m] \in Nat
    BY <1>1, <1>3, FirstDays
  <2>2. k + 1 = m \/ k + 1 < m
    BY <1>1, <1>3, <1>4
  <2>3. Series!FirstDay[k + 1] <= Series!FirstDay[m]
    <3>1. CASE k + 1 = m
      BY <2>1, <3>1
    <3>2. CASE k + 1 < m
      <4>1. Series!FirstDay[k + 1] + 28 <= Series!FirstDay[m]
        BY <2>1, <3>2, MonthsInOrder
      <4> QED  BY <2>1, <4>1
    <3> QED  BY <2>2, <3>1, <3>2
  <2> QED  BY <1>1, <1>3, <2>1, <2>3
<1>5. m <= k
  BY <1>1, <1>3, <1>4
<1> QED  BY <1>5 DEF m, k

\* The set of the periods of a series, of which Periods is the order.
PeriodSet(list, freq) ==
  {t \in Series!Start(list) .. Series!End(list) :
     IF freq.unit = "D" THEN (t - Series!Start(list)) % freq.n = 0
     ELSE t = Series!Start(list) \/ ( /\ Series!DayOf(t) = 1
                               /\ (Series!MonthOf(t) - Series!MonthOf(Series!Start(list))) % Series!Months(freq) = 0)}

\* From a period the step comes to the next one.
LEMMA DayPeriods ==
  ASSUME NEW list, NEW freq \in Freqs, IsSeries(list), HasRoom(list, freq), freq.n > 0,
         freq.unit = "D", NEW t \in PeriodSet(list, freq)
  PROVE  /\ Series!Step(freq, t) <= Series!End(list) => Series!Step(freq, t) \in PeriodSet(list, freq)
         /\ \A u \in PeriodSet(list, freq) : u > t => u >= Series!Step(freq, t)
<1> DEFINE a == Series!Start(list)
           b == Series!End(list)
           n == freq.n
<1>1. a \in Nat /\ b \in Nat /\ n \in Nat /\ n > 0
  BY RoomBeforeEnd, MonthsTyped
<1>2. Series!Step(freq, t) = t + n
  BY DEF Series!Step
<1>3. \A u : u \in PeriodSet(list, freq) <=> u \in a .. b /\ (u - a) % n = 0
  BY Zenon DEF PeriodSet
<1> HIDE DEF a, b, n
<1>4. t \in Nat /\ t - a \in Nat /\ (t - a) % n = 0 /\ t >= a
  BY <1>1, <1>3
<1> DEFINE d == t - a
<1>5. (d + n) % n = 0 /\ \A e \in Nat : e % n = 0 /\ e > d => e >= d + n
  <2> HIDE DEF d
  <2>1. d \in Nat /\ d % n = 0
    BY <1>4 DEF d
  <2> QED  BY <1>1, <2>1, Multiples
<1>6. d + n = (t + n) - a
  BY <1>1, <1>4
<1>7. ((t + n) - a) % n = 0
  <2> HIDE DEF d
  <2> QED  BY <1>5, <1>6
<1>8. t + n <= b => t + n \in PeriodSet(list, freq)
  <2>1. t + n <= b => t + n \in a .. b
    BY <1>1, <1>4
  <2> QED  BY <1>3, <1>7, <2>1
<1>9. ASSUME NEW u \in PeriodSet(list, freq), u > t PROVE u >= t + n
  <2>1. u \in Nat /\ u - a \in Nat /\ (u - a) % n = 0 /\ u - a > d
    BY <1>1, <1>3, <1>4, <1>9
  <2>2. u - a >= d + n
    <3> HIDE DEF d
    <3> QED  BY <1>5, <2>1
  <2> QED  BY <1>1, <1>4, <2>1, <2>2
<1> QED  BY <1>2, <1>8, <1>9 DEF b

LEMMA MonthPeriods ==
  ASSUME NEW list, NEW freq \in Freqs, IsSeries(list), HasRoom(list, freq), freq.n > 0,
         freq.unit # "D", Series!DayOf(Series!Start(list)) < 29, NEW t \in PeriodSet(list, freq)
  PROVE  /\ Series!Step(freq, t) = Series!NextPeriod(freq, t)
         /\ Series!Step(freq, t) <= Series!End(list) => Series!Step(freq, t) \in PeriodSet(list, freq)
         /\ \A u \in PeriodSet(list, freq) : u > t => u >= Series!Step(freq, t)
<1> DEFINE a == Series!Start(list)
           b == Series!End(list)
           n == Series!Months(freq)
           m == Series!MonthOf(t)
           o == Series!MonthOf(a)
           x == Series!Step(freq, t)
<1>1. a \in Nat /\ b \in Nat /\ n \in Nat /\ n > 0
  BY RoomBeforeEnd, MonthsTyped
<1>2. \A u : u \in PeriodSet(list, freq) <=>
        /\ u \in a .. b
        /\ u = a \/ (Series!DayOf(u) = 1 /\ (Series!MonthOf(u) - o) % n = 0)
  BY Zenon DEF PeriodSet
<1>3. ASSUME NEW u \in PeriodSet(list, freq)
      PROVE  /\ u \in Nat /\ a <= u /\ u <= b /\ Inside(freq, u)
             /\ Series!MonthOf(u) \in 1 .. Span /\ o \in 1 .. Span /\ o <= Series!MonthOf(u)
             /\ Series!FirstDay[Series!MonthOf(u)] <= u
             /\ u < Series!FirstDay[Series!MonthOf(u) + 1]
             /\ Series!DayOf(u) = (u - Series!FirstDay[Series!MonthOf(u)]) + 1
             /\ Series!MonthOf(u) + n < Span /\ u < Series!FirstDay[Span + 1]
             /\ (Series!MonthOf(u) - o) % n = 0
  <2> HIDE DEF a, b
  <2>1. u \in Nat /\ a <= u /\ u <= b /\ u \in 0 .. b /\ a \in 0 .. b
    BY <1>1, <1>2
  <2>2. Inside(freq, u) /\ Inside(freq, a)
    BY <2>1, RoomBeforeEnd DEF b
  <2>3. /\ Series!MonthOf(u) \in 1 .. Span /\ o \in 1 .. Span
        /\ Series!FirstDay[Series!MonthOf(u)] <= u /\ u < Series!FirstDay[Series!MonthOf(u) + 1]
        /\ Series!DayOf(u) = (u - Series!FirstDay[Series!MonthOf(u)]) + 1
        /\ Series!MonthOf(u) + n < Span /\ u < Series!FirstDay[Span + 1]
    BY <2>2, MonthInside
  <2>4. o <= Series!MonthOf(u)
    BY <1>1, <2>1, <2>3, MonthsFollow
  <2>5. (Series!MonthOf(u) - o) % n = 0
    <3>1. CASE u = a
      <4> HIDE DEF n, o
      <4>1. Series!MonthOf(u) = o /\ o \in Int
        <5>1. Series!MonthOf(u) = o
          BY <3>1 DEF o
        <5> QED  BY <2>3, <5>1
      <4>2. Series!MonthOf(u) - o = 0
        BY <4>1
      <4>3. 0 = n * 0 + 0 /\ 0 \in 0 .. n - 1
        BY <1>1
      <4>4. 0 % n = 0
        BY <1>1, <4>3
      <4> QED  BY <4>2, <4>4
    <3>2. CASE u # a
      BY <1>2, <3>2
    <3> QED  BY <3>1, <3>2
  <2> QED  BY <2>1, <2>2, <2>3, <2>4, <2>5
<1>4. Series!DayOf(t) < 29
  <2>1. t = a \/ Series!DayOf(t) = 1
    BY <1>2
  <2> QED  BY <2>1
<1>5. x = Series!FirstDay[m + n] /\ x \in Nat /\ x > t
  BY <1>3, <1>4, MonthStep
<1>6. x = Series!NextPeriod(freq, t)
  BY <1>5 DEF Series!NextPeriod
<1>7. /\ m \in 1 .. Span /\ o \in 1 .. Span /\ o <= m /\ m + n < Span /\ (m - o) % n = 0
      /\ t \in Nat /\ a <= t /\ Series!FirstDay[m] <= t /\ t < Series!FirstDay[Span + 1]
      /\ Span \in Nat
  BY <1>3, FirstDays
<1>8. /\ (m + n - o) % n = 0
      /\ \A k \in Nat : k >= o /\ (k - o) % n = 0 /\ k > m => k >= m + n
  <2> HIDE DEF m, n, o
  <2> DEFINE d == m - o
  <2>1. d \in Nat /\ d % n = 0
    BY <1>7
  <2>2. d + n = m + n - o
    BY <1>1, <1>7
  <2> HIDE DEF d
  <2>3. (d + n) % n = 0 /\ \A e \in Nat : e % n = 0 /\ e > d => e >= d + n
    BY <1>1, <2>1, Multiples
  <2>4. ASSUME NEW k \in Nat, k >= o, (k - o) % n = 0, k > m PROVE k >= m + n
    <3>1. k - o \in Nat /\ k - o > d
      BY <1>7, <2>4 DEF d
    <3>2. k - o >= d + n
      BY <2>3, <2>4, <3>1
    <3> QED  BY <1>1, <1>7, <2>2, <3>2
  <2> QED  BY <2>2, <2>3, <2>4
<1> HIDE DEF a, b, n, o, m, x
<1>9. ASSUME x <= b PROVE x \in PeriodSet(list, freq)
  <2>1. x \in a .. b
    BY <1>1, <1>5, <1>7, <1>9
  <2>2. m + n \in 1 .. Span /\ m + n \in Nat
    BY <1>1, <1>7
  <2>3. Series!FirstDay[m + n] <= x /\ x < Series!FirstDay[(m + n) + 1]
    <3>1. /\ Series!FirstDay[m + n] + 28 <= Series!FirstDay[(m + n) + 1]
          /\ Series!FirstDay[(m + n) + 1] \in Nat
      BY <2>2, FirstDays
    <3> QED  BY <1>5, <3>1
  <2>4. Series!MonthOf(x) = m + n
    BY <1>5, <2>2, <2>3, MonthIsUnique
  <2>5. Series!DayOf(x) = 1
    <3>1. Series!DayOf(x) = x - Series!FirstDay[Series!MonthOf(x)] + 1
      BY DEF Series!DayOf
    <3>2. Series!DayOf(x) = x - x + 1
      BY <1>5, <2>4, <3>1
    <3> QED  BY <1>5, <3>2
  <2>6. (Series!MonthOf(x) - o) % n = 0
    <3>1. Series!MonthOf(x) - o = m + n - o
      BY <1>1, <1>7, <2>4
    <3> QED  BY <1>8, <3>1
  <2>7. \A u : u \in a .. b /\ Series!DayOf(u) = 1 /\ (Series!MonthOf(u) - o) % n = 0 =>
          u \in PeriodSet(list, freq)
    BY <1>2, Zenon
  <2> QED  BY <2>1, <2>5, <2>6, <2>7, Zenon
<1>10. ASSUME NEW u \in PeriodSet(list, freq), u > t PROVE u >= x
  <2> DEFINE k == Series!MonthOf(u)
  <2>1. /\ k \in 1 .. Span /\ o <= k /\ (k - o) % n = 0 /\ u \in Nat /\ k \in Nat
        /\ Series!FirstDay[k] <= u /\ u < Series!FirstDay[Span + 1]
        /\ Series!DayOf(u) = (u - Series!FirstDay[k]) + 1
    BY <1>3, <1>7
  <2>2. u = Series!FirstDay[k]
    <3>1. Series!DayOf(u) = 1 /\ Series!FirstDay[k] \in Nat
      <4>1. u # a
        BY <1>1, <1>7, <1>10, <2>1
      <4>2. Series!DayOf(u) = 1
        BY <1>2, <4>1
      <4> QED  BY <2>1, <4>2, FirstDays
    <3> QED  BY <2>1, <3>1
  <2>3. m <= k
    BY <1>7, <1>10, <2>1, MonthsFollow DEF m
  <2> HIDE DEF k
  <2>4. k # m
    <3>1. Series!FirstDay[m] \in Nat
      BY <1>7, FirstDays
    <3> QED  BY <1>7, <1>10, <2>1, <2>2, <3>1
  <2>5. k >= m + n
    BY <1>7, <1>8, <2>1, <2>3, <2>4
  <2>6. m + n \in 1 .. Span + 1 /\ k \in 1 .. Span + 1
    BY <1>1, <1>7, <2>1
  <2>7. CASE k = m + n
    BY <1>5, <2>1, <2>2, <2>7
  <2>8. CASE k > m + n
    <3>1. Series!FirstDay[m + n] + 28 <= Series!FirstDay[k]
      BY <2>6, <2>8, MonthsInOrder
    <3> QED  BY <1>5, <2>1, <2>2, <3>1
  <2> QED  BY <1>1, <1>7, <2>1, <2>5, <2>7, <2>8
<1> QED  BY <1>6, <1>9, <1>10 DEF x, b

\* Where the series begins before the 29th, its grid is the order of its periods, and the
\* step from its last value comes to the period after it.
LEMMA GridIsPeriods ==
  ASSUME NEW list, NEW freq \in Freqs, IsSeries(list), HasRoom(list, freq), freq.n > 0,
         Series!DayOf(Series!Start(list)) < 29 \/ freq.unit = "D"
  PROVE  /\ Enumerates(Series!Grid(list, freq), PeriodSet(list, freq),
                       StepsTo(freq, Series!End(list)), Series!End(list))
         /\ Series!Grid(list, freq)[1] = Series!Start(list)
         /\ Series!Grid(list, freq) = Series!Periods(list, freq)
         /\ \A t \in PeriodSet(list, freq) : Series!Step(freq, t) = Series!NextPeriod(freq, t)
<1> DEFINE a == Series!Start(list)
           b == Series!End(list)
           nx == StepsTo(freq, b)
           on == PeriodSet(list, freq)
           grid == Series!Grid(list, freq)
<1>1. PICK f : IsVisits(f, nx, b) /\ grid = f[a]
  BY GridVisits
<1>2. /\ a \in Nat /\ b \in Nat /\ a <= b /\ nx \in [0 .. b -> Nat]
      /\ \A t \in 0 .. b : Inside(freq, t) /\ nx[t] = Series!Step(freq, t)
  BY RoomBeforeEnd DEF StepsTo
<1>3. on \in SUBSET (0 .. b) /\ \A u \in on : u >= a
  <2>1. \A u \in on : u \in a .. b
    BY Zenon DEF PeriodSet
  <2> HIDE DEF on, a, b
  <2> QED  BY <1>2, <2>1
<1>4. ASSUME NEW t \in on
      PROVE  /\ Series!Step(freq, t) <= b => Series!Step(freq, t) \in on
             /\ \A u \in on : u > t => u >= Series!Step(freq, t)
             /\ Series!Step(freq, t) = Series!NextPeriod(freq, t)
  <2>1. CASE freq.unit = "D"
    <3>1. Series!Step(freq, t) = Series!NextPeriod(freq, t)
      BY <2>1 DEF Series!Step, Series!NextPeriod
    <3> QED  BY <2>1, <3>1, DayPeriods
  <2>2. CASE freq.unit # "D"
    BY <2>2, MonthPeriods
  <2> QED  BY <2>1, <2>2
<1>5. a \in on
  <2>1. a \in a .. b
    BY <1>2
  <2>2. freq.unit = "D" => (a - a) % freq.n = 0
    <3> DEFINE n == freq.n
    <3>1. n \in Nat /\ n > 0
      BY MonthsTyped
    <3> HIDE DEF n, a
    <3>2. a - a = 0 /\ 0 = n * 0 + 0 /\ 0 \in 0 .. n - 1
      BY <1>2, <3>1
    <3>3. 0 % n = 0
      BY <3>1, <3>2
    <3> QED  BY <3>2, <3>3 DEF n
  <2> QED  BY <2>1, <2>2, Zenon DEF PeriodSet
<1>6. ASSUME NEW t \in 0 .. b PROVE nx[t] > t
  BY <1>2, StepGoesOn
<1>7. ASSUME NEW t \in on
      PROVE  (nx[t] <= b => nx[t] \in on) /\ \A u \in on : u > t => u >= nx[t]
  <2>1. nx[t] = Series!Step(freq, t)
    BY <1>2, <1>3
  <2> QED  BY <1>4, <2>1
<1>8. \A t \in on : Series!Step(freq, t) = Series!NextPeriod(freq, t)
  BY <1>4
<1>9. Series!Periods(list, freq) = [i \in 1 .. Series!Cardinality(on) |->
                              CHOOSE t \in on : Series!Cardinality({u \in on : u <= t}) = i]
  BY Zenon DEF Series!Periods, PeriodSet
<1> HIDE DEF nx, on, a, b, grid
<1>10. Enumerates(f[a], {u \in on : u >= a}, nx, b) /\ f[a][1] = a
  <2>1. \A t \in 0 .. b : nx[t] > t
    BY <1>6
  <2>2. Connects(nx, on, b)
    BY <1>7 DEF Connects
  <2>3. \A t \in on : Enumerates(f[t], Onward(on, t), nx, b) /\ f[t][1] = t
    <3>1. b \in Nat /\ nx \in [0 .. b -> Nat] /\ IsVisits(f, nx, b) /\ on \in SUBSET (0 .. b)
      BY <1>1, <1>2, <1>3
    <3> QED  BY <2>1, <2>2, <3>1, VisitsEnumerate
  <2> QED  BY <1>5, <2>3 DEF Onward
<1>11. {u \in on : u >= a} = on
  BY <1>3
<1>12. Enumerates(grid, on, nx, b) /\ grid[1] = a
  BY <1>1, <1>10, <1>11
<1>13. grid = Series!Periods(list, freq)
  <2>1. on \in SUBSET Nat
    BY <1>3
  <2>2. grid = [i \in 1 .. Series!Cardinality(on) |->
                  CHOOSE t \in on : Series!Cardinality({u \in on : u <= t}) = i]
    BY <1>12, <2>1, EnumerationCounts
  <2> QED  BY <1>9, <2>2
<1> QED  BY <1>8, <1>12, <1>13 DEF nx, on, a, b, grid

\* What the endpoint predicts first, for a series with all its values.
LEMMA PredictionFollows ==
  ASSUME NEW list, NEW freq \in Freqs, IsSeries(list), HasRoom(list, freq), freq.n > 0,
         Series!DayOf(Series!Start(list)) < 29 \/ freq.unit = "D",
         Series!Times(list) \subseteq PeriodSet(list, freq)
  PROVE  Series!PredictionStart(Series!Start(list), Len(Series!Grid(list, freq)), freq) =
           Series!NextPeriod(freq, Series!End(list))
<1> DEFINE a == Series!Start(list)
           b == Series!End(list)
           grid == Series!Grid(list, freq)
           n == Len(grid)
           G == [k \in 1 .. n |-> [t \in Nat |-> Series!Step(freq, t)]]
           path == [k \in 0 .. n |-> IF k < n THEN grid[k + 1] ELSE Series!Step(freq, b)]
           Equation(g) == g = [k \in 0 .. n |-> IF k = 0 THEN a ELSE Series!Step(freq, g[k - 1])]
           after == CHOOSE g : Equation(g)
<1>1. Series!PredictionStart(a, n, freq) = after[n]
  BY Zenon DEF Series!PredictionStart
<1>2. Enumerates(grid, PeriodSet(list, freq), StepsTo(freq, b), b) /\ grid[1] = a
  BY GridIsPeriods
<1>3. /\ a \in Nat /\ b \in Nat /\ a <= b
      /\ \A t \in 0 .. b : Inside(freq, t) /\ StepsTo(freq, b)[t] = Series!Step(freq, t)
  BY RoomBeforeEnd DEF StepsTo
<1>4. /\ grid \in Seq(Nat) /\ n \in Nat /\ n > 0
      /\ \A i \in 1 .. n : grid[i] \in 0 .. b /\ grid[i] \in PeriodSet(list, freq)
      /\ \A i, j \in 1 .. n : i < j => grid[i] < grid[j]
      /\ \A i \in 1 .. n - 1 : grid[i + 1] = Series!Step(freq, grid[i])
      /\ \E i \in 1 .. n : grid[i] = b
  <2> HIDE DEF b, grid
  <2>1. b \in Series!Times(list)
    BY SeriesEnds DEF b
  <2>2. grid \in Seq(Nat) /\ n \in Nat /\ n > 0
    BY <1>2 DEF Enumerates
  <2>3. ASSUME NEW i \in 1 .. n PROVE grid[i] \in 0 .. b /\ grid[i] \in PeriodSet(list, freq)
    <3>1. grid[i] \in PeriodSet(list, freq)
      BY <1>2 DEF Enumerates
    <3>2. grid[i] \in Series!Start(list) .. b
      BY <3>1, Zenon DEF PeriodSet, b
    <3>3. Series!Start(list) \in Nat
      BY <1>3
    <3> QED  BY <1>3, <3>1, <3>2, <3>3
  <2>4. ASSUME NEW i \in 1 .. n - 1 PROVE grid[i + 1] = Series!Step(freq, grid[i])
    <3>1. i \in 1 .. n
      BY <2>2
    <3>2. grid[i] \in 0 .. b
      BY <2>3, <3>1
    <3>3. grid[i + 1] = StepsTo(freq, b)[grid[i]]
      BY <1>2 DEF Enumerates
    <3> QED  BY <1>3, <3>2, <3>3
  <2>5. \E i \in 1 .. n : grid[i] = b
    BY <1>2, <2>1 DEF Enumerates
  <2>6. \A i, j \in 1 .. n : i < j => grid[i] < grid[j]
    BY <1>2 DEF Enumerates
  <2> QED  BY <2>2, <2>3, <2>4, <2>5, <2>6
<1>5. grid[n] = b
  <2>1. PICK i \in 1 .. n : grid[i] = b
    BY <1>4
  <2>2. n \in 1 .. n /\ grid[n] \in 0 .. b /\ (i = n \/ i < n)
    BY <1>4
  <2>3. i < n => grid[i] < grid[n]
    BY <1>4, <2>2
  <2>4. ~(i < n)
    BY <1>3, <2>1, <2>2, <2>3
  <2> QED  BY <2>1, <2>2, <2>4
<1>6. Series!Step(freq, b) \in Nat
  <2>1. Inside(freq, b)
    BY <1>3
  <2> QED  BY <2>1, StepGoesOn
<1>7. Series!Step(freq, b) = Series!NextPeriod(freq, b)
  <2>1. b \in PeriodSet(list, freq)
    BY SeriesEnds
  <2> QED  BY <2>1, GridIsPeriods
<1> HIDE DEF a, b, grid, n
<1>8. path[0] = a /\ path[n] = Series!Step(freq, b) /\ DOMAIN path = 0 .. n
  BY <1>2, <1>4
<1>9. ASSUME NEW k \in 1 .. n PROVE path[k] = Series!Step(freq, path[k - 1])
  <2>1. k - 1 \in 0 .. n /\ k - 1 < n /\ (k - 1) + 1 = k
    BY <1>4
  <2>2. path[k - 1] = grid[k]
    BY <2>1
  <2>3. CASE k = n
    BY <1>5, <1>8, <2>2, <2>3
  <2>4. CASE k # n
    <3>1. k \in 0 .. n /\ k < n /\ k \in 1 .. n - 1
      BY <1>4, <2>4
    <3>2. path[k] = grid[k + 1]
      BY <3>1
    <3>3. grid[k + 1] = Series!Step(freq, grid[k])
      BY <1>4, <3>1
    <3> QED  BY <2>2, <3>2, <3>3
  <2> QED  BY <2>3, <2>4
<1>10. Equation(path)
  <2>1. path = [k \in 0 .. n |-> path[k]]
    BY <1>8
  <2> HIDE DEF path
  <2>2. ASSUME NEW k \in 0 .. n PROVE path[k] = IF k = 0 THEN a ELSE Series!Step(freq, path[k - 1])
    <3>1. k # 0 => k \in 1 .. n
      BY <1>4
    <3> QED  BY <1>8, <1>9, <3>1
  <2> QED  BY <2>1, <2>2
<1>11. Equation(after)
  <2> HIDE DEF Equation, path
  <2> QED  BY <1>10, Zenon
<1> HIDE DEF after, path
<1>12. after[0] = a /\ \A k \in 1 .. n : after[k] = Series!Step(freq, after[k - 1])
  <2>1. after[0] = a
    <3>1. 0 \in 0 .. n
      BY <1>4
    <3> QED  BY <1>11, <3>1
  <2>2. ASSUME NEW k \in 1 .. n PROVE after[k] = Series!Step(freq, after[k - 1])
    <3>1. k \in 0 .. n /\ k # 0
      BY <1>4
    <3> QED  BY <1>11, <3>1
  <2> QED  BY <2>1, <2>2
<1>13. after[n] = path[n]
  <2> DEFINE S == {k \in Nat : k <= n => after[k] = path[k]}
  <2>1. 0 \in S
    BY <1>8, <1>12
  <2>2. ASSUME NEW k \in S PROVE k + 1 \in S
    <3> SUFFICES ASSUME k + 1 <= n PROVE after[k + 1] = path[k + 1]
      OBVIOUS
    <3>1. k + 1 \in 1 .. n /\ (k + 1) - 1 = k /\ k <= n
      BY <1>4
    <3>2. after[k] = path[k]
      BY <3>1
    <3>3. after[k + 1] = Series!Step(freq, after[k]) /\ path[k + 1] = Series!Step(freq, path[k])
      BY <1>9, <1>12, <3>1
    <3> QED  BY <3>2, <3>3
  <2>3. S = Nat
    <3>1. S \in SUBSET Nat
      OBVIOUS
    <3> HIDE DEF S
    <3> QED  BY <2>1, <2>2, <3>1, SetInduction
  <2>4. n \in S
    BY <1>4, <2>3
  <2> QED  BY <1>4, <2>4
<1> QED  BY <1>1, <1>7, <1>8, <1>13 DEF a, b, grid, n
-----------------------------------------------------------------------------
(* Forecast: the series of the rows *)

\* What is picked of a sequence are its members at the places.
LEMMA PickedMembers ==
  ASSUME NEW R, NEW s \in Seq(R), NEW on
  PROVE  /\ Series!Picked(s, on) \in Seq(R)
         /\ \A k \in DOMAIN Series!Picked(s, on) :
              \E i \in DOMAIN s : i \in on /\ Series!Picked(s, on)[k] = s[i]
         /\ \A i \in DOMAIN s : i \in on => Series!Picked(s, on) # << >>
<1> DEFINE n == Len(s)
           G == [i \in 1 .. n |-> [p \in Seq(R) |-> IF i \in on THEN Append(p, s[i]) ELSE p]]
           Equation(g) == g = [i \in 0 .. Len(s) |->
                                 IF i = 0 THEN << >>
                                 ELSE IF i \in on THEN Append(g[i - 1], s[i]) ELSE g[i - 1]]
           upTo == CHOOSE g : Equation(g)
<1>1. Series!Picked(s, on) = upTo[n]
  BY Zenon DEF Series!Picked
<1>2. n \in Nat /\ DOMAIN s = 1 .. n /\ \A i \in 1 .. n : s[i] \in R
  OBVIOUS
<1>3. G \in [1 .. n -> [Seq(R) -> Seq(R)]]
  <2>1. ASSUME NEW i \in 1 .. n, NEW p \in Seq(R)
        PROVE  (IF i \in on THEN Append(p, s[i]) ELSE p) \in Seq(R)
    BY <1>2
  <2> HIDE DEF n
  <2> QED  BY <2>1
<1>4. PICK f \in [0 .. n -> Seq(R)] : f[0] = << >> /\ \A i \in 1 .. n : f[i] = G[i][f[i - 1]]
  <2> DEFINE X == Seq(R)
             empty == << >>
  <2>1. n \in Nat /\ empty \in X /\ G \in [1 .. n -> [X -> X]]
    BY <1>2, <1>3
  <2> HIDE DEF G, X, empty, n
  <2>2. \E f \in [0 .. n -> X] : f[0] = empty /\ \A i \in 1 .. n : f[i] = G[i][f[i - 1]]
    BY <2>1, HistoryOfSteps, SMTT(40)
  <2> QED  BY <2>2 DEF X, empty
<1> HIDE DEF n
<1>5. ASSUME NEW i \in 1 .. n
      PROVE  f[i] = IF i \in on THEN Append(f[i - 1], s[i]) ELSE f[i - 1]
  <2>1. i - 1 \in 0 .. n
    BY <1>2
  <2>2. f[i - 1] \in Seq(R)
    BY <2>1
  <2> QED  BY <1>4, <2>2
<1>6. Equation(f)
  <2>1. f = [i \in 0 .. n |-> f[i]]
    BY <1>4
  <2>2. ASSUME NEW i \in 0 .. n
        PROVE  f[i] = IF i = 0 THEN << >>
                      ELSE IF i \in on THEN Append(f[i - 1], s[i]) ELSE f[i - 1]
    <3>1. i # 0 => i \in 1 .. n
      BY <1>2
    <3> QED  BY <1>4, <1>5, <3>1
  <2> HIDE DEF G
  <2> QED  BY <2>1, <2>2 DEF n
<1>7. Equation(upTo)
  <2> HIDE DEF Equation
  <2> QED  BY <1>6, Zenon
<1> HIDE DEF upTo
<1>8. /\ upTo[0] = << >>
      /\ \A i \in 1 .. n : upTo[i] = IF i \in on THEN Append(upTo[i - 1], s[i]) ELSE upTo[i - 1]
  <2>1. upTo[0] = << >>
    <3>1. 0 \in 0 .. n
      BY <1>2
    <3> QED  BY <1>7, <3>1 DEF n
  <2>2. ASSUME NEW i \in 1 .. n
        PROVE  upTo[i] = IF i \in on THEN Append(upTo[i - 1], s[i]) ELSE upTo[i - 1]
    <3>1. i \in 0 .. n /\ i # 0
      BY <1>2
    <3> QED  BY <1>7, <3>1 DEF n
  <2> QED  BY <2>1, <2>2
<1> HIDE DEF Equation
<1> DEFINE Good(i) == /\ upTo[i] \in Seq(R)
                      /\ \A k \in DOMAIN upTo[i] : \E j \in 1 .. n : j \in on /\ upTo[i][k] = s[j]
                      /\ \A j \in 1 .. n : j <= i /\ j \in on => Len(upTo[i]) > 0
           S == {i \in Nat : i <= n => Good(i)}
<1>9. 0 \in S
  <2>1. << >> \in Seq(R) /\ DOMAIN << >> = {}
    OBVIOUS
  <2>2. \A j \in 1 .. n : ~(j <= 0)
    BY <1>2
  <2> QED  BY <1>8, <2>1, <2>2
<1>10. ASSUME NEW i \in S PROVE i + 1 \in S
  <2> SUFFICES ASSUME i + 1 <= n PROVE Good(i + 1)
    <3> HIDE DEF Good
    <3> QED  OBVIOUS
  <2> DEFINE e == i + 1
             p == upTo[i]
             q == upTo[e]
  <2>1. i \in Nat /\ e \in 1 .. n /\ s[e] \in R /\ i <= n
    BY <1>2
  <2>2. /\ p \in Seq(R) /\ \A k \in DOMAIN p : \E j \in 1 .. n : j \in on /\ p[k] = s[j]
        /\ \A j \in 1 .. n : j <= i /\ j \in on => Len(p) > 0
    BY <2>1
  <2>3. q = IF e \in on THEN Append(p, s[e]) ELSE p
    <3>1. e - 1 = i
      BY <2>1
    <3> QED  BY <1>8, <2>1, <3>1
  <2>4. \A j \in 1 .. n : j <= e /\ j # e => j <= i
    BY <2>1
  <2> HIDE DEF p, q, e, Good, S
  <2>5. CASE e \in on
    <3>1. /\ q \in Seq(R) /\ Len(q) = Len(p) + 1 /\ q[Len(q)] = s[e] /\ Len(p) \in Nat
          /\ \A k \in 1 .. Len(p) : q[k] = p[k]
      BY <2>1, <2>2, <2>3, <2>5
    <3>2. ASSUME NEW k \in DOMAIN q PROVE \E j \in 1 .. n : j \in on /\ q[k] = s[j]
      <4>1. k \in 1 .. Len(p) \/ k = Len(q)
        BY <3>1
      <4>2. \A l \in 1 .. Len(p) : l \in DOMAIN p
        BY <2>2
      <4> QED  BY <2>1, <2>2, <2>5, <3>1, <4>1, <4>2
    <3> QED  BY <3>1, <3>2 DEF Good, q, e
  <2>6. CASE e \notin on
    <3>1. q = p
      BY <2>3, <2>6
    <3>2. \A j \in 1 .. n : j <= e /\ j \in on => Len(q) > 0
      BY <2>2, <2>4, <2>6, <3>1
    <3> QED  BY <2>2, <3>1, <3>2 DEF Good, q, e
  <2> QED  BY <2>5, <2>6 DEF e
<1>11. S = Nat
  <2>1. S \in SUBSET Nat
    OBVIOUS
  <2> HIDE DEF S
  <2> QED  BY <1>9, <1>10, <2>1, SetInduction
<1>12. Good(n)
  <2>1. n <= n
    BY <1>2
  <2> HIDE DEF Good
  <2> QED  BY <1>2, <1>11, <2>1
<1>13. ASSUME NEW i \in DOMAIN s, i \in on PROVE upTo[n] # << >>
  <2>1. i \in 1 .. n /\ i <= n
    BY <1>2
  <2>2. Len(upTo[n]) > 0
    BY <1>12, <1>13, <2>1
  <2> QED  BY <2>2
<1> QED  BY <1>1, <1>2, <1>12, <1>13

\* Of typed rows the observations, and the series of an item, are typed; every item has one.
LEMMA SeriesOfRows ==
  ASSUME NEW rows \in RowSets, NEW item \in Series!Items(Series!Observations(rows))
  PROVE  /\ IsSeries(Series!Of(Series!Observations(rows), item))
         /\ \A t \in Series!Times(Series!Of(Series!Observations(rows), item)) :
              \E i \in DOMAIN rows : rows[i].ts = t
<1> DEFINE Row == [ts : Nat \cup {Series!Unreadable}, y : Int, item : STRING]
           Datum == [ts : Nat, y : Int, item : STRING]
           obs == Series!Observations(rows)
           list == Series!Of(obs, item)
           kept == {i \in DOMAIN rows : rows[i].ts # Series!Unreadable /\ rows[i].y # Series!Unreadable}
           own == {i \in DOMAIN obs : obs[i].item = item}
<1>1. rows \in Seq(Row)
  BY CalendarAssumption
<1>2. /\ obs \in Seq(Row)
      /\ \A k \in DOMAIN obs : \E i \in DOMAIN rows : i \in kept /\ obs[k] = rows[i]
  <2>1. obs = Series!Picked(rows, kept)
    BY DEF Series!Observations
  <2> HIDE DEF obs, Row, kept
  <2> QED  BY <1>1, <2>1, PickedMembers
<1>3. ASSUME NEW r \in Row, r.ts # Series!Unreadable PROVE r \in Datum
  <2>1. r.ts \in Nat /\ r.y \in Int /\ r.item \in STRING
    BY <1>3
  <2> QED  BY <1>3, <2>1
<1>4. ASSUME NEW k \in DOMAIN obs
      PROVE  obs[k] \in Datum /\ \E i \in DOMAIN rows : rows[i].ts = obs[k].ts
  <2>1. PICK i \in DOMAIN rows : i \in kept /\ obs[k] = rows[i]
    BY <1>2
  <2>2. rows[i] \in Row /\ rows[i].ts # Series!Unreadable
    <3> HIDE DEF Row
    <3> QED  BY <1>1, <2>1
  <2> HIDE DEF Row, Datum
  <2> QED  BY <1>3, <2>1, <2>2
<1>5. obs \in Seq(Datum)
  <2> HIDE DEF obs, Row, Datum
  <2>1. Len(obs) \in Nat /\ DOMAIN obs = 1 .. Len(obs) /\ obs = [k \in 1 .. Len(obs) |-> obs[k]]
    BY <1>2
  <2>2. obs \in [1 .. Len(obs) -> Datum]
    BY <1>4, <2>1
  <2> QED  BY <2>1, <2>2, SeqDef
<1>6. /\ list \in Seq(Datum)
      /\ \A k \in DOMAIN list : \E i \in DOMAIN obs : i \in own /\ list[k] = obs[i]
      /\ \A i \in DOMAIN obs : i \in own => list # << >>
  <2>1. list = Series!Picked(obs, own)
    BY DEF Series!Of
  <2> HIDE DEF list, obs, Datum, own
  <2> QED  BY <1>5, <2>1, PickedMembers
<1>7. \E i \in DOMAIN obs : obs[i].item = item
  BY DEF Series!Items
<1>8. list # << >>
  <2> HIDE DEF list, obs
  <2> QED  BY <1>6, <1>7
<1>9. ASSUME NEW t \in Series!Times(list) PROVE \E i \in DOMAIN rows : rows[i].ts = t
  <2> HIDE DEF list, obs
  <2>1. PICK k \in DOMAIN list : list[k].ts = t
    BY DEF Series!Times
  <2>2. PICK i \in DOMAIN obs : list[k] = obs[i]
    BY <1>6
  <2> QED  BY <1>4, <2>1, <2>2
<1>10. IsSeries(list)
  BY <1>6, <1>8 DEF IsSeries
<1> QED  BY <1>9, <1>10

LEMMA SeriesHaveRoom ==
  ASSUME NEW rows \in RowSets, NEW freq \in Freqs, NEW item \in Series!Items(Series!Observations(rows))
  PROVE  HasRoom(Series!Of(Series!Observations(rows), item), freq)
<1> DEFINE list == Series!Of(Series!Observations(rows), item)
<1>1. /\ IsSeries(list)
      /\ \A t \in Series!Times(list) : \E i \in DOMAIN rows : rows[i].ts = t
  BY SeriesOfRows
<1> HIDE DEF list
<1>2. ASSUME NEW t \in Series!Times(list) PROVE Inside(freq, t)
  <2>1. t \in Nat
    BY <1>1, SeriesEnds
  <2>2. PICK i \in DOMAIN rows : rows[i].ts = t
    BY <1>1
  <2>3. freq.unit # "D" => rows[i].ts < Series!FirstDay[Len(MonthDays) - Series!Months(freq)]
    BY CalendarAssumption
  <2> QED  BY <2>1, <2>2, <2>3 DEF Inside, Span
<1>3. HasRoom(list, freq)
  BY <1>2 DEF HasRoom
<1> QED  BY <1>3 DEF list

\* One answered series.
AnswerFollows(list, freq, s) ==
  LET times == Series!Periods(list, freq)
  IN  /\ Series!DayOf(Series!Start(list)) < 29 \/ freq.unit = "D"
      /\ Series!Times(list) \subseteq {times[i] : i \in DOMAIN times}
      /\ Len(times) <= MaxContext
      => /\ Len(s.target) = Len(times)
         /\ \A i \in DOMAIN times :
              times[i] \in Series!Times(list) => s.target[i] = Series!ByTime(list, times[i])
         /\ s.predicted = Series!NextPeriod(freq, Series!End(list))

LEMMA AnswersFollow ==
  ASSUME NEW list, NEW freq \in Freqs, NEW policy, IsSeries(list), HasRoom(list, freq),
         Len(Series!Grid(list, freq)) >= MinObservations
  PROVE  AnswerFollows(list, freq, Series!Answer(list, freq, policy))
<1> DEFINE grid == Series!Grid(list, freq)
           times == Series!Periods(list, freq)
           values == [i \in DOMAIN grid |->
                        IF grid[i] \in Series!Times(list) THEN Series!ByTime(list, grid[i])
                        ELSE Series!Filler(list, grid, i, policy)]
           s == Series!Answer(list, freq, policy)
<1> SUFFICES ASSUME Series!DayOf(Series!Start(list)) < 29 \/ freq.unit = "D",
                    Series!Times(list) \subseteq {times[i] : i \in DOMAIN times},
                    Len(times) <= MaxContext
             PROVE  /\ Len(s.target) = Len(times)
                    /\ \A i \in DOMAIN times :
                         times[i] \in Series!Times(list) => s.target[i] = Series!ByTime(list, times[i])
                    /\ s.predicted = Series!NextPeriod(freq, Series!End(list))
  BY Zenon DEF AnswerFollows
<1>1. /\ s.target = Series!Truncate(values)
      /\ s.predicted = Series!PredictionStart(Series!Start(list), Len(s.target), freq)
  <2>1. Series!FillSeries(list, freq, policy) =
          [start |-> Series!Start(list), end |-> Series!End(list), values |-> values]
    BY Zenon DEF Series!FillSeries
  <2> HIDE DEF values
  <2> QED  BY <2>1 DEF Series!Answer
<1>2. freq.n > 0
  <2>1. freq.n \in Nat
    BY MonthsTyped
  <2>2. CASE freq.n = 0
    <3>1. /\ grid \in Seq(Nat) /\ Len(grid) <= 2
          /\ MinObservations \in Nat /\ MinObservations > 2 /\ Len(grid) >= MinObservations
      BY <2>2, GridOfNoLength, LimitsAssumption
    <3> HIDE DEF grid
    <3>2. Len(grid) \in Nat
      BY <3>1
    <3> QED  BY <3>1, <3>2
  <2> QED  BY <2>1, <2>2
<1>3. /\ grid = times
      /\ Enumerates(grid, PeriodSet(list, freq), StepsTo(freq, Series!End(list)), Series!End(list))
  BY <1>2, GridIsPeriods
<1>4. grid \in Seq(Nat) /\ DOMAIN grid = 1 .. Len(grid) /\ Len(grid) \in Nat
  BY <1>3 DEF Enumerates
<1>5. Series!Times(list) \subseteq PeriodSet(list, freq)
  <2>1. {grid[i] : i \in 1 .. Len(grid)} = PeriodSet(list, freq)
    BY <1>3 DEF Enumerates
  <2> HIDE DEF grid, times
  <2> QED  BY <1>3, <1>4, <2>1
<1>6. Series!PredictionStart(Series!Start(list), Len(grid), freq) =
        Series!NextPeriod(freq, Series!End(list))
  BY <1>2, <1>5, PredictionFollows
<1> HIDE DEF grid, times, s
<1>7. /\ DOMAIN values = 1 .. Len(grid)
      /\ \A i \in 1 .. Len(grid) : grid[i] \in Series!Times(list) => values[i] = Series!ByTime(list, grid[i])
  BY <1>4
<1> HIDE DEF values
<1>8. Len(values) = Len(grid)
  BY <1>4, <1>7
<1>9. s.target = values
  <2>1. Len(values) <= MaxContext
    BY <1>3, <1>8
  <2> QED  BY <1>1, <2>1 DEF Series!Truncate
<1> QED  BY <1>1, <1>3, <1>4, <1>6, <1>7, <1>8, <1>9

-----------------------------------------------------------------------------
(* Forecast: the invariant *)

\* A page of no more than PageRows rows is all rows.
LEMMA HandledSeriesFollow ==
  ASSUME NEW e \in Series!Events, Series!Handle(e).kind = "success", Len(e.rows) <= PageRows
  PROVE  \A item \in DOMAIN Series!Handle(e).series :
           AnswerFollows(Series!SeriesIn(e.rows)[item], e.freq, Series!Handle(e).series[item])
<1> DEFINE obs == Series!Observations(e.rows)
           lists == [item \in Series!Items(obs) |-> Series!Of(obs, item)]
           short(item) == Len(Series!Grid(lists[item], e.freq)) < MinObservations
           answers == [item \in Series!Items(obs) |-> Series!Answer(lists[item], e.freq, e.policy)]
<1>1. e.rows \in RowSets /\ e.freq \in Freqs
  BY DEF Series!Events
<1>2. Series!Page(e.rows) = e.rows
  BY DEF Series!Page
<1>3. \A reason : Series!Error(reason).kind = "error"
  BY DEF Series!Error, Series!NoResponse
<1>4. Series!Success(answers).kind = "success" /\ Series!Success(answers).series = answers
  BY Zenon DEF Series!Success, Series!NoResponse
<1>5. Series!SeriesIn(e.rows) = lists
  BY Zenon DEF Series!SeriesIn
<1>6. Series!Handle(e) =
        CASE e.horizon \notin 1 .. MaxHorizon -> Series!Error("prediction_length")
          [] obs = << >> -> Series!Error("no usable rows")
          [] e.policy = "error" /\ (\E item \in Series!Items(obs) : Series!Gap(lists[item], e.freq)) ->
               Series!Error("missing timestamp")
          [] Series!Cardinality(Series!Items(obs)) > MaxSeries -> Series!Error("too many series")
          [] \E item \in Series!Items(obs) : short(item) -> Series!Error("too few observations")
          [] OTHER -> Series!Success(answers)
  BY <1>2, Zenon DEF Series!Handle
<1> HIDE DEF obs, lists, short, answers
<1>7. (\A item \in Series!Items(obs) : ~short(item)) /\ Series!Handle(e) = Series!Success(answers)
  BY <1>3, <1>6
<1>8. /\ DOMAIN Series!Handle(e).series = Series!Items(obs) /\ DOMAIN answers = Series!Items(obs)
      /\ Series!Handle(e).series = answers
  BY <1>4, <1>7 DEF answers
<1>9. ASSUME NEW item \in Series!Items(obs)
      PROVE  AnswerFollows(lists[item], e.freq, answers[item])
  <2> DEFINE list == Series!Of(obs, item)
  <2>1. lists[item] = list /\ answers[item] = Series!Answer(list, e.freq, e.policy)
    BY DEF lists, answers
  <2>2. IsSeries(list) /\ HasRoom(list, e.freq)
    BY <1>1, SeriesOfRows, SeriesHaveRoom DEF obs
  <2>3. Len(Series!Grid(list, e.freq)) >= MinObservations
    <3>1. ~(Len(Series!Grid(list, e.freq)) < MinObservations)
      BY <1>7, <2>1 DEF short
    <3>2. MinObservations \in Nat
      BY LimitsAssumption
    <3> QED  BY <3>1, <3>2
  <2> HIDE DEF list
  <2>4. AnswerFollows(list, e.freq, Series!Answer(list, e.freq, e.policy))
    BY <1>1, <2>2, <2>3, AnswersFollow
  <2> QED  BY <2>1, <2>4
<1> QED  BY <1>5, <1>8, <1>9

\* What the handler returned is what it computes of its event.
ResponseOfEvent == event \in Series!Events /\ response \in {Series!NoResponse, Series!Handle(event)}

\* The predictions of a series go on with its calendar.
THEOREM PredictionsFollowCalendar == Series!Spec => []SeriesFollowsCalendar
<1>1. Series!Init => ResponseOfEvent
  BY DEF Series!Init, ResponseOfEvent
<1>2. ResponseOfEvent /\ [Series!Next]_(Series!tsVars) => ResponseOfEvent'
  <2> SUFFICES ASSUME ResponseOfEvent, [Series!Next]_(Series!tsVars) PROVE ResponseOfEvent'
    OBVIOUS
  <2>1. CASE Series!Next
    BY <2>1, Zenon DEF Series!Next, Series!Forecasts, ResponseOfEvent
  <2>2. CASE UNCHANGED Series!tsVars
    BY <2>2, Zenon DEF Series!tsVars, ResponseOfEvent
  <2> QED  BY <2>1, <2>2
<1>3. ResponseOfEvent => SeriesFollowsCalendar
  <2> SUFFICES ASSUME ResponseOfEvent, Series!Answered, Len(event.rows) <= PageRows
               PROVE  \A item \in DOMAIN response.series :
                        AnswerFollows(Series!SeriesIn(event.rows)[item], event.freq, response.series[item])
    BY Zenon DEF SeriesFollowsCalendar, Series!SeriesFollowsCalendar, AnswerFollows
  <2>1. response = Series!Handle(event) /\ Series!Handle(event).kind = "success"
    <3>1. Series!NoResponse.kind = "none"
      BY DEF Series!NoResponse
    <3>2. response = Series!Handle(event)
      BY <3>1 DEF ResponseOfEvent, Series!Answered
    <3> QED  BY <3>2 DEF Series!Answered
  <2>2. event \in Series!Events
    BY DEF ResponseOfEvent
  <2> QED  BY <2>1, <2>2, HandledSeriesFollow
<1> QED  BY <1>1, <1>2, <1>3, PTL DEF Series!Spec

-----------------------------------------------------------------------------
(* What is behind the gateway *)

\* Each part behaves as its own specification says, so what is proved of a part
\* holds of everything behind the gateway.
THEOREM PartsOfTheGateway ==
  GatewaySpec =>
    (Init /\ [][Next]_vars) /\ Data!Spec /\ Assets!Spec /\ Columns!Spec /\ Series!Spec
<1>1. PartInit => Init /\ Data!Init /\ Assets!Init /\ Columns!Init /\ Series!Init
  BY DEF PartInit
<1>2. ASSUME [PartNext]_partVars
      PROVE  /\ [Next]_vars /\ [Data!Next]_(Data!daVars) /\ [Assets!Next]_(Assets!catVars)
             /\ [Columns!Next]_(Columns!detailVars) /\ [Series!Next]_(Series!tsVars)
  <2>1. UNCHANGED toolVars => UNCHANGED Data!daVars
    BY DEF toolVars, Data!daVars, Data!caches, Data!locals
  <2>2. UNCHANGED catalogVars => UNCHANGED Assets!catVars
    BY DEF catalogVars, Assets!catVars, Assets!reading
  <2>3. UNCHANGED columnVars => UNCHANGED Columns!detailVars
    BY DEF columnVars, Columns!detailVars
  <2>4. UNCHANGED seriesVars => UNCHANGED Series!tsVars
    BY DEF seriesVars, Series!tsVars
  <2> QED  BY <1>2, <2>1, <2>2, <2>3, <2>4, Zenon DEF PartNext, OnlyPolicy, partVars
<1> QED
  BY <1>1, <1>2, PTL DEF GatewaySpec, Data!Spec, Assets!Spec, Columns!Spec, Series!Spec

\* The safety properties of the tools, of everything behind the gateway together.
THEOREM GatewayToolsAreCorrect ==
  GatewaySpec =>
    [](/\ UsesOwnCredentials /\ ResolvesAsListed /\ GrantedIsReadable
       /\ AnswerIsTrue /\ DetailAccountsForAll /\ SeriesFollowsCalendar)
  BY PartsOfTheGateway, CredentialsAreOwn, ResolutionsAreOfToday, RefusalsAreRight, AnswersAreTrue,
     DetailsAccountForAll, PredictionsFollowCalendar, PTL
=============================================================================
