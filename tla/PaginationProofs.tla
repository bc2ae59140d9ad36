--------------------------- MODULE PaginationProofs ---------------------------
(***************************************************************************)
(* Proofs about module Pagination, for any items, page size, starting pages *)
(* and number of changes.                                                  *)
(***************************************************************************)
EXTENDS Pagination, SequenceTheorems, FiniteSetTheorems, TLAPS

(***************************************************************************)
(* Pages.  Base(n) items come before page n.                               *)
(***************************************************************************)
Base(n) == (n - 1) * PageSize

LEMMA BaseFacts ==
    ASSUME NEW n \in Nat \ {0}
    PROVE  /\ Base(n) \in Nat
           /\ n * PageSize = Base(n) + PageSize
           /\ Base(n + 1) = Base(n) + PageSize
<1>1. PageSize \in Nat \ {0}
  BY PageAssumption
<1> DEFINE k == n - 1
<1>2. k \in Nat /\ n = k + 1 /\ n + 1 - 1 = n
  OBVIOUS
<1>3. k * PageSize \in Nat
  BY <1>1, <1>2
<1>4. (k + 1) * PageSize = k * PageSize + PageSize
  BY <1>1, <1>2
<1> QED  BY <1>2, <1>3, <1>4 DEF Base

\* A page is a stretch of the collection: full if a page follows, and up to
\* the end if none does.
LEMMA PageFacts ==
    ASSUME collection \in Seq(Items), NEW n \in Nat \ {0}
    PROVE  LET page == PageOf(n)
           IN  /\ page \in Seq(Items)
               /\ Len(page) \in Nat /\ Len(page) <= PageSize
               /\ \A i \in 1..Len(page) : /\ Base(n) + i <= Len(collection)
                                          /\ page[i] = collection[Base(n) + i]
               /\ LinkAfter(n) \in {NoLink, n + 1}
               /\ LinkAfter(n) # NoLink =>
                      Len(page) = PageSize /\ Base(n) + PageSize < Len(collection)
               /\ LinkAfter(n) = NoLink => Len(collection) <= Base(n) + Len(page)
<1> DEFINE first == Base(n) + 1
           last == IF Base(n) + PageSize < Len(collection) THEN Base(n) + PageSize
                   ELSE Len(collection)
           page == SubSeq(collection, first, last)
<1>1. /\ Base(n) \in Nat /\ PageSize \in Nat \ {0} /\ Len(collection) \in Nat
      /\ n * PageSize = Base(n) + PageSize
  <2>1. Base(n) \in Nat /\ n * PageSize = Base(n) + PageSize
    BY BaseFacts
  <2>2. PageSize \in Nat \ {0}
    BY PageAssumption
  <2> QED  BY <2>1, <2>2
<1>2. /\ PageOf(n) = page
      /\ LinkAfter(n) = IF Base(n) + PageSize < Len(collection) THEN n + 1 ELSE NoLink
  BY <1>1 DEF PageOf, LinkAfter, Base
<1>3. /\ first \in Int /\ last \in Int
      /\ \A i \in first..last : collection[i] \in Items
  BY <1>1
<1>4. /\ page \in Seq(Items)
      /\ Len(page) = IF first <= last THEN last - first + 1 ELSE 0
      /\ \A i \in 1..(last - first + 1) : page[i] = collection[first + i - 1]
  BY <1>3, SubSeqProperties
<1> HIDE DEF page
<1>5. /\ Len(page) \in Nat /\ Len(page) <= PageSize
      /\ \A i \in 1..Len(page) : /\ Base(n) + i <= Len(collection)
                                 /\ page[i] = collection[Base(n) + i]
  <2> SUFFICES ASSUME NEW i \in 1..Len(page)
               PROVE  /\ Base(n) + i <= Len(collection)
                      /\ page[i] = collection[Base(n) + i]
    BY <1>1, <1>4
  <2>1. i \in 1..(last - first + 1)
    BY <1>1, <1>4
  <2>2. first + i - 1 = Base(n) + i /\ Base(n) + i <= Len(collection)
    BY SMTT(30), <1>1, <2>1
  <2> QED  BY <1>4, <2>1, <2>2
<1>6. LinkAfter(n) # NoLink => Len(page) = PageSize /\ Base(n) + PageSize < Len(collection)
  BY <1>1, <1>2, <1>4
<1>7. LinkAfter(n) = NoLink => Len(collection) <= Base(n) + Len(page)
  BY <1>1, <1>2, <1>4 DEF NoLink
<1> QED
  BY <1>2, <1>4, <1>5, <1>6, <1>7

(***************************************************************************)
(* The collection: what leaving and joining make of it.                    *)
(***************************************************************************)
LEMMA RemovalFacts ==
    ASSUME NEW s \in Seq(Items), NEW i \in 1..Len(s), IsInjective(s)
    PROVE  /\ RemoveAt(s, i) \in Seq(Items)
           /\ IsInjective(RemoveAt(s, i))
           /\ Len(RemoveAt(s, i)) = Len(s) - 1
           /\ \A j \in 1..(Len(s) - 1) :
                  RemoveAt(s, i)[j] = IF j < i THEN s[j] ELSE s[j + 1]
<1> DEFINE front == SubSeq(s, 1, i - 1)
           back == SubSeq(s, i + 1, Len(s))
           t == front \o back
<1>1. /\ front \in Seq(Items) /\ Len(front) = i - 1
      /\ \A j \in 1..(i - 1) : front[j] = s[j]
  BY SubSeqProperties
<1>2. /\ back \in Seq(Items) /\ Len(back) = Len(s) - i
      /\ \A j \in 1..(Len(s) - i) : back[j] = s[i + j]
  BY SubSeqProperties
<1> HIDE DEF front, back
<1>3. /\ t \in Seq(Items) /\ Len(t) = Len(front) + Len(back)
      /\ \A j \in 1..(Len(front) + Len(back)) :
             t[j] = IF j <= Len(front) THEN front[j] ELSE back[j - Len(front)]
  BY <1>1, <1>2, ConcatProperties
<1> HIDE DEF t
<1>4. ASSUME NEW j \in 1..Len(t)
      PROVE  t[j] = IF j < i THEN s[j] ELSE s[j + 1]
  <2>1. j \in 1..(Len(s) - 1)
    BY <1>1, <1>2, <1>3
  <2>2. CASE j < i
    BY <1>1, <1>2, <1>3, <2>1, <2>2
  <2>3. CASE i <= j
    <3>1. t[j] = back[j - (i - 1)]
      BY <1>1, <1>2, <1>3, <2>1, <2>3
    <3>2. j - (i - 1) \in 1..(Len(s) - i) /\ i + (j - (i - 1)) = j + 1
      BY <2>1, <2>3
    <3> QED  BY <1>2, <2>3, <3>1, <3>2
  <2> QED  BY <2>1, <2>2, <2>3
<1>5. IsInjective(t)
  <2> SUFFICES ASSUME NEW a \in 1..Len(t), NEW b \in 1..Len(t), t[a] = t[b]
               PROVE  a = b
    BY <1>3 DEF IsInjective
  <2> DEFINE at(j) == IF j < i THEN j ELSE j + 1
  <2>1. at(a) \in 1..Len(s) /\ at(b) \in 1..Len(s)
    BY <1>1, <1>2, <1>3
  <2>2. s[at(a)] = s[at(b)]
    BY <1>4
  <2>3. at(a) = at(b)
    BY <2>1, <2>2 DEF IsInjective
  <2> QED  BY <1>1, <1>2, <1>3, <2>3
<1>6. Len(t) = Len(s) - 1
  BY <1>1, <1>2, <1>3
<1>7. t = RemoveAt(s, i)
  BY DEF RemoveAt, front, back, t
<1> QED  BY <1>3, <1>4, <1>5, <1>6, <1>7

LEMMA InsertionFacts ==
    ASSUME NEW s \in Seq(Items), NEW i \in 1..(Len(s) + 1), IsInjective(s),
           NEW item \in Items \ ToSet(s)
    PROVE  /\ InsertAt(s, i, item) \in Seq(Items)
           /\ IsInjective(InsertAt(s, i, item))
           /\ Len(InsertAt(s, i, item)) = Len(s) + 1
           /\ \A j \in 1..(i - 1) : InsertAt(s, i, item)[j] = s[j]
           /\ \A j \in (i + 1)..(Len(s) + 1) : InsertAt(s, i, item)[j] = s[j - 1]
<1> DEFINE front == SubSeq(s, 1, i - 1)
           back == SubSeq(s, i, Len(s))
           head == front \o <<item>>
           t == head \o back
<1>1. /\ front \in Seq(Items) /\ Len(front) = i - 1
      /\ \A j \in 1..(i - 1) : front[j] = s[j]
  BY SubSeqProperties
<1>2. /\ back \in Seq(Items) /\ Len(back) = Len(s) - i + 1
      /\ \A j \in 1..(Len(s) - i + 1) : back[j] = s[i + j - 1]
  BY SubSeqProperties
<1> HIDE DEF front, back
<1>3. /\ head \in Seq(Items) /\ Len(head) = i
      /\ \A j \in 1..(i - 1) : head[j] = s[j]
      /\ head[i] = item
  <2>1. <<item>> \in Seq(Items) /\ Len(<<item>>) = 1 /\ <<item>>[1] = item
    OBVIOUS
  <2> QED  BY <1>1, <2>1, ConcatProperties
<1> HIDE DEF head
<1>4. /\ t \in Seq(Items) /\ Len(t) = Len(head) + Len(back)
      /\ \A j \in 1..(Len(head) + Len(back)) :
             t[j] = IF j <= Len(head) THEN head[j] ELSE back[j - Len(head)]
  BY <1>2, <1>3, ConcatProperties
<1> HIDE DEF t
<1>5. /\ Len(t) = Len(s) + 1 /\ t[i] = item
      /\ \A j \in 1..(i - 1) : t[j] = s[j]
  BY <1>2, <1>3, <1>4
<1>6. ASSUME NEW j \in (i + 1)..Len(t) PROVE t[j] = s[j - 1]
  <2>1. t[j] = back[j - i]
    BY <1>2, <1>3, <1>4, <1>5
  <2>2. j - i \in 1..(Len(s) - i + 1) /\ i + (j - i) - 1 = j - 1
    BY <1>5
  <2> QED  BY <1>2, <2>1, <2>2
<1>7. \A j \in 1..Len(s) : s[j] # item
  BY DEF ToSet
<1>8. IsInjective(t)
  <2> SUFFICES ASSUME NEW a \in 1..Len(t), NEW b \in 1..Len(t), t[a] = t[b]
               PROVE  a = b
    BY <1>4 DEF IsInjective
  <2> DEFINE at(j) == IF j < i THEN j ELSE j - 1
  <2>1. \A j \in 1..Len(t) : j # i => at(j) \in 1..Len(s) /\ t[j] = s[at(j)]
    BY <1>5, <1>6
  <2>2. CASE a = i \/ b = i
    BY <1>5, <1>7, <2>1, <2>2
  <2>3. CASE a # i /\ b # i
    <3>1. at(a) = at(b)
      BY <2>1, <2>3 DEF IsInjective
    <3> QED  BY <1>5, <2>3, <3>1
  <2> QED  BY <2>2, <2>3
<1>9. t = InsertAt(s, i, item)
  BY DEF InsertAt, front, back, head, t
<1> QED  BY <1>4, <1>5, <1>6, <1>8, <1>9

(***************************************************************************)
(* The inductive invariant.                                                *)
(***************************************************************************)
InHand == iter.phase \in {"running", "suspended"}

\* The items listed after a position.
Beyond(last) == {collection[j] : j \in (last + 1)..Len(collection)}

\* The frame in each phase of the generator.
FrameInv ==
    /\ iter.phase = "created" =>
          yielded = << >> /\ fetched = 0 /\ iter.next = NoLink /\ kept = {}
    /\ iter.phase = "fetching" =>
          /\ iter.target # NoLink
          /\ iter.next \in {NoLink, iter.target}
          /\ iter.next = NoLink => iter.target = iter.start /\ yielded = << >> /\ kept = {}
          /\ fetched = Len(yielded)
    /\ InHand =>
          /\ iter.target # NoLink
          /\ iter.next \in {NoLink, iter.target + 1}
          /\ fetched + iter.pos = Len(yielded) + Len(iter.data)
    /\ iter.phase # "finished" => signal = "none" /\ ~failed
    /\ signal = "error" => failed

\* The page in hand: full if a page follows, without repetition, and what the
\* position has passed was handed out.
PageInv ==
    InHand =>
        /\ iter.next # NoLink => Len(iter.data) = PageSize
        /\ IsInjective(iter.data)
        /\ \A i \in 1..iter.pos : iter.data[i] \in ToSet(yielded)

\* Unless items moved: what was yielded, and what the page in hand holds, are
\* where the collection has them.
PlaceInv ==
    moves \subseteq {"appended"} =>
        /\ \A i \in 1..Len(yielded) : /\ Offset + i <= Len(collection)
                                      /\ yielded[i] = collection[Offset + i]
        /\ iter.phase = "fetching" =>
              Offset + Len(yielded) = Base(iter.target)
        /\ InHand =>
              /\ Offset + Len(yielded) = Base(iter.target) + iter.pos
              /\ \A i \in 1..Len(iter.data) :
                    /\ Base(iter.target) + i <= Len(collection)
                    /\ iter.data[i] = collection[Base(iter.target) + i]

\* Unless an item left: an item to yield that was not yielded yet is in the
\* page in hand or in one still to come.
KeptInv ==
    "left" \notin moves =>
        /\ iter.phase = "fetching" => kept \subseteq ToSet(yielded) \cup Beyond(Base(iter.target))
        /\ InHand =>
              kept \subseteq ToSet(yielded) \cup ToSet(iter.data)
                             \cup (IF iter.next = NoLink THEN {} ELSE Beyond(Base(iter.next)))
        /\ (signal = "stop" /\ ~failed) => kept \subseteq ToSet(yielded)

\* Unless an item joined: nothing that is still to be handed out was before.
OnceInv ==
    moves \subseteq {"left"} =>
        /\ IsInjective(yielded)
        /\ iter.phase = "fetching" => ToSet(yielded) \cap Beyond(Base(iter.target)) = {}
        /\ InHand =>
              /\ \A i \in (iter.pos + 1)..Len(iter.data) : iter.data[i] \notin ToSet(yielded)
              /\ iter.next # NoLink =>
                    (ToSet(yielded) \cup ToSet(iter.data)) \cap Beyond(Base(iter.next)) = {}

IInv == TypeOK /\ FrameInv /\ PageInv /\ PlaceInv /\ KeptInv /\ OnceInv

LEMMA InitInv == Init => IInv
<1> SUFFICES ASSUME Init PROVE IInv
  OBVIOUS
<1>1. collection \in Seq(Items) /\ IsInjective(collection)
  <2>1. PICK S \in SUBSET Items : collection \in SetToSeqs(S)
    BY DEF Init
  <2>2. IsFiniteSet(S)
    BY ItemsAssumption, FS_Subset
  <2>3. Cardinality(S) \in Nat
    BY <2>2, FS_CardinalityType
  <2>4. /\ collection \in [1..Cardinality(S) -> S]
        /\ \A i, j \in 1..Cardinality(S) : i # j => collection[i] # collection[j]
    BY <2>1 DEF SetToSeqs
  <2>5. collection \in Seq(S)
    BY <2>3, <2>4
  <2> QED  BY <2>4, <2>5 DEF IsInjective
<1>2. TypeOK
  <2>1. << >> \in Seq(Items) /\ Len(<< >>) = 0
    OBVIOUS
  <2>2. PICK page \in StartPages :
            iter = [ phase |-> "created", start |-> page, target |-> NoLink,
                     data |-> << >>, pos |-> 0, next |-> NoLink ]
    BY DEF Init
  <2>3. iter \in [ phase : Phases, start : StartPages, target : Nat, data : Seq(Items),
                   pos : Nat, next : Nat ]
    BY <2>1, <2>2 DEF Phases, NoLink
  <2>4. iter.pos <= Len(iter.data)
    BY <2>2
  <2>5. changes \in 0..MaxChanges
    BY ChangesAssumption DEF Init
  <2> QED  BY <1>1, <2>1, <2>3, <2>4, <2>5 DEF Init, TypeOK
<1>3. FrameInv
  BY DEF Init, FrameInv, InHand
<1>4. PageInv
  BY DEF Init, PageInv, InHand
<1>5. PlaceInv
  BY DEF Init, PlaceInv, InHand
<1>6. KeptInv
  BY DEF Init, KeptInv, InHand
<1>7. OnceInv
  BY DEF Init, OnceInv, InHand, IsInjective
<1> QED  BY <1>2, <1>3, <1>4, <1>5, <1>6, <1>7 DEF IInv

(***************************************************************************)
(* Steps that change neither collection nor what was kept.                 *)
(***************************************************************************)
LEMMA OffsetFacts ==
    ASSUME TypeOK PROVE Offset = Base(iter.start) /\ Offset \in Nat
<1>1. iter.start \in Nat \ {0}
  BY PageAssumption DEF TypeOK
<1> QED  BY <1>1, BaseFacts DEF Offset, Base

\* The fields of the frame after a step that sets some of them.
Frames == [ phase : Phases, start : StartPages, target : Nat, data : Seq(Items), pos : Nat, next : Nat ]

\* The consumer's first pull.
LEMMA PullFirstInv ==
    ASSUME IInv, PullFirst
    PROVE  IInv'
<1>1. /\ iter \in Frames /\ iter.phase = "created" /\ iter.start # NoLink
      /\ iter' = [iter EXCEPT !.phase = "fetching", !.target = iter.start]
      /\ UNCHANGED <<collection, changes, signal, failed, yielded, fetched, kept, moves>>
  BY PageAssumption DEF IInv, TypeOK, PullFirst, Frames, NoLink
<1>2. /\ iter'.phase = "fetching" /\ iter'.target = iter.start /\ iter'.start = iter.start
      /\ iter'.next = iter.next /\ iter'.data = iter.data /\ iter'.pos = iter.pos
  BY <1>1 DEF Frames
<1>3. yielded = << >> /\ Len(yielded) = 0 /\ fetched = 0 /\ iter.next = NoLink /\ kept = {}
      /\ signal = "none" /\ ~failed
  BY <1>1 DEF IInv, FrameInv
<1>4. TypeOK'
  <2>1. iter' \in Frames
    BY <1>1, PageAssumption DEF Frames, Phases
  <2> QED  BY <1>1, <1>2, <2>1 DEF IInv, TypeOK, Frames
<1>5. FrameInv' /\ PageInv'
  BY <1>1, <1>2, <1>3 DEF FrameInv, PageInv, InHand
<1>6. PlaceInv'
  <2>1. Offset' = Base(iter.start) /\ Offset \in Nat /\ Offset = Base(iter.start)
    BY <1>2, OffsetFacts DEF IInv, Offset, Base
  <2> QED  BY <1>1, <1>2, <1>3, <2>1 DEF PlaceInv, InHand
<1>7. KeptInv'
  BY <1>1, <1>2, <1>3 DEF KeptInv, InHand
<1>8. OnceInv'
  <2>1. IsInjective(yielded) /\ ToSet(yielded) = {}
    BY <1>3 DEF IsInjective, ToSet
  <2> QED  BY <1>1, <1>2, <2>1 DEF OnceInv, InHand
<1> QED  BY <1>4, <1>5, <1>6, <1>7, <1>8 DEF IInv

\* The generator goes on after a yield.
LEMMA PullInv ==
    ASSUME IInv, Pull
    PROVE  IInv'
<1>1. /\ iter \in Frames /\ iter.phase = "suspended" /\ iter' = [iter EXCEPT !.phase = "running"]
      /\ UNCHANGED <<collection, changes, signal, failed, yielded, fetched, kept, moves>>
  BY DEF IInv, TypeOK, Pull, Frames
<1>2. /\ iter'.phase = "running" /\ iter'.target = iter.target /\ iter'.start = iter.start
      /\ iter'.next = iter.next /\ iter'.data = iter.data /\ iter'.pos = iter.pos
  BY <1>1 DEF Frames
<1>3. TypeOK'
  <2>1. iter' \in Frames
    BY <1>1 DEF Frames, Phases
  <2> QED  BY <1>1, <1>2, <2>1 DEF IInv, TypeOK, Frames
<1>4. InHand /\ InHand'
  BY <1>1, <1>2 DEF InHand
<1>5. Offset' = Offset /\ Base(iter.target)' = Base(iter.target) /\ Base(iter.next)' = Base(iter.next)
      /\ Beyond(Base(iter.next))' = Beyond(Base(iter.next))
  BY <1>1, <1>2 DEF Offset, Base, Beyond
<1>6. FrameInv' /\ PageInv'
  BY <1>1, <1>2, <1>4 DEF IInv, FrameInv, PageInv
<1>7. PlaceInv'
  BY <1>1, <1>2, <1>4, <1>5 DEF IInv, PlaceInv
<1>8. KeptInv' /\ OnceInv'
  BY <1>1, <1>2, <1>4, <1>5 DEF IInv, KeptInv, OnceInv
<1> QED  BY <1>3, <1>6, <1>7, <1>8 DEF IInv

\* The walk ends by an error or because the consumer left, or the consumer
\* pulls on after an error.
LEMMA EndInv ==
    ASSUME IInv, FetchFails \/ PullAgain \/ Abandon
    PROVE  IInv'
<1>1. TypeOK'
  <2>1. iter' \in [ phase : Phases, start : StartPages, target : Nat, data : Seq(Items),
                    pos : Nat, next : Nat ]
    BY DEF IInv, TypeOK, FetchFails, PullAgain, Abandon, Phases
  <2> QED  BY <2>1 DEF IInv, TypeOK, FetchFails, PullAgain, Abandon
<1>2. /\ iter'.phase = "finished" /\ iter'.start = iter.start
      /\ signal' \in {"error", "abandoned"} \/ failed'
      /\ signal' = "error" => failed'
  <2>1. CASE PullAgain
    <3>1. iter.phase = "finished" /\ failed
      BY <2>1 DEF IInv, TypeOK, FrameInv, PullAgain, Phases
    <3> QED  BY <2>1, <3>1 DEF PullAgain
  <2>2. CASE FetchFails \/ Abandon
    BY <2>2 DEF IInv, TypeOK, FetchFails, Abandon
  <2> QED  BY <2>1, <2>2
<1>3. FrameInv' /\ PageInv' /\ ~InHand'
  BY <1>2 DEF FrameInv, PageInv, InHand
<1>4. UNCHANGED <<collection, yielded, kept, moves>> /\ Offset' = Offset
  BY <1>2 DEF FetchFails, PullAgain, Abandon, Offset
<1>5. PlaceInv'
  BY <1>2, <1>3, <1>4 DEF IInv, PlaceInv
<1>6. KeptInv' /\ OnceInv'
  BY <1>2, <1>3, <1>4 DEF IInv, KeptInv, OnceInv
<1> QED  BY <1>1, <1>3, <1>5, <1>6 DEF IInv

(***************************************************************************)
(* What a page takes from the items beyond its beginning.                  *)
(***************************************************************************)
LEMMA PageItems ==
    ASSUME collection \in Seq(Items), IsInjective(collection), NEW n \in Nat \ {0}
    PROVE  LET page == PageOf(n)
               link == LinkAfter(n)
           IN  /\ IsInjective(page)
               /\ ToSet(page) \subseteq Beyond(Base(n))
               /\ Beyond(Base(n)) \subseteq
                      ToSet(page) \cup (IF link = NoLink THEN {} ELSE Beyond(Base(link)))
               /\ link # NoLink => /\ Beyond(Base(link)) \subseteq Beyond(Base(n))
                                   /\ ToSet(page) \cap Beyond(Base(link)) = {}
<1> DEFINE page == PageOf(n)
           link == LinkAfter(n)
<1>1. PICK base : base = Base(n)
  OBVIOUS
<1>2. PICK len : len = Len(page)
  OBVIOUS
<1>3. base \in Nat /\ PageSize \in Nat \ {0} /\ Base(n + 1) = base + PageSize
  BY <1>1, BaseFacts, PageAssumption
<1>4. /\ page \in Seq(Items) /\ len \in Nat
      /\ \A i \in 1..len : base + i <= Len(collection) /\ page[i] = collection[base + i]
      /\ link \in {NoLink, n + 1}
      /\ link # NoLink => len = PageSize
      /\ link = NoLink => Len(collection) <= base + len
  BY <1>1, <1>2, PageFacts
<1> HIDE DEF page, link
<1>5. ToSet(page) = {page[i] : i \in 1..len} /\ Len(collection) \in Nat
  BY <1>2, <1>4 DEF ToSet
<1>6. \A i \in 1..len : base + i \in (base + 1)..Len(collection)
  <2> SUFFICES ASSUME NEW i \in 1..len PROVE base + i \in (base + 1)..Len(collection)
    OBVIOUS
  <2>1. base + i <= Len(collection)
    BY <1>4
  <2> QED  BY <1>3, <1>5, <2>1
<1>7. IsInjective(page)
  <2> SUFFICES ASSUME NEW a \in 1..len, NEW b \in 1..len, page[a] = page[b]
               PROVE  a = b
    BY <1>2, <1>4 DEF IsInjective
  <2>1. base + a \in 1..Len(collection) /\ base + b \in 1..Len(collection)
    BY <1>3, <1>5, <1>6
  <2>2. collection[base + a] = collection[base + b]
    BY <1>4
  <2>3. base + a = base + b
    BY <2>1, <2>2 DEF IsInjective
  <2> QED  BY <1>3, <2>3
<1>8. ToSet(page) \subseteq Beyond(Base(n))
  <2> SUFFICES ASSUME NEW i \in 1..len PROVE page[i] \in Beyond(Base(n))
    BY <1>5
  <2>1. page[i] = collection[base + i] /\ base + i \in (base + 1)..Len(collection)
    BY <1>4, <1>6
  <2> QED  BY <1>1, <2>1 DEF Beyond
<1>9. link # NoLink => Base(link) = base + len
  BY <1>3, <1>4
<1>10. ASSUME NEW e \in Beyond(Base(n)), link = NoLink \/ e \notin Beyond(Base(link))
       PROVE  e \in ToSet(page)
  <2>1. PICK j \in (base + 1)..Len(collection) : e = collection[j]
    BY <1>1 DEF Beyond
  <2>2. j <= base + len
    <3>1. CASE link = NoLink
      BY <1>3, <1>4, <1>5, <3>1
    <3>2. CASE link # NoLink
      <4>1. j \notin (base + len + 1)..Len(collection)
        BY <1>9, <1>10, <2>1, <3>2 DEF Beyond
      <4> QED  BY <1>3, <1>4, <1>5, <4>1
    <3> QED  BY <3>1, <3>2
  <2>3. j - base \in 1..len /\ base + (j - base) = j
    BY <1>3, <1>4, <2>2
  <2>4. page[j - base] = e
    BY <1>4, <2>1, <2>3
  <2> QED  BY <1>5, <2>3, <2>4
<1>11. ASSUME link # NoLink
       PROVE  /\ Beyond(Base(link)) \subseteq Beyond(Base(n))
              /\ ToSet(page) \cap Beyond(Base(link)) = {}
  <2>1. \A j \in (base + len + 1)..Len(collection) : j \in (base + 1)..Len(collection)
    BY <1>3, <1>4, <1>5
  <2>2. Beyond(Base(link)) \subseteq Beyond(Base(n))
    BY <1>1, <1>9, <1>11, <2>1 DEF Beyond
  <2>3. ASSUME NEW e \in ToSet(page), e \in Beyond(Base(link)) PROVE FALSE
    <3>1. PICK i \in 1..len : e = collection[base + i]
      BY <1>4, <1>5
    <3>2. PICK j \in (base + len + 1)..Len(collection) : e = collection[j]
      BY <1>9, <1>11, <2>3 DEF Beyond
    <3>3. base + i \in 1..Len(collection) /\ j \in 1..Len(collection)
      BY <1>3, <1>4, <1>5, <1>6
    <3>4. PICK p : p = base + i
      OBVIOUS
    <3>5. p \in 1..Len(collection) /\ collection[p] = collection[j]
      BY <3>1, <3>2, <3>3, <3>4
    <3>6. p = j
      BY <3>3, <3>5 DEF IsInjective
    <3> QED  BY <1>3, <1>4, <3>4, <3>6
  <2> QED  BY <2>2, <2>3
<1> QED  BY <1>7, <1>8, <1>10, <1>11 DEF page, link

\* One more item goes to the consumer.
LEMMA YieldInv ==
    ASSUME IInv, Yield
    PROVE  IInv'
<1> DEFINE item == iter.data[iter.pos + 1]
<1>1. /\ iter' = [iter EXCEPT !.phase = "suspended", !.pos = @ + 1]
      /\ yielded' = Append(yielded, item)
      /\ UNCHANGED <<collection, changes, signal, failed, fetched, kept, moves>>
      /\ iter.phase = "running" /\ iter.pos < Len(iter.data)
  BY DEF Yield, HandOut
<1>2. /\ iter'.phase = "suspended" /\ iter'.pos = iter.pos + 1 /\ iter'.start = iter.start
      /\ iter'.data = iter.data /\ iter'.target = iter.target /\ iter'.next = iter.next
  BY <1>1 DEF IInv, TypeOK
<1>3. /\ iter.pos \in Nat /\ iter.data \in Seq(Items) /\ Len(iter.data) \in Nat
      /\ iter.pos + 1 \in 1..Len(iter.data) /\ fetched \in Nat
      /\ yielded \in Seq(Items) /\ Len(yielded) \in Nat /\ Len(collection) \in Nat
  BY <1>1 DEF IInv, TypeOK
<1>4. item \in Items
  BY <1>3
<1>5. /\ yielded' \in Seq(Items) /\ Len(yielded') = Len(yielded) + 1
      /\ \A i \in 1..Len(yielded) : yielded'[i] = yielded[i]
      /\ yielded'[Len(yielded) + 1] = item
  BY <1>1, <1>3, <1>4
<1>6. item \in ToSet(iter.data) /\ \A i \in (iter.pos + 2)..Len(iter.data) : i # iter.pos + 1
  BY <1>3 DEF ToSet
<1> HIDE DEF item
<1>7. ToSet(yielded') = ToSet(yielded) \cup {item}
  <2>1. /\ ToSet(yielded) = {yielded[i] : i \in 1..Len(yielded)}
        /\ ToSet(yielded') = {yielded'[i] : i \in 1..(Len(yielded) + 1)}
    BY <1>3, <1>5 DEF ToSet
  <2>2. 1..(Len(yielded) + 1) = 1..Len(yielded) \cup {Len(yielded) + 1}
    BY <1>3
  <2> QED  BY <1>5, <2>1, <2>2
<1>8. InHand /\ InHand'
  BY <1>1, <1>2 DEF InHand
<1>9. TypeOK'
  <2>1. iter' \in Frames
    <3>1. iter.pos + 1 \in Nat /\ "suspended" \in Phases
      BY <1>3 DEF Phases
    <3> QED  BY <1>1, <3>1 DEF IInv, TypeOK, Frames
  <2>2. iter'.pos <= Len(iter'.data)
    BY <1>2, <1>3
  <2> QED  BY <1>1, <1>5, <2>1, <2>2 DEF IInv, TypeOK, Frames
<1>10. FrameInv'
  <2>1. /\ iter.target # NoLink /\ iter.next \in {NoLink, iter.target + 1}
        /\ fetched + iter.pos = Len(yielded) + Len(iter.data)
        /\ signal = "none" /\ ~failed
    BY <1>1, <1>8 DEF IInv, FrameInv
  <2>2. fetched' + iter'.pos = Len(yielded') + Len(iter'.data)
    <3>1. /\ fetched' = fetched /\ iter'.pos = iter.pos + 1
          /\ Len(yielded') = Len(yielded) + 1 /\ Len(iter'.data) = Len(iter.data)
      BY <1>1, <1>2, <1>5
    <3>2. fetched + (iter.pos + 1) = (Len(yielded) + 1) + Len(iter.data)
      <4>1. PICK a, b, c, d : a = fetched /\ b = iter.pos /\ c = Len(yielded) /\ d = Len(iter.data)
        OBVIOUS
      <4>2. a \in Nat /\ b \in Nat /\ c \in Nat /\ d \in Nat /\ a + b = c + d
        BY <1>3, <2>1, <4>1
      <4>3. a + (b + 1) = (c + 1) + d
        BY <4>2
      <4> QED  BY <4>1, <4>3
    <3> QED  BY <3>1, <3>2
  <2> QED  BY <1>1, <1>2, <2>1, <2>2 DEF FrameInv
<1>11. PageInv'
  <2>1. /\ iter.next # NoLink => Len(iter.data) = PageSize
        /\ IsInjective(iter.data)
        /\ \A i \in 1..iter.pos : iter.data[i] \in ToSet(yielded)
    BY <1>8 DEF IInv, PageInv
  <2>2. ASSUME NEW i \in 1..(iter.pos + 1) PROVE iter.data[i] \in ToSet(yielded')
    <3>1. CASE i = iter.pos + 1
      BY <1>7, <3>1 DEF item
    <3>2. CASE i # iter.pos + 1
      BY <1>3, <1>7, <2>1, <3>2
    <3> QED  BY <3>1, <3>2
  <2> QED  BY <1>2, <2>1, <2>2 DEF PageInv
<1>12. /\ Offset' = Offset /\ Offset \in Nat /\ Base(iter.next)' = Base(iter.next)
       /\ Beyond(Base(iter.next))' = Beyond(Base(iter.next))
  BY <1>1, <1>2, OffsetFacts DEF IInv, Offset, Base, Beyond
<1>13. PlaceInv'
  <2> SUFFICES ASSUME moves \subseteq {"appended"} PROVE PlaceInv'
    BY <1>1 DEF PlaceInv
  <2> DEFINE base == Base(iter.target)
  <2>1. /\ Offset + Len(yielded) = base + iter.pos
        /\ \A i \in 1..Len(iter.data) :
              /\ base + i <= Len(collection)
              /\ iter.data[i] = collection[base + i]
        /\ \A i \in 1..Len(yielded) : /\ Offset + i <= Len(collection)
                                      /\ yielded[i] = collection[Offset + i]
    BY <1>8 DEF IInv, PlaceInv
  <2>2. Base(iter'.target) = base /\ base \in Nat
    <3>1. iter.target \in Nat \ {0}
      BY <1>8 DEF IInv, TypeOK, FrameInv, NoLink
    <3> QED  BY <1>2, <3>1, BaseFacts DEF Base
  <2> HIDE DEF base
  <2>3. /\ Offset + (Len(yielded) + 1) = base + (iter.pos + 1)
        /\ base + (iter.pos + 1) <= Len(collection)
        /\ item = collection[base + (iter.pos + 1)]
    <3>1. base + (iter.pos + 1) <= Len(collection) /\ item = collection[base + (iter.pos + 1)]
      BY <1>3, <2>1 DEF item
    <3>2. Offset + (Len(yielded) + 1) = base + (iter.pos + 1)
      <4>1. PICK a, b, c, d : a = Offset /\ b = Len(yielded) /\ c = base /\ d = iter.pos
        OBVIOUS
      <4>2. a \in Nat /\ b \in Nat /\ c \in Nat /\ d \in Nat /\ a + b = c + d
        BY <1>3, <1>12, <2>1, <2>2, <4>1
      <4>3. a + (b + 1) = c + (d + 1)
        BY <4>2
      <4> QED  BY <4>1, <4>3
    <3> QED  BY <3>1, <3>2
  <2>4. ASSUME NEW i \in 1..Len(yielded')
        PROVE  Offset + i <= Len(collection) /\ yielded'[i] = collection[Offset + i]
    <3>1. CASE i = Len(yielded) + 1
      BY <1>5, <2>3, <3>1
    <3>2. CASE i # Len(yielded) + 1
      <4>1. i \in 1..Len(yielded)
        BY <1>3, <1>5, <3>2
      <4> QED  BY <1>5, <2>1, <4>1
    <3> QED  BY <3>1, <3>2
  <2>5. Offset' + Len(yielded') = Base(iter'.target) + iter'.pos
    BY <1>2, <1>5, <1>12, <2>2, <2>3
  <2>6. \A i \in 1..Len(iter'.data) :
            /\ Base(iter'.target) + i <= Len(collection')
            /\ iter'.data[i] = collection'[Base(iter'.target) + i]
    BY <1>1, <1>2, <2>1, <2>2
  <2>7. \A i \in 1..Len(yielded') :
            Offset' + i <= Len(collection') /\ yielded'[i] = collection'[Offset' + i]
    BY <1>1, <1>12, <2>4
  <2> QED  BY <1>2, <2>5, <2>6, <2>7 DEF PlaceInv, Base
<1>14. KeptInv'
  <2>1. iter'.phase # "fetching" /\ signal' # "stop"
    BY <1>1, <1>2 DEF IInv, FrameInv
  <2> QED  BY <1>1, <1>2, <1>7, <1>8, <1>12, <2>1 DEF IInv, KeptInv
<1>15. OnceInv'
  <2> SUFFICES ASSUME moves \subseteq {"left"} PROVE OnceInv'
    BY <1>1 DEF OnceInv
  <2>1. /\ IsInjective(yielded)
        /\ \A i \in (iter.pos + 1)..Len(iter.data) : iter.data[i] \notin ToSet(yielded)
        /\ iter.next # NoLink =>
              (ToSet(yielded) \cup ToSet(iter.data)) \cap Beyond(Base(iter.next)) = {}
    BY <1>8 DEF IInv, OnceInv
  <2>2. item \notin ToSet(yielded)
    BY <1>3, <2>1 DEF item
  <2>3. IsInjective(yielded')
    <3> SUFFICES ASSUME NEW a \in 1..Len(yielded'), NEW b \in 1..Len(yielded'),
                        yielded'[a] = yielded'[b]
                 PROVE  a = b
      BY <1>5 DEF IsInjective
    <3>1. \A i \in 1..Len(yielded) : yielded'[i] = yielded[i] /\ yielded[i] # item
      BY <1>3, <1>5, <2>2 DEF ToSet
    <3>2. \A i \in 1..Len(yielded') : i \in 1..Len(yielded) \/ i = Len(yielded) + 1
      BY <1>3, <1>5
    <3>3. CASE a = Len(yielded) + 1 \/ b = Len(yielded) + 1
      BY <1>5, <3>1, <3>2, <3>3
    <3>4. CASE a \in 1..Len(yielded) /\ b \in 1..Len(yielded)
      BY <2>1, <3>1, <3>4 DEF IsInjective
    <3> QED  BY <3>2, <3>3, <3>4
  <2>4. ASSUME NEW i \in (iter.pos + 2)..Len(iter.data) PROVE iter.data[i] \notin ToSet(yielded')
    <3>1. IsInjective(iter.data)
      BY <1>8 DEF IInv, PageInv
    <3>2. i \in 1..Len(iter.data) /\ i \in (iter.pos + 1)..Len(iter.data) /\ i # iter.pos + 1
      BY <1>3
    <3>3. iter.data[i] # item
      BY <1>3, <3>1, <3>2 DEF IsInjective, item
    <3> QED  BY <1>7, <2>1, <3>2, <3>3
  <2>5. \A i \in (iter'.pos + 1)..Len(iter'.data) : iter'.data[i] \notin ToSet(yielded')
    <3>1. iter'.pos + 1 = iter.pos + 2
      BY <1>2, <1>3
    <3> QED  BY <1>2, <2>4, <3>1
  <2>6. iter'.next # NoLink =>
            (ToSet(yielded') \cup ToSet(iter'.data)) \cap Beyond(Base(iter.next)) = {}
    BY <1>2, <1>6, <1>7, <2>1
  <2> QED  BY <1>2, <1>12, <2>3, <2>5, <2>6 DEF OnceInv
<1> QED  BY <1>9, <1>10, <1>11, <1>13, <1>14, <1>15 DEF IInv

\* The page is done and its link is followed: the next page starts where the
\* items yielded end, if none moved.
LEMMA FollowInv ==
    ASSUME IInv, FollowLink
    PROVE  IInv'
<1>1. /\ iter' = [iter EXCEPT !.phase = "fetching", !.target = iter.next]
      /\ UNCHANGED <<collection, changes, signal, failed, yielded, fetched, kept, moves>>
      /\ iter.phase = "running" /\ iter.pos = Len(iter.data) /\ iter.next # NoLink /\ InHand
  BY DEF FollowLink, PageDone, NextPageSpec, InHand
<1>2. /\ iter.target \in Nat \ {0} /\ iter.next = iter.target + 1
      /\ fetched + iter.pos = Len(yielded) + Len(iter.data)
      /\ signal = "none" /\ ~failed
  BY <1>1 DEF IInv, TypeOK, FrameInv, NoLink
<1>3. /\ iter.pos \in Nat /\ fetched \in Nat /\ Len(yielded) \in Nat
      /\ iter.data \in Seq(Items)
  BY DEF IInv, TypeOK
<1>4. fetched = Len(yielded)
  BY <1>1, <1>2, <1>3
<1>5. /\ iter'.phase = "fetching" /\ iter'.target = iter.next /\ iter'.start = iter.start
      /\ iter'.data = iter.data /\ iter'.pos = iter.pos /\ iter'.next = iter.next
      /\ ~InHand'
  BY <1>1 DEF IInv, TypeOK, InHand
<1>6. TypeOK'
  <2>1. iter.next \in Nat /\ "fetching" \in Phases
    BY DEF IInv, TypeOK, Phases
  <2>2. iter' \in Frames
    BY <1>1, <2>1 DEF IInv, TypeOK, Frames
  <2> QED  BY <1>1, <1>5, <2>2 DEF IInv, TypeOK, Frames
<1>7. FrameInv' /\ PageInv'
  BY <1>1, <1>2, <1>4, <1>5 DEF FrameInv, PageInv, InHand
<1>8. Offset' = Offset /\ Offset \in Nat /\ Beyond(Base(iter.target))' = Beyond(Base(iter.next))
  BY <1>1, <1>5, OffsetFacts DEF IInv, Offset, Beyond, Base
<1>9. PlaceInv'
  <2> SUFFICES ASSUME moves \subseteq {"appended"} PROVE PlaceInv'
    BY <1>1 DEF PlaceInv
  <2>1. /\ Offset + Len(yielded) = Base(iter.target) + iter.pos
        /\ Len(iter.data) = PageSize
        /\ \A i \in 1..Len(yielded) : /\ Offset + i <= Len(collection)
                                      /\ yielded[i] = collection[Offset + i]
    BY <1>1 DEF IInv, PlaceInv, PageInv
  <2>2. Base(iter.target + 1) = Base(iter.target) + PageSize
    BY <1>2, BaseFacts
  <2>3. Offset' + Len(yielded') = Base(iter'.target)
    BY <1>1, <1>2, <1>5, <1>8, <2>1, <2>2
  <2> QED  BY <1>1, <1>5, <1>8, <2>1, <2>3 DEF PlaceInv
<1>10. KeptInv'
  <2>1. ToSet(iter.data) \subseteq ToSet(yielded)
    BY <1>1, <1>3 DEF IInv, PageInv, ToSet
  <2> QED  BY <1>1, <1>2, <1>5, <1>8, <2>1 DEF IInv, KeptInv
<1>11. OnceInv'
  BY <1>1, <1>5, <1>8 DEF IInv, OnceInv
<1> QED  BY <1>6, <1>7, <1>9, <1>10, <1>11 DEF IInv

\* The page is done and no link follows: the consumer has every item kept.
LEMMA ExhaustInv ==
    ASSUME IInv, Exhaust
    PROVE  IInv'
<1>1. /\ iter' = [iter EXCEPT !.phase = "finished"] /\ signal' = "stop"
      /\ UNCHANGED <<collection, changes, failed, yielded, fetched, kept, moves>>
      /\ iter.phase = "running" /\ iter.pos = Len(iter.data) /\ iter.next = NoLink /\ InHand
  BY DEF Exhaust, PageDone, InHand
<1>2. /\ iter'.phase = "finished" /\ iter'.start = iter.start /\ iter'.data = iter.data
      /\ iter'.pos = iter.pos /\ ~InHand'
  BY <1>1 DEF IInv, TypeOK, InHand
<1>3. TypeOK'
  <2>1. iter' \in Frames
    BY <1>1 DEF IInv, TypeOK, Phases, Frames
  <2> QED  BY <1>1, <1>2, <2>1 DEF IInv, TypeOK, Frames
<1>4. FrameInv' /\ PageInv'
  BY <1>1, <1>2 DEF FrameInv, PageInv
<1>5. Offset' = Offset
  BY <1>2 DEF Offset
<1>6. PlaceInv' /\ OnceInv'
  BY <1>1, <1>2, <1>5 DEF IInv, PlaceInv, OnceInv
<1>7. KeptInv'
  <2>1. ToSet(iter.data) \subseteq ToSet(yielded)
    <3>1. iter.data \in Seq(Items)
      BY DEF IInv, TypeOK
    <3> QED  BY <1>1, <3>1 DEF IInv, PageInv, ToSet
  <2> QED  BY <1>1, <1>2, <2>1 DEF IInv, KeptInv
<1> QED  BY <1>3, <1>4, <1>6, <1>7 DEF IInv

\* A page arrives.
LEMMA ArriveInv ==
    ASSUME IInv, Arrive
    PROVE  IInv'
<1> DEFINE page == PageOf(iter.target)
           link == LinkAfter(iter.target)
           first == SubSeq(collection, Offset + 1, Len(collection))
           base == Base(iter.target)
<1>1. /\ iter' = [iter EXCEPT !.phase = "running", !.data = page, !.pos = 0, !.next = link]
      /\ fetched' = fetched + Len(page)
      /\ IF iter.next = NoLink THEN kept' = ToSet(first) /\ moves' = {}
         ELSE kept' = kept /\ moves' = moves
      /\ UNCHANGED <<collection, changes, signal, failed, yielded>>
      /\ iter.phase = "fetching"
  BY DEF Arrive, Offset
<1>2. /\ iter.target \in Nat \ {0} /\ iter.start \in Nat \ {0}
      /\ iter.next \in {NoLink, iter.target}
      /\ iter.next = NoLink => iter.target = iter.start /\ yielded = << >>
      /\ fetched = Len(yielded) /\ signal = "none" /\ ~failed
  BY <1>1, PageAssumption DEF IInv, TypeOK, FrameInv, NoLink
<1>3. /\ collection \in Seq(Items) /\ Len(collection) \in Nat /\ IsInjective(collection)
      /\ yielded \in Seq(Items) /\ Len(yielded) \in Nat
  BY DEF IInv, TypeOK
<1>4. /\ page \in Seq(Items) /\ Len(page) \in Nat
      /\ \A i \in 1..Len(page) : base + i <= Len(collection) /\ page[i] = collection[base + i]
      /\ link \in {NoLink, iter.target + 1}
      /\ link # NoLink => Len(page) = PageSize
      /\ link = NoLink => Len(collection) <= base + Len(page)
  BY <1>2, <1>3, PageFacts
<1>5. /\ IsInjective(page)
      /\ ToSet(page) \subseteq Beyond(base)
      /\ Beyond(base) \subseteq ToSet(page) \cup (IF link = NoLink THEN {} ELSE Beyond(Base(link)))
      /\ link # NoLink => /\ Beyond(Base(link)) \subseteq Beyond(base)
                          /\ ToSet(page) \cap Beyond(Base(link)) = {}
  BY <1>2, <1>3, PageItems
<1>6. base \in Nat /\ Offset = Base(iter.start) /\ Offset \in Nat
  BY <1>2, BaseFacts, OffsetFacts DEF IInv
<1>7. iter.next = NoLink => base = Offset
  BY <1>2, <1>6
<1> HIDE DEF page, link, base
<1>8. /\ iter'.phase = "running" /\ iter'.target = iter.target /\ iter'.start = iter.start
      /\ iter'.data = page /\ iter'.pos = 0 /\ iter'.next = link /\ InHand'
  BY <1>1 DEF IInv, TypeOK, InHand
<1>9. ToSet(first) = Beyond(Offset)
  <2>1. \A i \in (Offset + 1)..Len(collection) : collection[i] \in Items
    BY <1>3, <1>6
  <2>2. /\ first \in Seq(Items)
        /\ Len(first) = IF Offset + 1 <= Len(collection) THEN Len(collection) - Offset ELSE 0
        /\ \A i \in 1..(Len(collection) - Offset) : first[i] = collection[Offset + i]
    BY <1>3, <1>6, <2>1, SubSeqProperties
  <2> HIDE DEF first
  <2>3. DOMAIN first = 1..Len(first)
    BY <2>2
  <2>4. ASSUME NEW i \in 1..Len(first) PROVE first[i] \in Beyond(Offset)
    <3>1. Offset + i \in (Offset + 1)..Len(collection) /\ first[i] = collection[Offset + i]
      BY SMTT(30), <1>3, <1>6, <2>2
    <3> QED  BY <3>1 DEF Beyond
  <2>5. ASSUME NEW j \in (Offset + 1)..Len(collection) PROVE collection[j] \in ToSet(first)
    <3>1. j - Offset \in 1..Len(first) /\ first[j - Offset] = collection[j]
      BY SMTT(30), <1>3, <1>6, <2>2
    <3> QED  BY <2>3, <3>1 DEF ToSet
  <2> QED  BY <2>2, <2>3, <2>4, <2>5 DEF ToSet, Beyond
<1> HIDE DEF first
<1>10. TypeOK'
  <2>1. link \in Nat /\ "running" \in Phases
    BY <1>2, <1>4 DEF Phases, NoLink
  <2>2. iter' \in Frames
    BY <1>1, <1>4, <2>1 DEF IInv, TypeOK, Frames
  <2>3. Beyond(Offset) \subseteq Items
    BY <1>3, <1>6 DEF Beyond
  <2>4. kept' \subseteq Items /\ moves' \subseteq {"left", "inserted", "appended"}
    BY <1>1, <1>9, <2>3 DEF IInv, TypeOK
  <2>5. fetched' \in Nat
    BY <1>1, <1>4 DEF IInv, TypeOK
  <2>6. iter'.pos <= Len(iter'.data)
    BY <1>4, <1>8
  <2> QED  BY <1>1, <2>2, <2>4, <2>5, <2>6 DEF IInv, TypeOK, Frames
<1>11. FrameInv'
  BY <1>1, <1>2, <1>3, <1>4, <1>8 DEF FrameInv, NoLink, InHand
<1>12. PageInv'
  BY <1>4, <1>5, <1>8 DEF PageInv
<1>13. /\ Offset' = Offset /\ Base(iter'.target) = base
       /\ Base(iter.next)' = Base(link) /\ Beyond(Base(iter.next))' = Beyond(Base(link))
  BY <1>1, <1>8 DEF Offset, base, Base, Beyond
<1>14. PlaceInv'
  <2> SUFFICES ASSUME moves' \subseteq {"appended"} PROVE PlaceInv'
    BY DEF PlaceInv
  <2>1. /\ Offset + Len(yielded) = base
        /\ \A i \in 1..Len(yielded) : /\ Offset + i <= Len(collection)
                                      /\ yielded[i] = collection[Offset + i]
    <3>1. CASE iter.next = NoLink
      <4>1. Len(yielded) = 0
        BY <1>2, <3>1
      <4> QED  BY <1>6, <1>7, <3>1, <4>1
    <3>2. CASE iter.next # NoLink
      BY <1>1, <3>2 DEF IInv, PlaceInv, base
    <3> QED  BY <3>1, <3>2
  <2>2. Offset' + Len(yielded') = Base(iter'.target) + iter'.pos
    BY <1>1, <1>3, <1>6, <1>8, <1>13, <2>1
  <2> QED  BY <1>1, <1>4, <1>8, <1>13, <2>1, <2>2 DEF PlaceInv
<1>15. KeptInv'
  <2> SUFFICES ASSUME "left" \notin moves' PROVE KeptInv'
    BY DEF KeptInv
  <2>1. kept' \subseteq ToSet(yielded) \cup Beyond(base)
    <3>1. CASE iter.next = NoLink
      BY <1>1, <1>7, <1>9, <3>1
    <3>2. CASE iter.next # NoLink
      BY <1>1, <3>2 DEF IInv, KeptInv, base
    <3> QED  BY <3>1, <3>2
  <2>2. kept' \subseteq ToSet(yielded') \cup ToSet(iter'.data)
                        \cup (IF iter'.next = NoLink THEN {} ELSE Beyond(Base(link)))
    BY <1>1, <1>5, <1>8, <2>1
  <2>3. iter'.phase # "fetching" /\ signal' # "stop"
    BY <1>1, <1>2, <1>8
  <2> QED  BY <1>13, <2>2, <2>3 DEF KeptInv
<1>16. OnceInv'
  <2> SUFFICES ASSUME moves' \subseteq {"left"} PROVE OnceInv'
    BY DEF OnceInv
  <2>1. IsInjective(yielded) /\ ToSet(yielded) \cap Beyond(base) = {}
    <3>1. CASE iter.next = NoLink
      BY <1>2, <3>1 DEF IsInjective, ToSet
    <3>2. CASE iter.next # NoLink
      BY <1>1, <3>2 DEF IInv, OnceInv, base
    <3> QED  BY <3>1, <3>2
  <2>2. \A i \in 1..Len(page) : page[i] \in ToSet(page)
    BY <1>4 DEF ToSet
  <2>3. \A i \in (iter'.pos + 1)..Len(iter'.data) : iter'.data[i] \notin ToSet(yielded')
    BY <1>1, <1>5, <1>8, <2>1, <2>2
  <2>4. iter'.next # NoLink =>
            (ToSet(yielded') \cup ToSet(iter'.data)) \cap Beyond(Base(link)) = {}
    BY <1>1, <1>5, <1>8, <2>1
  <2> QED  BY <1>1, <1>8, <1>13, <2>1, <2>3, <2>4 DEF OnceInv
<1> QED  BY <1>10, <1>11, <1>12, <1>14, <1>15, <1>16 DEF IInv

(***************************************************************************)
(* Steps of the collection.                                                *)
(***************************************************************************)
\* The numbers of the pages asked for, and what comes before them.
LEMMA PagesAhead ==
    ASSUME IInv
    PROVE  /\ iter.phase = "fetching" => Base(iter.target) \in Nat
           /\ InHand => Base(iter.target) \in Nat
           /\ InHand /\ iter.next # NoLink => Base(iter.next) \in Nat
<1>1. iter.phase = "fetching" \/ InHand => iter.target \in Nat \ {0}
  BY DEF IInv, TypeOK, FrameInv, NoLink
<1>2. InHand /\ iter.next # NoLink => iter.next \in Nat \ {0}
  BY DEF IInv, TypeOK, NoLink
<1> QED  BY <1>1, <1>2, BaseFacts

\* Something left: what was behind it moves up, over the edge of a page too,
\* and nothing is listed later than before.
LEMMA LeavesInv ==
    ASSUME IInv, Leaves
    PROVE  IInv'
<1>1. /\ moves' = moves \cup {"left"} /\ changes < MaxChanges /\ changes' = changes + 1
      /\ UNCHANGED <<iter, signal, failed, yielded, fetched>>
  BY DEF Leaves
<1>2. PICK i \in DOMAIN collection :
          collection' = RemoveAt(collection, i) /\ kept' = kept \ {collection[i]}
  BY DEF Leaves
<1>3. /\ collection \in Seq(Items) /\ IsInjective(collection) /\ i \in 1..Len(collection)
      /\ Len(collection) \in Nat
  BY <1>2 DEF IInv, TypeOK
<1>4. /\ collection' \in Seq(Items) /\ IsInjective(collection')
      /\ Len(collection') = Len(collection) - 1
      /\ \A j \in 1..(Len(collection) - 1) :
             collection'[j] = IF j < i THEN collection[j] ELSE collection[j + 1]
  BY <1>2, <1>3, RemovalFacts
<1>5. changes' \in 0..MaxChanges
  BY <1>1, ChangesAssumption DEF IInv, TypeOK
<1>6. TypeOK'
  BY <1>1, <1>2, <1>4, <1>5 DEF IInv, TypeOK
<1>7. InHand' <=> InHand
  BY <1>1 DEF InHand
<1>8. FrameInv' /\ PageInv'
  BY <1>1, <1>2, <1>7 DEF IInv, FrameInv, PageInv
<1>9. PlaceInv' /\ KeptInv'
  BY <1>1 DEF PlaceInv, KeptInv
<1>10. ASSUME NEW last \in Nat
       PROVE  {collection'[j] : j \in (last + 1)..Len(collection')} \subseteq Beyond(last)
  <2> SUFFICES ASSUME NEW j \in (last + 1)..Len(collection')
               PROVE  collection'[j] \in Beyond(last)
    OBVIOUS
  <2>1. /\ j \in 1..(Len(collection) - 1)
        /\ j \in (last + 1)..Len(collection) /\ j + 1 \in (last + 1)..Len(collection)
    BY <1>3, <1>4
  <2>2. CASE j < i
    BY <1>4, <2>1, <2>2 DEF Beyond
  <2>3. CASE ~(j < i)
    <3>1. collection'[j] = collection[j + 1]
      BY <1>4, <2>1, <2>3
    <3> QED  BY <2>1, <3>1 DEF Beyond
  <2> QED  BY <2>2, <2>3
<1>11. OnceInv'
  <2> SUFFICES ASSUME moves' \subseteq {"left"} PROVE OnceInv'
    BY DEF OnceInv
  <2>1. moves \subseteq {"left"}
    BY <1>1
  <2>2. iter.phase = "fetching" =>
            ToSet(yielded) \cap {collection'[j] : j \in (Base(iter.target) + 1)..Len(collection')} = {}
    BY <1>10, <2>1, PagesAhead DEF IInv, OnceInv
  <2>3. InHand /\ iter.next # NoLink =>
            (ToSet(yielded) \cup ToSet(iter.data))
                \cap {collection'[j] : j \in (Base(iter.next) + 1)..Len(collection')} = {}
    BY <1>10, <2>1, PagesAhead DEF IInv, OnceInv
  <2>4. /\ IsInjective(yielded)
        /\ InHand => \A k \in (iter.pos + 1)..Len(iter.data) : iter.data[k] \notin ToSet(yielded)
    BY <2>1 DEF IInv, OnceInv
  <2>5. /\ Beyond(Base(iter.target))' = {collection'[j] : j \in (Base(iter.target) + 1)..Len(collection')}
        /\ Beyond(Base(iter.next))' = {collection'[j] : j \in (Base(iter.next) + 1)..Len(collection')}
    BY <1>1 DEF Beyond, Base
  <2> QED  BY <1>1, <1>7, <2>2, <2>3, <2>4, <2>5 DEF OnceInv
<1> QED  BY <1>6, <1>8, <1>9, <1>11 DEF IInv

\* Something joined: what was behind it moves down, and nothing is listed
\* earlier than before; nothing moves if it joined at the end.
LEMMA JoinsInv ==
    ASSUME IInv, Joins
    PROVE  IInv'
<1>1. /\ changes < MaxChanges /\ changes' = changes + 1
      /\ UNCHANGED <<iter, signal, failed, yielded, fetched, kept>>
  BY DEF Joins
<1>2. PICK item \in Items \ ToSet(collection), i \in 1..(Len(collection) + 1) :
          /\ collection' = InsertAt(collection, i, item)
          /\ moves' = moves \cup {IF i <= Len(collection) THEN "inserted" ELSE "appended"}
  BY DEF Joins
<1>3. collection \in Seq(Items) /\ IsInjective(collection) /\ Len(collection) \in Nat
  BY DEF IInv, TypeOK
<1>4. /\ collection' \in Seq(Items) /\ IsInjective(collection')
      /\ Len(collection') = Len(collection) + 1
      /\ \A j \in 1..(i - 1) : collection'[j] = collection[j]
      /\ \A j \in (i + 1)..(Len(collection) + 1) : collection'[j] = collection[j - 1]
  BY <1>2, <1>3, InsertionFacts
<1>5. changes' \in 0..MaxChanges /\ moves' \subseteq {"left", "inserted", "appended"}
  BY <1>1, <1>2, ChangesAssumption DEF IInv, TypeOK
<1>6. TypeOK'
  BY <1>1, <1>4, <1>5 DEF IInv, TypeOK
<1>7. InHand' <=> InHand
  BY <1>1 DEF InHand
<1>8. FrameInv' /\ PageInv'
  BY <1>1, <1>7 DEF IInv, FrameInv, PageInv
<1>9. Offset' = Offset /\ Offset \in Nat /\ Base(iter'.target) = Base(iter.target)
  BY <1>1, OffsetFacts DEF IInv, Offset
<1>10. PlaceInv'
  <2> SUFFICES ASSUME moves' \subseteq {"appended"} PROVE PlaceInv'
    BY DEF PlaceInv
  <2>1. moves \subseteq {"appended"} /\ ~(i <= Len(collection))
    BY <1>2
  <2>2. \A j \in 1..Len(collection) : collection'[j] = collection[j]
    <3>1. i = Len(collection) + 1
      BY <1>3, <2>1
    <3> QED  BY <1>3, <1>4, <3>1
  <2>3. /\ \A k \in 1..Len(yielded) : /\ Offset + k <= Len(collection)
                                      /\ yielded[k] = collection[Offset + k]
        /\ iter.phase = "fetching" => Offset + Len(yielded) = Base(iter.target)
        /\ InHand =>
              /\ Offset + Len(yielded) = Base(iter.target) + iter.pos
              /\ \A k \in 1..Len(iter.data) :
                    /\ Base(iter.target) + k <= Len(collection)
                    /\ iter.data[k] = collection[Base(iter.target) + k]
    BY <2>1 DEF IInv, PlaceInv
  <2>4. ASSUME NEW j \in 1..Len(yielded)
        PROVE  Offset + j <= Len(collection') /\ yielded[j] = collection'[Offset + j]
    <3>1. Offset + j \in 1..Len(collection)
      BY <1>3, <1>9, <2>3
    <3> QED  BY <1>3, <1>4, <2>2, <2>3, <3>1
  <2>5. ASSUME InHand, NEW j \in 1..Len(iter.data)
        PROVE  /\ Base(iter.target) + j <= Len(collection')
               /\ iter.data[j] = collection'[Base(iter.target) + j]
    <3>1. Base(iter.target) \in Nat
      BY <2>5, PagesAhead
    <3>2. Base(iter.target) + j <= Len(collection) /\ iter.data[j] = collection[Base(iter.target) + j]
      BY <2>3, <2>5
    <3>3. Base(iter.target) + j \in 1..Len(collection)
      BY <1>3, <3>1, <3>2
    <3> QED  BY <1>3, <1>4, <2>2, <3>2, <3>3
  <2> QED  BY <1>1, <1>7, <1>9, <2>3, <2>4, <2>5 DEF PlaceInv
<1>11. ASSUME NEW last \in Nat
       PROVE  Beyond(last) \subseteq {collection'[j] : j \in (last + 1)..Len(collection')}
  <2> SUFFICES ASSUME NEW j \in (last + 1)..Len(collection)
               PROVE  \E k \in (last + 1)..Len(collection') : collection[j] = collection'[k]
    BY DEF Beyond
  <2>1. j \in (last + 1)..Len(collection') /\ j + 1 \in (last + 1)..Len(collection')
    BY <1>3, <1>4
  <2>2. CASE j < i
    <3>1. j \in 1..(i - 1)
      BY <2>2
    <3> QED  BY <1>4, <2>1, <3>1
  <2>3. CASE ~(j < i)
    <3>1. j + 1 \in (i + 1)..(Len(collection) + 1) /\ (j + 1) - 1 = j
      BY <1>3, <2>3
    <3>2. collection'[j + 1] = collection[j]
      BY <1>4, <3>1
    <3> QED  BY <2>1, <3>2
  <2> QED  BY <2>2, <2>3
<1>12. KeptInv'
  <2> SUFFICES ASSUME "left" \notin moves' PROVE KeptInv'
    BY DEF KeptInv
  <2>1. "left" \notin moves
    BY <1>2
  <2>2. /\ Beyond(Base(iter.target))' = {collection'[j] : j \in (Base(iter.target) + 1)..Len(collection')}
        /\ Beyond(Base(iter.next))' = {collection'[j] : j \in (Base(iter.next) + 1)..Len(collection')}
    BY <1>1 DEF Beyond, Base
  <2>3. iter.phase = "fetching" => kept \subseteq ToSet(yielded) \cup Beyond(Base(iter.target))'
    <3>1. iter.phase = "fetching" => kept \subseteq ToSet(yielded) \cup Beyond(Base(iter.target))
      BY <2>1 DEF IInv, KeptInv
    <3> QED  BY <1>11, <2>2, <3>1, PagesAhead
  <2>4. InHand =>
            kept \subseteq ToSet(yielded) \cup ToSet(iter.data)
                           \cup (IF iter.next = NoLink THEN {} ELSE Beyond(Base(iter.next))')
    <3>1. InHand =>
              kept \subseteq ToSet(yielded) \cup ToSet(iter.data)
                             \cup (IF iter.next = NoLink THEN {} ELSE Beyond(Base(iter.next)))
      BY <2>1 DEF IInv, KeptInv
    <3>2. InHand /\ iter.next # NoLink => Beyond(Base(iter.next)) \subseteq Beyond(Base(iter.next))'
      BY <1>11, <2>2, PagesAhead
    <3> QED  BY <3>1, <3>2
  <2>5. (signal = "stop" /\ ~failed) => kept \subseteq ToSet(yielded)
    BY <2>1 DEF IInv, KeptInv
  <2> QED  BY <1>1, <1>7, <2>3, <2>4, <2>5 DEF KeptInv
<1>13. OnceInv'
  BY <1>2 DEF OnceInv
<1> QED  BY <1>6, <1>8, <1>10, <1>12, <1>13 DEF IInv

(***************************************************************************)
(* The invariant holds in every state.                                     *)
(***************************************************************************)
LEMMA StutterInv ==
    ASSUME IInv, UNCHANGED vars
    PROVE  IInv'
<1>1. /\ UNCHANGED <<collection, changes, iter, signal, failed, yielded, fetched, kept, moves>>
      /\ InHand' <=> InHand
      /\ UNCHANGED <<Offset, Base(iter.target), Beyond(Base(iter.target)), Beyond(Base(iter.next))>>
  BY DEF vars, InHand, Offset, Beyond, Base
<1>2. TypeOK'
  BY <1>1 DEF IInv, TypeOK
<1>3. FrameInv' /\ PageInv'
  BY <1>1 DEF IInv, FrameInv, PageInv
<1>4. PlaceInv'
  BY <1>1 DEF IInv, PlaceInv
<1>5. KeptInv' /\ OnceInv'
  BY <1>1 DEF IInv, KeptInv, OnceInv
<1> QED  BY <1>2, <1>3, <1>4, <1>5 DEF IInv

LEMMA Invariance == Spec => []IInv
<1>1. Init => IInv
  BY InitInv
<1>2. IInv /\ [Next]_vars => IInv'
  <2> SUFFICES ASSUME IInv, [Next]_vars PROVE IInv'
    OBVIOUS
  <2>1. CASE PullFirst \/ Pull
    BY <2>1, PullFirstInv, PullInv
  <2>2. CASE Arrive
    BY <2>2, ArriveInv
  <2>3. CASE FetchFails \/ PullAgain \/ Abandon
    BY <2>3, EndInv
  <2>4. CASE Yield
    BY <2>4, YieldInv
  <2>5. CASE FollowLink
    BY <2>5, FollowInv
  <2>6. CASE Exhaust
    BY <2>6, ExhaustInv
  <2>7. CASE Leaves
    BY <2>7, LeavesInv
  <2>8. CASE Joins
    BY <2>8, JoinsInv
  <2>9. CASE UNCHANGED vars
    BY <2>9, StutterInv
  <2> QED  BY <2>1, <2>2, <2>3, <2>4, <2>5, <2>6, <2>7, <2>8, <2>9 DEF Next, Walk
<1> QED  BY <1>1, <1>2, PTL DEF Spec

(***************************************************************************)
(* The generator's frame keeps its types, whatever the collection does     *)
(* while it is suspended or waits for a page.                              *)
(***************************************************************************)
THEOREM WalkTypes == Spec => []TypeOK
<1>1. IInv => TypeOK
  BY DEF IInv
<1> QED  BY <1>1, Invariance, PTL

(***************************************************************************)
(* iter_all, as long as nothing but new items at the end changes the        *)
(* listing: for any page size, any number of items and any starting page,  *)
(* what the consumer has is the collection in order, nothing skipped and   *)
(* nothing twice.                                                          *)
(***************************************************************************)
THEOREM InOrder == Spec => []WalksInOrder
<1>1. IInv => WalksInOrder
  <2> SUFFICES ASSUME IInv, moves \subseteq {"appended"}
               PROVE  yielded = SubSeq(collection, Offset + 1, Offset + Len(yielded))
    BY DEF WalksInOrder
  <2> DEFINE s == SubSeq(collection, Offset + 1, Offset + Len(yielded))
  <2>1. /\ Offset \in Nat /\ yielded \in Seq(Items) /\ Len(yielded) \in Nat
        /\ collection \in Seq(Items) /\ Len(collection) \in Nat
    BY OffsetFacts DEF IInv, TypeOK
  <2>2. \A i \in 1..Len(yielded) : /\ Offset + i <= Len(collection)
                                   /\ yielded[i] = collection[Offset + i]
    BY DEF IInv, PlaceInv
  <2>3. \A j \in (Offset + 1)..(Offset + Len(yielded)) : collection[j] \in Items
    <3> SUFFICES ASSUME NEW j \in (Offset + 1)..(Offset + Len(yielded))
                 PROVE  collection[j] \in Items
      OBVIOUS
    <3>1. j - Offset \in 1..Len(yielded) /\ Offset + (j - Offset) = j
      BY <2>1
    <3>2. j \in 1..Len(collection)
      BY <2>1, <2>2, <3>1
    <3> QED  BY <2>1, <3>2
  <2>4. /\ s \in Seq(Items) /\ Len(s) = Len(yielded)
        /\ \A i \in 1..Len(yielded) : s[i] = collection[Offset + i]
    <3>1. /\ s \in Seq(Items)
          /\ Len(s) = IF Offset + 1 <= Offset + Len(yielded)
                      THEN Offset + Len(yielded) - (Offset + 1) + 1 ELSE 0
          /\ \A i \in 1..(Offset + Len(yielded) - (Offset + 1) + 1) :
                s[i] = collection[(Offset + 1) + i - 1]
      BY <2>1, <2>3, SubSeqProperties
    <3> HIDE DEF s
    <3>2. Offset + Len(yielded) - (Offset + 1) + 1 = Len(yielded)
      BY <2>1
    <3>3. \A i \in 1..Len(yielded) : (Offset + 1) + i - 1 = Offset + i
      BY <2>1
    <3> QED  BY <2>1, <3>1, <3>2, <3>3
  <2> HIDE DEF s
  <2>5. yielded = s
    BY <2>1, <2>2, <2>4, SeqEqual
  <2> QED  BY <2>5 DEF s
<1> QED  BY <1>1, Invariance, PTL

(***************************************************************************)
(* "Iterate every scheduled email matching the filters, across all pages": *)
(* a consumer that reached the end and was never told of a failure has     *)
(* every item that was there from the first page on, as long as nothing    *)
(* left the collection, however many items joined it and wherever.         *)
(***************************************************************************)
THEOREM NothingMissing == Spec => []NothingMissingUntold
<1>1. IInv => NothingMissingUntold
  BY DEF IInv, KeptInv, NothingMissingUntold
<1> QED  BY <1>1, Invariance, PTL

(***************************************************************************)
(* "Each scheduled email, page after page": as long as nothing joined the  *)
(* collection, however many items left it, none is handed out twice.       *)
(***************************************************************************)
THEOREM EachOnce == Spec => []NothingTwice
<1>1. IInv => NothingTwice
  BY DEF IInv, OnceInv, NothingTwice
<1> QED  BY <1>1, Invariance, PTL

(***************************************************************************)
(* "Pages are fetched lazily": no page is requested before every item of   *)
(* the pages before it was handed out, and none after the consumer left.   *)
(***************************************************************************)
THEOREM Lazily == Spec => FetchesLazily
<1> DEFINE A == iter'.phase = "fetching" /\ iter.phase # "fetching" =>
                    fetched = Len(yielded) /\ signal = "none"
<1>1. IInv /\ [Next]_vars => [A]_vars
  <2> SUFFICES ASSUME IInv, Next, iter'.phase = "fetching", iter.phase # "fetching"
               PROVE  fetched = Len(yielded) /\ signal = "none"
    BY DEF vars
  <2>1. iter \in [ phase : Phases, start : StartPages, target : Nat, data : Seq(Items),
                   pos : Nat, next : Nat ]
    BY DEF IInv, TypeOK
  <2>2. PullFirst \/ FollowLink
    BY <2>1 DEF Next, Walk, PullFirst, Pull, Arrive, FetchFails, Yield, HandOut, FollowLink,
                Exhaust, PullAgain, Abandon, Leaves, Joins
  <2>3. CASE PullFirst
    BY <2>3 DEF IInv, FrameInv, PullFirst
  <2>4. CASE FollowLink
    <3>1. /\ iter.phase = "running" /\ iter.pos = Len(iter.data)
          /\ fetched + iter.pos = Len(yielded) + Len(iter.data) /\ signal = "none"
      BY <2>4 DEF IInv, FrameInv, FollowLink, PageDone, InHand
    <3>2. fetched \in Nat /\ iter.pos \in Nat /\ Len(yielded) \in Nat
      BY DEF IInv, TypeOK
    <3> QED  BY <3>1, <3>2
  <2> QED  BY <2>2, <2>3, <2>4
<1> QED  BY <1>1, Invariance, PTL DEF Spec, FetchesLazily

(***************************************************************************)
(* Links are followed forward, one page at a time, whatever the collection *)
(* does meanwhile.                                                         *)
(***************************************************************************)
THEOREM ForwardOnly == Spec => NeverTurnsBack
<1> DEFINE A == iter.phase = "running" /\ iter'.phase = "fetching" =>
                    iter'.target = iter.target + 1
<1>1. IInv /\ [Next]_vars => [A]_vars
  <2> SUFFICES ASSUME IInv, Next, iter.phase = "running", iter'.phase = "fetching"
               PROVE  iter'.target = iter.target + 1
    BY DEF vars
  <2>1. iter \in [ phase : Phases, start : StartPages, target : Nat, data : Seq(Items),
                   pos : Nat, next : Nat ]
    BY DEF IInv, TypeOK
  <2>2. FollowLink
    BY <2>1 DEF Next, Walk, PullFirst, Pull, Arrive, FetchFails, Yield, HandOut, FollowLink,
                Exhaust, PullAgain, Abandon, Leaves, Joins
  <2> QED  BY <2>1, <2>2 DEF IInv, FrameInv, FollowLink, NextPageSpec, InHand
<1> QED  BY <1>1, Invariance, PTL DEF Spec, NeverTurnsBack

(***************************************************************************)
(* Why a walk ends.  Links are followed forward, and a link is issued only *)
(* where an item is left to list, so the pages that can still be asked for *)
(* are bounded by the items there are, however often the collection changes *)
(* meanwhile; within a page each step brings the generator closer to its   *)
(* end.                                                                    *)
(***************************************************************************)
LastPage == IF iter.start > Cardinality(Items) THEN iter.start ELSE Cardinality(Items)

PagesLeft == LastPage - iter.target

StepsInPage ==
    CASE iter.phase = "created"   -> 1
      [] iter.phase = "fetching"  -> 2 * PageSize + 2
      [] iter.phase = "running"   -> 2 * (Len(iter.data) - iter.pos) + 1
      [] iter.phase = "suspended" -> 2 * (Len(iter.data) - iter.pos) + 2
      [] iter.phase = "finished"  -> 0

Closer ==
    \/ PagesLeft' < PagesLeft
    \/ PagesLeft' = PagesLeft /\ StepsInPage' < StepsInPage

BoundInv ==
    /\ iter.target <= LastPage /\ iter.next <= LastPage
    /\ iter.phase = "created" => iter.target = NoLink
    /\ Len(iter.data) <= PageSize

\* No collection is longer than the items there are.
LEMMA CollectionBound ==
    ASSUME collection \in Seq(Items), IsInjective(collection)
    PROVE  Cardinality(Items) \in Nat /\ Len(collection) <= Cardinality(Items)
<1>1. collection \in Injection(1..Len(collection), Items)
  BY DEF IsInjective, Injection
<1>2. /\ IsFiniteSet(1..Len(collection)) /\ Cardinality(1..Len(collection)) = Len(collection)
  <2>1. Len(collection) \in Nat
    OBVIOUS
  <2> QED  BY <2>1, FS_Interval
<1>3. Cardinality(1..Len(collection)) <= Cardinality(Items)
  BY <1>1, ItemsAssumption, FS_Injection
<1> QED  BY <1>2, <1>3, ItemsAssumption, FS_CardinalityType

\* Neither a page nor a step more than before.
NoFarther == Closer \/ UNCHANGED <<PagesLeft, StepsInPage>>

\* The bounds that the measure rests on.
LEMMA MeasureFacts ==
    ASSUME IInv, BoundInv
    PROVE  PagesLeft \in Nat /\ StepsInPage \in Nat
<1>1. LastPage \in Nat
  <2>1. iter.start \in Nat
    BY PageAssumption DEF IInv, TypeOK
  <2> QED  BY <2>1, ItemsAssumption, FS_CardinalityType DEF LastPage
<1>2. PagesLeft \in Nat
  BY <1>1 DEF IInv, TypeOK, BoundInv, PagesLeft
<1>3. PageSize \in Nat /\ Len(iter.data) - iter.pos \in Nat /\ iter.phase \in Phases
  BY PageAssumption DEF IInv, TypeOK
<1>4. PICK rest : rest = Len(iter.data) - iter.pos
  OBVIOUS
<1>5. StepsInPage \in Nat
  BY <1>3, <1>4 DEF StepsInPage, Phases
<1> QED  BY <1>2, <1>5

\* A link names a page with an item on it.
LEMMA LinkBound ==
    ASSUME collection \in Seq(Items), IsInjective(collection), NEW n \in Nat \ {0},
           LinkAfter(n) # NoLink
    PROVE  LinkAfter(n) <= Cardinality(Items)
<1>1. /\ LinkAfter(n) = n + 1 /\ n * PageSize < Len(collection)
  BY DEF LinkAfter
<1>2. /\ PageSize \in Nat \ {0} /\ Len(collection) \in Nat /\ Cardinality(Items) \in Nat
      /\ Len(collection) <= Cardinality(Items)
  BY PageAssumption, CollectionBound
<1>3. n <= n * PageSize /\ n * PageSize \in Nat
  <2>1. PICK k \in Nat : PageSize = k + 1
    <3>1. PageSize - 1 \in Nat /\ PageSize = (PageSize - 1) + 1
      BY <1>2
    <3> QED  BY <3>1
  <2>2. n * (k + 1) = n * k + n
    BY <2>1
  <2>3. n * k \in Nat
    BY <2>1
  <2> QED  BY <2>1, <2>2, <2>3
<1> QED  BY <1>1, <1>2, <1>3

LEMMA BoundInvariance == Spec => []BoundInv
<1>1. Init => BoundInv
  BY PageAssumption, ItemsAssumption, FS_CardinalityType DEF Init, BoundInv, LastPage, NoLink
<1>2. IInv /\ BoundInv /\ [Next]_vars => BoundInv'
  <2> SUFFICES ASSUME IInv, BoundInv, [Next]_vars PROVE BoundInv'
    OBVIOUS
  <2>1. /\ iter \in Frames /\ iter.start \in Nat \ {0} /\ PageSize \in Nat \ {0}
        /\ Cardinality(Items) \in Nat /\ iter.phase \in Phases
    BY PageAssumption, ItemsAssumption, FS_CardinalityType DEF IInv, TypeOK, Frames
  <2>2. CASE UNCHANGED iter
    BY <2>2 DEF BoundInv, LastPage
  <2>3. CASE PullFirst
    <3>1. /\ iter'.target = iter.start /\ iter'.start = iter.start /\ iter'.next = iter.next
          /\ iter'.data = iter.data /\ iter'.phase = "fetching"
      BY <2>1, <2>3 DEF PullFirst, Frames
    <3> QED  BY <2>1, <3>1 DEF BoundInv, LastPage
  <2>4. CASE Pull \/ FetchFails \/ Yield \/ Exhaust \/ Abandon
    <3>1. /\ iter'.target = iter.target /\ iter'.start = iter.start /\ iter'.next = iter.next
          /\ iter'.data = iter.data /\ iter'.phase # "created"
      BY <2>1, <2>4 DEF Pull, FetchFails, Yield, HandOut, Exhaust, Abandon, Frames
    <3> QED  BY <3>1 DEF BoundInv, LastPage
  <2>5. CASE FollowLink
    <3>1. /\ iter'.target = iter.next /\ iter'.start = iter.start /\ iter'.next = iter.next
          /\ iter'.data = iter.data /\ iter'.phase = "fetching"
      BY <2>1, <2>5 DEF FollowLink, NextPageSpec, Frames
    <3> QED  BY <3>1 DEF BoundInv, LastPage
  <2>6. CASE Arrive
    <3> DEFINE page == PageOf(iter.target)
               link == LinkAfter(iter.target)
    <3>1. /\ iter' = [iter EXCEPT !.phase = "running", !.data = page, !.pos = 0, !.next = link]
          /\ iter.phase = "fetching"
      BY <2>6 DEF Arrive
    <3>2. /\ iter.target \in Nat \ {0} /\ collection \in Seq(Items) /\ IsInjective(collection)
      BY <3>1 DEF IInv, TypeOK, FrameInv, NoLink
    <3>3. Len(page) <= PageSize
      BY <3>2, PageFacts
    <3>4. link <= LastPage
      <4>1. link = NoLink \/ link <= Cardinality(Items)
        BY <3>2, LinkBound
      <4>2. link = NoLink \/ link \in Nat
        BY <3>2, PageFacts
      <4> QED  BY <2>1, <4>1, <4>2 DEF LastPage, NoLink
    <3> HIDE DEF page, link
    <3>5. /\ iter'.target = iter.target /\ iter'.start = iter.start /\ iter'.next = link
          /\ iter'.data = page /\ iter'.phase = "running"
      BY <2>1, <3>1 DEF Frames
    <3> QED  BY <3>3, <3>4, <3>5 DEF BoundInv, LastPage
  <2> QED  BY <2>2, <2>3, <2>4, <2>5, <2>6
           DEF Next, Walk, PullAgain, Leaves, Joins, vars
<1> QED  BY <1>1, <1>2, Invariance, PTL DEF Spec

(***************************************************************************)
(* "Iterate every scheduled email": a walk makes its way to its end.  Each  *)
(* step of the generator leaves fewer pages to ask for, or as many and      *)
(* fewer steps in the page; nothing the consumer or the collection does     *)
(* takes it back.  (WalkEnds, but for the fairness.)                        *)
(***************************************************************************)
THEOREM WalkProgresses ==
    Spec => /\ [](PagesLeft \in Nat /\ StepsInPage \in Nat)
            /\ [][IF Walk THEN Closer ELSE NoFarther]_vars
<1>1. IInv /\ BoundInv => PagesLeft \in Nat /\ StepsInPage \in Nat
  BY MeasureFacts
<1>2. IInv /\ BoundInv /\ BoundInv' /\ IInv' /\ [Next]_vars => [IF Walk THEN Closer ELSE NoFarther]_vars
  <2> SUFFICES ASSUME IInv, BoundInv, IInv', BoundInv', Next
               PROVE  IF Walk THEN Closer ELSE NoFarther
    BY DEF vars
  <2>1. /\ iter \in Frames /\ iter.start \in Nat \ {0} /\ PageSize \in Nat \ {0}
        /\ Cardinality(Items) \in Nat /\ iter.pos <= Len(iter.data)
        /\ Len(iter.data) \in Nat /\ Len(iter.data) <= PageSize
    <3>1. iter \in Frames /\ iter.start \in StartPages /\ iter.pos <= Len(iter.data)
      BY DEF IInv, TypeOK, Frames
    <3>2. PageSize \in Nat \ {0} /\ iter.start \in Nat \ {0} /\ Cardinality(Items) \in Nat
      BY <3>1, PageAssumption, ItemsAssumption, FS_CardinalityType
    <3>3. Len(iter.data) \in Nat
      BY <3>1 DEF Frames
    <3> QED  BY <3>1, <3>2, <3>3 DEF BoundInv
  <2>2. PagesLeft \in Nat /\ StepsInPage \in Nat
    BY MeasureFacts
  <2>3. LastPage \in Nat /\ LastPage' = LastPage
    <3>1. iter'.start = iter.start
      BY <2>1 DEF Frames, Next, Walk, PullFirst, Pull, Arrive, FetchFails, Yield, HandOut, FollowLink,
                  Exhaust, PullAgain, Abandon, Leaves, Joins
    <3> QED  BY <2>1, <3>1 DEF LastPage
  <2>4. CASE PullFirst
    <3>1. iter.target = NoLink /\ iter'.target = iter.start
      BY <2>1, <2>4 DEF PullFirst, BoundInv, Frames
    <3> QED  BY <2>1, <2>3, <2>4, <3>1 DEF PagesLeft, Closer, NoLink, Walk
  <2>5. CASE FollowLink
    <3>1. iter'.target = iter.target + 1 /\ iter.target \in Nat
      BY <2>1, <2>5 DEF FollowLink, NextPageSpec, IInv, FrameInv, InHand, Frames
    <3> QED  BY <2>3, <2>5, <3>1 DEF PagesLeft, Closer, Walk
  <2>6. ASSUME iter'.target = iter.target PROVE PagesLeft' = PagesLeft
    BY <2>3, <2>6 DEF PagesLeft
  <2>7. CASE Arrive
    <3>1. /\ iter'.target = iter.target /\ iter'.pos = 0
          /\ iter.phase = "fetching" /\ iter'.phase = "running"
      BY <2>1, <2>7 DEF Arrive, Frames
    <3>2. Len(iter'.data) \in Nat /\ Len(iter'.data) <= PageSize
      BY DEF IInv, TypeOK, BoundInv
    <3>3. PICK len \in Nat : len = Len(iter'.data)
      BY <3>2
    <3>4. StepsInPage = 2 * PageSize + 2 /\ StepsInPage' = 2 * (len - 0) + 1
      BY <3>1, <3>3 DEF StepsInPage
    <3>5. StepsInPage' < StepsInPage
      BY <2>1, <3>2, <3>3, <3>4
    <3> QED  BY <2>6, <2>7, <3>1, <3>5 DEF Closer, Walk
  <2>8. CASE Yield \/ Pull
    <3>1. PICK len, pos : len = Len(iter.data) /\ pos = iter.pos
      OBVIOUS
    <3>2. len \in Nat /\ pos \in Nat /\ pos <= len
      BY <2>1, <3>1 DEF Frames
    <3>3. CASE Yield
      <4>1. /\ iter'.target = iter.target /\ iter'.pos = pos + 1 /\ iter'.data = iter.data
            /\ iter.phase = "running" /\ iter'.phase = "suspended" /\ pos < len
        BY <2>1, <3>1, <3>3 DEF Yield, HandOut, Frames
      <4>2. StepsInPage = 2 * (len - pos) + 1 /\ StepsInPage' = 2 * (len - (pos + 1)) + 2
        BY <3>1, <4>1 DEF StepsInPage
      <4>3. StepsInPage' < StepsInPage
        BY <3>2, <4>1, <4>2
      <4> QED  BY <2>6, <3>3, <4>1, <4>3 DEF Closer, Walk
    <3>4. CASE Pull
      <4>1. /\ iter'.target = iter.target /\ iter'.pos = pos /\ iter'.data = iter.data
            /\ iter.phase = "suspended" /\ iter'.phase = "running"
        BY <2>1, <3>1, <3>4 DEF Pull, Frames
      <4>2. StepsInPage = 2 * (len - pos) + 2 /\ StepsInPage' = 2 * (len - pos) + 1
        BY <3>1, <4>1 DEF StepsInPage
      <4>3. StepsInPage' < StepsInPage
        BY <3>2, <4>1, <4>2
      <4> QED  BY <2>6, <3>4, <4>1, <4>3 DEF Closer, Walk
    <3> QED  BY <2>8, <3>3, <3>4
  <2>9. CASE FetchFails \/ Exhaust \/ Abandon
    <3>1. /\ iter'.target = iter.target /\ iter'.phase = "finished"
          /\ iter.phase \in {"fetching", "running", "created", "suspended"}
      BY <2>1, <2>9 DEF FetchFails, Exhaust, Abandon, Frames
    <3>2. PICK rest : rest = Len(iter.data) - iter.pos
      OBVIOUS
    <3>3. rest \in Nat
      BY <2>1, <3>2 DEF Frames
    <3>4. StepsInPage' = 0 /\ StepsInPage > 0
      BY <2>1, <3>1, <3>2, <3>3 DEF StepsInPage
    <3> QED  BY <2>6, <3>1, <3>4 DEF Closer, NoFarther
  <2>10. CASE PullAgain \/ Leaves \/ Joins
    <3>1. iter' = iter
      BY <2>10 DEF PullAgain, Leaves, Joins
    <3>2. PagesLeft' = PagesLeft /\ StepsInPage' = StepsInPage
      BY <2>3, <3>1 DEF PagesLeft, StepsInPage
    <3>3. ~Walk
      BY <2>1, <3>1 DEF Walk, PullFirst, Pull, Arrive, FetchFails, Yield, HandOut, FollowLink,
                        Exhaust, Frames
    <3> QED  BY <3>2, <3>3 DEF NoFarther
  <2> QED  BY <2>4, <2>5, <2>7, <2>8, <2>9, <2>10 DEF Next, Walk, NoFarther
<1> QED  BY <1>1, <1>2, Invariance, BoundInvariance, PTL DEF Spec
==============================================================================
