-------------------------- MODULE PaginationProofs --------------------------
(***************************************************************************)
(* The safety properties of Pagination, for every set of cursors, every    *)
(* list and every maxPages.                                                *)
(*                                                                         *)
(* Neither NoItemTwice nor EveryItemOnce is inductive: what was yielded    *)
(* says nothing of where the generator is.  IInv adds the walk: the pages  *)
(* that it was at, from the start to the cursor, all of whose items but    *)
(* the cursor's are yielded.                                               *)
(***************************************************************************)
EXTENDS Pagination, WellFoundedInduction, TLAPS

(* A set of naturals has a least one: what stands for an induction over    *)
(* the pages of a walk.                                                    *)
LEMMA LeastOfSet ==
  ASSUME NEW T \in SUBSET Nat, T # {}
  PROVE  \E m \in T : \A k \in T : m <= k
<1> DEFINE Below == {ss \in Nat \X Nat : ss[1] < ss[2]}
<1>1. IsWellFoundedOn(Below, Nat)
  BY NatLessThanWellFounded DEF OpToRel
<1>2. PICK m \in T : \A k \in T : ~ (<<k, m>> \in Below)
  BY <1>1, WFMin
<1>3. \A k \in T : k < m <=> <<k, m>> \in Below
  OBVIOUS
<1> SUFFICES ASSUME NEW k \in T PROVE m <= k
  OBVIOUS
<1>4. ~ (k < m)
  BY <1>2, <1>3
<1> QED BY <1>4

-----------------------------------------------------------------------------
Counts(path) ==
  \A c \in Pages :
    /\ (\E i \in 0 .. page - 1 : path[i] = c) => yielded[c] = list.size[c]
    /\ (\A i \in 0 .. page : path[i] # c) => yielded[c] = 0

CountAtCursor ==
  /\ pc \in {"new", "requesting"} => yielded[cursor] = 0
  /\ pc = "yielding" => yielded[cursor] + left = list.size[cursor]
  /\ yielded[cursor] <= list.size[cursor]
  /\ pc = "done" =>
       \/ /\ yielded[cursor] = list.size[cursor]
          /\ ~ HasNext(cursor) /\ WithinMaxPages(page)
       \/ yielded[cursor] = 0 /\ page = maxPages

AtPage ==
  /\ pc = "new" => page = 0
  /\ pc = "yielding" => page < PageBound
  /\ pc \in {"requesting", "yielding"} => WithinMaxPages(page)

Walked(path) ==
  /\ path[page] = cursor
  /\ \A i \in 0 .. page - 1 :
       path[i] # path[i + 1] /\ cursor \in Reachable(path[i + 1])
  /\ \A i \in 0 .. page : path[i] \in Reachable(list.start)

IInv ==
  /\ TypeOK
  /\ AtPage
  /\ \E path \in Paths(page) :
       Walked(path) /\ (Acyclic => Counts(path) /\ CountAtCursor)

-----------------------------------------------------------------------------
(* What the definitions say of the values they are applied to.             *)
LEMMA ListTypes ==
  ASSUME list \in Lists
  PROVE  /\ list.next \in [Pages -> Cursors \cup {None}]
         /\ list.size \in [Pages -> Nat]
         /\ list.start \in Pages
         /\ \A c \in Pages : list.next[c] # None => list.next[c] \in Pages
<1>1. list \in [next : [Pages -> Cursors \cup {None}],
                size : [Pages -> Nat], start : Pages]
  BY PaginationAssumption
<1> QED BY <1>1 DEF Pages

LEMMA ReachesItself ==
  ASSUME NEW c \in Pages
  PROVE  c \in Reachable(c)
BY DEF Reachable

LEMMA ReachesNext ==
  ASSUME list \in Lists, NEW c \in Pages, NEW d \in Reachable(c),
         list.next[d] # None
  PROVE  list.next[d] \in Reachable(c)
<1>1. d \in Pages /\ list.next[d] \in Pages
  BY ListTypes DEF Reachable
<1>2. ASSUME NEW S \in SUBSET Pages, c \in S, Successors(S) \subseteq S
      PROVE  list.next[d] \in S
  <2>1. d \in S
    BY <1>2 DEF Reachable
  <2>2. list.next[d] \in Successors(S)
    BY <2>1 DEF Successors
  <2> QED BY <1>2, <2>2
<1> QED BY <1>1, <1>2 DEF Reachable

LEMMA ReachesNoMore ==
  ASSUME NEW S \in SUBSET Pages, NEW c \in S,
         \A d \in S : list.next[d] # None => list.next[d] \in S
  PROVE  Reachable(c) \subseteq S
<1>1. Successors(S) \subseteq S
  BY DEF Successors
<1> QED BY <1>1 DEF Reachable

(* A page that is behind does not come again on a list without loops.      *)
LEMMA NotBehind ==
  ASSUME TypeOK, Acyclic, NEW path \in Paths(page), Walked(path),
         NEW i \in 0 .. page - 1,
         NEW c \in {cursor} \cup {list.next[cursor]},
         c = cursor \/ HasNext(cursor)
  PROVE  path[i] # c
<1>1. page \in Nat /\ cursor \in Pages /\ list \in Lists
  BY PaginationAssumption DEF TypeOK
<1>2. path[i] \in Pages /\ path[i + 1] = list.next[path[i]] /\ path[i + 1] \in Pages
  <2>1. i \in 0 .. page /\ i + 1 \in 1 .. page /\ i + 1 \in 0 .. page /\ (i + 1) - 1 = i
    BY <1>1
  <2> QED BY <2>1 DEF Paths
<1>3. path[i] # path[i + 1] /\ cursor \in Reachable(path[i + 1])
  BY DEF Walked
<1>4. path[i + 1] # None
  BY <1>2, PaginationAssumption DEF Pages
<1>5. path[i] \notin Reachable(path[i + 1])
  BY <1>2, <1>3, <1>4 DEF Acyclic
<1>6. c \in Reachable(path[i + 1])
  <2>1. CASE c = cursor
    BY <2>1, <1>3
  <2>2. CASE c = list.next[cursor] /\ HasNext(cursor)
    BY <2>2, <1>1, <1>2, <1>3, ReachesNext DEF HasNext
  <2> QED BY <2>1, <2>2
<1> QED BY <1>5, <1>6

-----------------------------------------------------------------------------
(* The walk grows by the page that NextPage goes to, and by no other.      *)
LEMMA SameLists ==
  ASSUME UNCHANGED <<list, maxPages>>
  PROVE  /\ Acyclic' = Acyclic
         /\ \A c : Reachable(c)' = Reachable(c)
         /\ \A n : Paths(n)' = Paths(n)
         /\ \A n : WithinMaxPages(n)' = WithinMaxPages(n)
         /\ \A c : HasNext(c)' = HasNext(c)
<1>1. \A c : Reachable(c)' = Reachable(c)
  BY DEF Reachable, Successors
<1> QED BY <1>1 DEF Acyclic, Paths, WithinMaxPages, HasNext

LEMMA WalkStays ==
  ASSUME UNCHANGED <<list, maxPages, cursor, page>>,
         NEW path, Walked(path)
  PROVE  Walked(path)'
<1>1. \A c : Reachable(c)' = Reachable(c)
  BY SameLists
<1> QED BY <1>1 DEF Walked

LEMMA WalkGrows ==
  ASSUME TypeOK, HasNext(cursor), UNCHANGED <<list, maxPages>>,
         cursor' = list.next[cursor], page' = page + 1,
         NEW path \in Paths(page), Walked(path)
  PROVE  \E longer \in Paths(page + 1) :
           /\ \A i \in 0 .. page : longer[i] = path[i]
           /\ longer[page + 1] = cursor'
           /\ Walked(longer)'
<1>1. /\ page \in Nat /\ cursor \in Pages /\ list \in Lists
      /\ list.next[cursor] \in Pages /\ list.next[cursor] # cursor
      /\ list.next[cursor] # None
  BY ListTypes, PaginationAssumption DEF TypeOK, HasNext
<1>2. /\ path \in [0 .. page -> Pages] /\ path[0] = list.start
      /\ \A i \in 1 .. page : path[i] = list.next[path[i - 1]]
  BY DEF Paths
<1>3. PICK longer \in [0 .. page + 1 -> Pages] :
        /\ \A i \in 0 .. page : longer[i] = path[i]
        /\ longer[page + 1] = list.next[cursor]
  <2> DEFINE Longer == [i \in 0 .. page + 1 |->
                          IF i = page + 1 THEN list.next[cursor] ELSE path[i]]
  <2>1. Longer \in [0 .. page + 1 -> Pages]
    BY <1>1, <1>2
  <2>2. /\ \A i \in 0 .. page : Longer[i] = path[i]
        /\ Longer[page + 1] = list.next[cursor]
    BY <1>1
  <2> QED BY <2>1, <2>2
<1>4. path[page] = cursor
  BY DEF Walked
<1>5. longer \in Paths(page + 1)
  <2>1. longer[0] = list.start
    BY <1>1, <1>2, <1>3
  <2>2. ASSUME NEW i \in 1 .. page + 1
        PROVE  longer[i] = list.next[longer[i - 1]]
    <3>1. i - 1 \in 0 .. page /\ longer[i - 1] = path[i - 1]
      BY <1>1, <1>3
    <3>2. CASE i = page + 1
      BY <3>1, <3>2, <1>1, <1>3, <1>4
    <3>3. CASE i # page + 1
      <4>1. i \in 1 .. page /\ i \in 0 .. page
        BY <3>3, <1>1
      <4> QED BY <3>1, <4>1, <1>2, <1>3
    <3> QED BY <3>2, <3>3
  <2> QED BY <2>1, <2>2, <1>3 DEF Paths
<1>6. Walked(longer)'
  <2>1. \A c : Reachable(c)' = Reachable(c)
    BY SameLists
  <2>2. ASSUME NEW i \in 0 .. page
        PROVE  /\ longer[i] # longer[i + 1]
               /\ list.next[cursor] \in Reachable(longer[i + 1])
    <3>1. CASE i = page
      BY <3>1, <1>1, <1>3, <1>4, ReachesItself
    <3>2. CASE i # page
      <4>1. i \in 0 .. page - 1 /\ i + 1 \in 0 .. page
        BY <3>2, <1>1
      <4>2. path[i] # path[i + 1] /\ cursor \in Reachable(path[i + 1])
        BY <4>1 DEF Walked
      <4>3. path[i + 1] \in Pages
        BY <4>1, <1>2
      <4>4. list.next[cursor] \in Reachable(path[i + 1])
        BY <4>2, <4>3, <1>1, ReachesNext
      <4> QED BY <4>1, <4>2, <4>4, <1>3
    <3> QED BY <3>1, <3>2
  <2>3. ASSUME NEW i \in 0 .. page + 1
        PROVE  longer[i] \in Reachable(list.start)
    <3>1. \A k \in 0 .. page : path[k] \in Reachable(list.start)
      BY DEF Walked
    <3>2. CASE i = page + 1
      <4>1. cursor \in Reachable(list.start)
        BY <3>1, <1>1, <1>4
      <4>2. list.next[cursor] \in Reachable(list.start)
        BY <4>1, <1>1, ListTypes, ReachesNext
      <4> QED BY <4>2, <3>2, <1>3
    <3>3. CASE i # page + 1
      BY <3>1, <3>3, <1>1, <1>3
    <3> QED BY <3>2, <3>3
  <2>4. /\ 0 .. page' - 1 = 0 .. page /\ 0 .. page' = 0 .. page + 1
        /\ page' = page + 1 /\ list' = list
    BY <1>1
  <2> QED BY <2>1, <2>2, <2>3, <2>4, <1>3 DEF Walked
<1> QED BY <1>3, <1>5, <1>6

-----------------------------------------------------------------------------
(* One lemma for each way a step can go.                                   *)
LEMMA InitEstablishes == Init => IInv
<1> SUFFICES ASSUME Init PROVE IInv
  OBVIOUS
<1>1. list \in Lists /\ list.start \in Pages /\ list.size \in [Pages -> Nat]
  BY ListTypes DEF Init
<1>2. TypeOK
  BY <1>1, PaginationAssumption DEF Init, TypeOK
<1>3. AtPage
  BY DEF Init, AtPage
<1>4. PICK path \in [0 .. 0 -> Pages] : path[0] = list.start
  <2>1. [i \in 0 .. 0 |-> list.start] \in [0 .. 0 -> Pages]
    BY <1>1
  <2>2. [i \in 0 .. 0 |-> list.start][0] = list.start
    OBVIOUS
  <2> QED BY <2>1, <2>2
<1>5. page = 0 /\ cursor = list.start /\ 0 .. 0 - 1 = {} /\ 1 .. 0 = {} /\ 0 .. 0 = {0}
  BY DEF Init
<1>6. path \in Paths(page)
  BY <1>4, <1>5 DEF Paths
<1>7. Walked(path)
  BY <1>1, <1>4, <1>5, ReachesItself DEF Walked
<1>8. Counts(path)
  BY <1>5 DEF Counts, Init
<1>9. CountAtCursor
  <2>1. yielded[cursor] = 0 /\ 0 <= list.size[cursor]
    BY <1>1, <1>5 DEF Init
  <2> QED BY <2>1 DEF CountAtCursor, Init
<1> QED BY <1>2, <1>3, <1>6, <1>7, <1>8, <1>9 DEF IInv

(* Only where the generator is changes: it is first resumed, request()     *)
(* throws, or the consumer leaves.                                         *)
LEMMA Moves ==
  ASSUME IInv, UNCHANGED <<list, maxPages, cursor, page, left, yielded>>,
         \/ pc = "new" /\ pc' = IF WithinMaxPages(0) THEN "requesting" ELSE "done"
         \/ pc = "requesting" /\ pc' = "failed"
         \/ pc' = "closed"
         \/ pc' = pc
  PROVE  IInv'
<1> USE DEF IInv
<1>1. TypeOK'
  BY DEF TypeOK
<1>2. /\ \A n : WithinMaxPages(n)' = WithinMaxPages(n)
      /\ \A c : HasNext(c)' = HasNext(c)
      /\ Acyclic' = Acyclic
  BY SameLists
<1>3. ASSUME pc = "new", ~ WithinMaxPages(0)
      PROVE  page = 0 /\ maxPages = 0
  BY <1>3, PaginationAssumption DEF AtPage, WithinMaxPages, TypeOK
<1>4. AtPage'
  BY <1>2, <1>3 DEF AtPage, WithinMaxPages, HasNext
<1>5. PICK path \in Paths(page) : Walked(path) /\ (Acyclic => Counts(path) /\ CountAtCursor)
  OBVIOUS
<1>6. path \in Paths(page)' /\ Walked(path)'
  BY <1>5, WalkStays DEF Paths
<1>7. ASSUME Acyclic PROVE Counts(path)' /\ CountAtCursor'
  <2>1. Counts(path)'
    BY <1>5, <1>7 DEF Counts
  <2>2. CountAtCursor'
    BY <1>2, <1>3, <1>5, <1>7 DEF CountAtCursor, HasNext
  <2> QED BY <2>1, <2>2
<1> QED BY <1>1, <1>2, <1>4, <1>6, <1>7

(* One more item of the page.                                              *)
LEMMA Yields ==
  ASSUME IInv, NEW n \in Nat, n > 0, Yield(n), page < PageBound,
         \/ pc = "requesting" /\ n = list.size[cursor]
         \/ pc = "yielding" /\ n = left
  PROVE  IInv'
<1> USE DEF IInv, Yield
<1>1. /\ page \in Nat /\ cursor \in Pages /\ list \in Lists
      /\ yielded \in [Pages -> Nat] /\ list.size \in [Pages -> Nat]
  BY ListTypes, PaginationAssumption DEF TypeOK
<1>2. TypeOK'
  BY <1>1 DEF TypeOK
<1>3. AtPage'
  BY DEF AtPage, WithinMaxPages
<1>4. PICK path \in Paths(page) : Walked(path) /\ (Acyclic => Counts(path) /\ CountAtCursor)
  OBVIOUS
<1>5. path \in Paths(page)' /\ Walked(path)'
  BY <1>4, WalkStays DEF Paths
<1>6. Acyclic' = Acyclic
  BY SameLists
<1>7. ASSUME Acyclic PROVE Counts(path)' /\ CountAtCursor'
  <2>1. yielded' = [yielded EXCEPT ![cursor] = yielded[cursor] + 1]
    OBVIOUS
  <2>2. \A i \in 0 .. page - 1 : path[i] # cursor
    BY <1>4, <1>7, NotBehind
  <2>3. page \in 0 .. page /\ path[page] = cursor
    BY <1>1, <1>4 DEF Walked
  <2>4. ASSUME NEW c \in Pages
        PROVE  /\ (\E i \in 0 .. page - 1 : path[i] = c) => yielded'[c] = list.size[c]
               /\ (\A i \in 0 .. page : path[i] # c) => yielded'[c] = 0
    <3>1. /\ (\E i \in 0 .. page - 1 : path[i] = c) => yielded[c] = list.size[c]
          /\ (\A i \in 0 .. page : path[i] # c) => yielded[c] = 0
      BY <1>4, <1>7 DEF Counts
    <3>2. CASE c = cursor
      BY <3>2, <2>2, <2>3
    <3>3. CASE c # cursor
      BY <3>1, <3>3, <2>1, <1>1
    <3> QED BY <3>2, <3>3
  <2>5. Counts(path)'
    BY <2>4 DEF Counts
  <2>6. yielded[cursor] + n = list.size[cursor]
    BY <1>1, <1>4, <1>7 DEF CountAtCursor
  <2>7. yielded'[cursor] = yielded[cursor] + 1 /\ yielded[cursor] \in Nat
    BY <1>1, <2>1
  <2>8. CountAtCursor'
    BY <1>1, <2>6, <2>7 DEF CountAtCursor
  <2> QED BY <2>5, <2>8
<1> QED BY <1>2, <1>3, <1>5, <1>6, <1>7

(* The page has no more items: the generator goes on to the next, or ends. *)
LEMMA TurnsPage ==
  ASSUME IInv, NextPage, UNCHANGED <<list, maxPages, left, yielded>>,
         page < PageBound,
         \/ pc = "requesting" /\ list.size[cursor] = 0
         \/ pc = "yielding" /\ left = 0
  PROVE  IInv'
<1> USE DEF IInv
<1>1. /\ page \in Nat /\ PageBound \in Nat /\ cursor \in Pages /\ list \in Lists
      /\ yielded \in [Pages -> Nat] /\ list.size \in [Pages -> Nat]
      /\ maxPages \in Nat \cup {Unlimited} /\ Unlimited \notin Nat
  BY ListTypes, PaginationAssumption DEF TypeOK
<1>2. /\ \A n : WithinMaxPages(n)' = WithinMaxPages(n)
      /\ \A c : HasNext(c)' = HasNext(c)
      /\ Acyclic' = Acyclic
  BY SameLists
<1>3. WithinMaxPages(page)
  BY DEF AtPage
<1>4. PICK path \in Paths(page) : Walked(path) /\ (Acyclic => Counts(path) /\ CountAtCursor)
  OBVIOUS
<1>5. Acyclic => yielded[cursor] = list.size[cursor]
  BY <1>1, <1>4 DEF CountAtCursor
<1>6. CASE HasNext(cursor)
  <2>1. /\ cursor' = list.next[cursor] /\ page' = page + 1
        /\ pc' = IF WithinMaxPages(page + 1) THEN "requesting" ELSE "done"
    BY <1>6 DEF NextPage
  <2>2. list.next[cursor] \in Pages /\ list.next[cursor] # cursor
    BY <1>1, <1>6, ListTypes DEF HasNext
  <2>3. TypeOK'
    BY <1>1, <2>1, <2>2 DEF TypeOK
  <2>4. ~ WithinMaxPages(page + 1) => maxPages = page + 1
    BY <1>1, <1>3 DEF WithinMaxPages
  <2>5. AtPage'
    BY <1>1, <2>1, <2>4 DEF AtPage, WithinMaxPages
  <2>6. PICK longer \in Paths(page + 1) :
           /\ \A i \in 0 .. page : longer[i] = path[i]
           /\ longer[page + 1] = cursor'
           /\ Walked(longer)'
    BY <1>4, <1>6, <2>1, WalkGrows
  <2>7. longer \in Paths(page)'
    BY <2>1, <2>6 DEF Paths
  <2>8. ASSUME Acyclic PROVE Counts(longer)' /\ CountAtCursor'
    <3>1. path[page] = cursor /\ page \in 0 .. page
      BY <1>1, <1>4 DEF Walked
    <3>2. ASSUME NEW c \in Pages
          PROVE  /\ (\E i \in 0 .. page : longer[i] = c) => yielded[c] = list.size[c]
                 /\ (\A i \in 0 .. page + 1 : longer[i] # c) => yielded[c] = 0
      <4>1. /\ (\E i \in 0 .. page - 1 : path[i] = c) => yielded[c] = list.size[c]
            /\ (\A i \in 0 .. page : path[i] # c) => yielded[c] = 0
        BY <1>4, <2>8 DEF Counts
      <4>2. ASSUME NEW i \in 0 .. page, longer[i] = c
            PROVE  yielded[c] = list.size[c]
        <5>1. path[i] = c
          BY <4>2, <2>6
        <5>2. CASE i = page
          BY <5>1, <5>2, <3>1, <1>5, <2>8
        <5>3. CASE i # page
          <6>1. i \in 0 .. page - 1
            BY <5>3, <1>1
          <6> QED BY <6>1, <5>1, <4>1
        <5> QED BY <5>2, <5>3
      <4>3. ASSUME \A i \in 0 .. page + 1 : longer[i] # c
            PROVE  yielded[c] = 0
        <5>1. 0 .. page \subseteq 0 .. page + 1
          BY <1>1
        <5> QED BY <5>1, <4>1, <4>3, <2>6
      <4> QED BY <4>2, <4>3
    <3>3. page' - 1 = page
      BY <1>1, <2>1
    <3>4. Counts(longer)'
      BY <2>1, <3>2, <3>3 DEF Counts
    <3>5. \A i \in 0 .. page : path[i] # list.next[cursor]
      <4>1. ASSUME NEW i \in 0 .. page - 1 PROVE path[i] # list.next[cursor]
        BY <1>4, <1>6, <2>8, NotBehind
      <4>2. \A i \in 0 .. page : i = page \/ i \in 0 .. page - 1
        BY <1>1
      <4> QED BY <4>1, <4>2, <3>1, <2>2
    <3>6. yielded[list.next[cursor]] = 0
      BY <1>4, <2>2, <2>8, <3>5 DEF Counts
    <3>7. list.size[list.next[cursor]] \in Nat
      BY <1>1, <2>2
    <3>8. CountAtCursor'
      BY <2>1, <2>4, <3>6, <3>7 DEF CountAtCursor
    <3> QED BY <3>4, <3>8
  <2> QED BY <1>2, <2>3, <2>5, <2>6, <2>7, <2>8
<1>7. CASE ~ HasNext(cursor)
  <2>1. pc' = "done" /\ UNCHANGED <<cursor, page>>
    BY <1>7 DEF NextPage
  <2>2. TypeOK'
    BY <2>1 DEF TypeOK
  <2>3. AtPage'
    BY <1>2, <1>3, <1>7, <2>1 DEF AtPage, WithinMaxPages, HasNext
  <2>4. path \in Paths(page)' /\ Walked(path)'
    BY <1>4, <2>1, WalkStays DEF Paths
  <2>5. ASSUME Acyclic PROVE Counts(path)' /\ CountAtCursor'
    <3>1. Counts(path)'
      BY <1>4, <2>1, <2>5 DEF Counts
    <3>2. CountAtCursor'
      <4>1. WithinMaxPages(page)'
        BY <1>3, <2>1 DEF WithinMaxPages
      <4>2. ~ HasNext(cursor)'
        BY <1>7, <2>1 DEF HasNext
      <4>3. list.size[cursor] \in Nat
        BY <1>1
      <4> QED BY <1>5, <2>1, <2>5, <4>1, <4>2, <4>3 DEF CountAtCursor
    <3> QED BY <3>1, <3>2
  <2> QED BY <1>2, <2>2, <2>3, <2>4, <2>5
<1> QED BY <1>6, <1>7

LEMMA NextPreserves == IInv /\ [Next]_vars => IInv'
<1> SUFFICES ASSUME IInv, [Next]_vars PROVE IInv'
  OBVIOUS
<1>1. CASE Pull
  <2>1. CASE pc = "new"
    BY <1>1, <2>1, Moves DEF Pull
  <2>2. CASE pc = "yielding" /\ left > 0 /\ Yield(left)
    <3>1. left \in Nat /\ page < PageBound
      BY <2>2 DEF IInv, TypeOK, AtPage
    <3> QED BY <2>2, <3>1, Yields
  <2>3. CASE /\ pc = "yielding" /\ left = 0 /\ NextPage
             /\ UNCHANGED <<list, maxPages, left, yielded>>
    BY <2>3, TurnsPage DEF IInv, AtPage
  <2> QED BY <1>1, <2>1, <2>2, <2>3 DEF Pull
<1>2. CASE Arrive
  <2>1. CASE list.size[cursor] > 0 /\ Yield(list.size[cursor])
    <3>1. list.size[cursor] \in Nat
      BY ListTypes DEF IInv, TypeOK
    <3> QED BY <1>2, <2>1, <3>1, Yields DEF Arrive
  <2>2. CASE /\ list.size[cursor] = 0 /\ NextPage
             /\ UNCHANGED <<list, maxPages, left, yielded>>
    BY <1>2, <2>2, TurnsPage DEF Arrive
  <2> QED BY <1>2, <2>1, <2>2 DEF Arrive
<1>3. CASE Error
  BY <1>3, Moves DEF Error
<1>4. CASE Close
  BY <1>4, Moves DEF Close
<1>5. CASE UNCHANGED vars
  BY <1>5, Moves DEF vars
<1> QED BY <1>1, <1>2, <1>3, <1>4, <1>5 DEF Next

-----------------------------------------------------------------------------
(* What IInv says of a generator that is done.                             *)
LEMMA WalkIsPromised ==
  ASSUME list \in Lists, NEW n \in Nat, NEW path \in Paths(n), NEW i \in 0 .. n
  PROVE  path[i] \in {p[i] : p \in Paths(i)}
<1>1. /\ path \in [0 .. n -> Pages] /\ path[0] = list.start
      /\ \A k \in 1 .. n : path[k] = list.next[path[k - 1]]
  BY DEF Paths
<1> DEFINE prefix == [k \in 0 .. i |-> path[k]]
<1>2. prefix \in [0 .. i -> Pages]
  BY <1>1
<1>3. \A k \in 0 .. i : prefix[k] = path[k]
  OBVIOUS
<1> HIDE DEF prefix
<1>4. 0 \in 0 .. i /\ i \in 0 .. i /\ \A k \in 1 .. i : k - 1 \in 0 .. i /\ k \in 0 .. i
  OBVIOUS
<1>5. prefix \in Paths(i)
  BY <1>1, <1>2, <1>3, <1>4 DEF Paths
<1> QED BY <1>3, <1>4, <1>5

(* A set of pages with the start and all that its pages lead to has every  *)
(* walk in it.                                                             *)
LEMMA WalksStayInside ==
  ASSUME NEW S, list.start \in S,
         \A c \in S : list.next[c] \in Pages => list.next[c] \in S,
         NEW n \in Nat, NEW p \in Paths(n)
  PROVE  p[n] \in S
<1> DEFINE Outside == {k \in 0 .. n : p[k] \notin S}
<1>1. /\ p \in [0 .. n -> Pages] /\ p[0] = list.start
      /\ \A k \in 1 .. n : p[k] = list.next[p[k - 1]]
  BY DEF Paths
<1>2. SUFFICES ASSUME Outside # {} PROVE FALSE
  OBVIOUS
<1>3. PICK m \in Outside : \A k \in Outside : m <= k
  <2>1. Outside \in SUBSET Nat
    OBVIOUS
  <2> QED BY <1>2, <2>1, LeastOfSet
<1>4. m \in 1 .. n
  BY <1>1
<1>5. m - 1 \in 0 .. n /\ p[m - 1] \in S
  <2>1. m - 1 \in 0 .. n /\ ~ (m <= m - 1)
    BY <1>4
  <2> QED BY <1>3, <2>1
<1>6. p[m] = list.next[p[m - 1]] /\ p[m] \in Pages
  BY <1>1, <1>4
<1> QED BY <1>5, <1>6

LEMMA WalksAgree ==
  ASSUME NEW m \in Nat, NEW path \in Paths(m), NEW n \in 0 .. m, NEW p \in Paths(n)
  PROVE  p[n] = path[n]
<1> DEFINE Apart == {k \in 0 .. n : p[k] # path[k]}
<1>1. /\ p[0] = list.start /\ \A k \in 1 .. n : p[k] = list.next[p[k - 1]]
      /\ path[0] = list.start /\ \A k \in 1 .. m : path[k] = list.next[path[k - 1]]
  BY DEF Paths
<1>2. SUFFICES ASSUME Apart # {} PROVE FALSE
  OBVIOUS
<1>3. PICK l \in Apart : \A k \in Apart : l <= k
  <2>1. Apart \in SUBSET Nat
    OBVIOUS
  <2> QED BY <1>2, <2>1, LeastOfSet
<1>4. l \in 1 .. n /\ l \in 1 .. m
  BY <1>1
<1>5. p[l - 1] = path[l - 1]
  <2>1. l - 1 \in 0 .. n /\ ~ (l <= l - 1)
    BY <1>4
  <2> QED BY <1>3, <2>1
<1> QED BY <1>1, <1>4, <1>5

LEMMA PromiseKept ==
  ASSUME IInv, pc = "done", Acyclic, NEW c \in Pages
  PROVE  yielded[c] = IF c \in PromisedPages THEN list.size[c] ELSE 0
<1> USE DEF IInv
<1>1. /\ page \in Nat /\ cursor \in Pages /\ list \in Lists
      /\ maxPages \in Nat \cup {Unlimited} /\ Unlimited \notin Nat
  BY PaginationAssumption DEF TypeOK
<1>2. PICK path \in Paths(page) : Walked(path) /\ Counts(path) /\ CountAtCursor
  OBVIOUS
<1>3. path \in [0 .. page -> Pages] /\ path[0] = list.start /\ path[page] = cursor
  BY <1>2 DEF Paths, Walked
<1>4. /\ (\E i \in 0 .. page - 1 : path[i] = c) => yielded[c] = list.size[c]
      /\ (\A i \in 0 .. page : path[i] # c) => yielded[c] = 0
  BY <1>2 DEF Counts
<1>5. CASE yielded[cursor] = 0 /\ page = maxPages
  <2>1. PromisedPages = UNION {{p[n] : p \in Paths(n)} : n \in 0 .. page - 1}
    BY <1>1, <1>5 DEF PromisedPages, CutWalk
  <2>2. c \in PromisedPages <=> \E i \in 0 .. page - 1 : path[i] = c
    <3>1. ASSUME NEW i \in 0 .. page - 1
          PROVE  path[i] \in {p[i] : p \in Paths(i)}
      BY <1>1, WalkIsPromised
    <3>2. ASSUME NEW n \in 0 .. page - 1, NEW p \in Paths(n)
          PROVE  p[n] = path[n]
      <4>1. n \in 0 .. page
        BY <1>1
      <4> QED BY <1>1, <4>1, WalksAgree
    <3> QED BY <2>1, <3>1, <3>2
  <2>3. CASE \E i \in 0 .. page - 1 : path[i] = c
    BY <1>4, <2>2, <2>3
  <2>4. CASE \A i \in 0 .. page - 1 : path[i] # c
    <3>1. CASE c = cursor
      BY <1>5, <2>2, <2>4, <3>1
    <3>2. CASE c # cursor
      <4>1. \A i \in 0 .. page : i = page \/ i \in 0 .. page - 1
        BY <1>1
      <4> QED BY <1>3, <1>4, <2>2, <2>4, <3>2, <4>1
    <3> QED BY <3>1, <3>2
  <2> QED BY <2>3, <2>4
<1>6. CASE /\ yielded[cursor] = list.size[cursor]
           /\ ~ HasNext(cursor) /\ WithinMaxPages(page)
  <2> DEFINE Visited == {path[i] : i \in 0 .. page}
  <2>1. list.start \in Visited /\ Visited \subseteq Pages
    BY <1>1, <1>3
  <2>2. ASSUME NEW d \in Visited, list.next[d] \in Pages
        PROVE  list.next[d] \in Visited
    <3>1. PICK i \in 0 .. page : d = path[i]
      OBVIOUS
    <3>2. CASE i = page
      <4>1. list.next[cursor] # None
        BY <2>2, <3>1, <3>2, <1>3, PaginationAssumption DEF Pages
      <4>2. list.next[cursor] = cursor
        BY <4>1, <1>6 DEF HasNext
      <4> QED BY <4>2, <3>1, <3>2, <1>3
    <3>3. CASE i # page
      <4>1. i + 1 \in 1 .. page /\ (i + 1) - 1 = i /\ i + 1 \in 0 .. page
        BY <1>1, <3>3
      <4>2. path[i + 1] = list.next[path[i]]
        BY <4>1 DEF Paths
      <4> QED BY <3>1, <4>1, <4>2
    <3> QED BY <3>2, <3>3
  <2>3. c \in Visited <=> \E i \in 0 .. page : path[i] = c
    OBVIOUS
  <2> HIDE DEF Visited
  <2>4. c \in PromisedPages <=> c \in Visited
    <3>1. CASE maxPages = Unlimited
      <4>1. PromisedPages = Reachable(list.start)
        BY <3>1 DEF PromisedPages, WholeWalk
      <4>2. \A d \in Visited : list.next[d] # None => list.next[d] \in Visited
        BY <1>1, <2>1, <2>2, ListTypes
      <4>3. Reachable(list.start) \subseteq Visited
        BY <2>1, <4>2, ReachesNoMore
      <4>4. \A i \in 0 .. page : path[i] \in Reachable(list.start)
        BY <1>2 DEF Walked
      <4> QED BY <4>1, <4>3, <4>4, <2>3
    <3>2. CASE maxPages # Unlimited
      <4>1. maxPages \in Nat /\ page < maxPages
        BY <1>1, <1>6, <3>2 DEF WithinMaxPages
      <4>2. PromisedPages = UNION {{p[n] : p \in Paths(n)} : n \in 0 .. maxPages - 1}
        BY <3>2 DEF PromisedPages, CutWalk
      <4>3. ASSUME NEW i \in 0 .. page PROVE path[i] \in PromisedPages
        <5>1. path[i] \in {p[i] : p \in Paths(i)}
          BY <1>1, WalkIsPromised
        <5>2. i \in 0 .. maxPages - 1
          BY <1>1, <4>1
        <5> QED BY <4>2, <5>1, <5>2
      <4>4. ASSUME NEW n \in 0 .. maxPages - 1, NEW p \in Paths(n)
            PROVE  p[n] \in Visited
        <5>1. n \in Nat
          BY <4>1
        <5> QED BY <2>1, <2>2, <5>1, WalksStayInside
      <4> QED BY <2>3, <4>2, <4>3, <4>4
    <3> QED BY <3>1, <3>2
  <2>5. CASE c = cursor
    <3>1. page \in 0 .. page
      BY <1>1
    <3> QED BY <1>3, <1>6, <2>3, <2>4, <2>5, <3>1
  <2>6. CASE c # cursor
    <3>1. \A i \in 0 .. page : i = page \/ i \in 0 .. page - 1
      BY <1>1
    <3> QED BY <1>3, <1>4, <2>3, <2>4, <2>6, <3>1
  <2> QED BY <2>5, <2>6
<1> QED BY <1>2, <1>5, <1>6 DEF CountAtCursor

-----------------------------------------------------------------------------
LEMMA Inductive == Spec => []IInv
<1>1. Init => IInv
  BY InitEstablishes
<1>2. IInv /\ [Next]_vars => IInv'
  BY NextPreserves
<1> QED BY <1>1, <1>2, PTL DEF Spec

(* The variables keep their types; the page counter stays within the bound *)
(* of the model.                                                           *)
THEOREM TypeCorrect == Spec => []TypeOK
<1>1. IInv => TypeOK
  BY DEF IInv
<1> QED BY <1>1, Inductive, PTL

(* No item reaches the consumer twice on a list without loops, however     *)
(* many pages and items it has, and whenever the walk is left or fails.    *)
THEOREM ItemsComeOnce == Spec => []NoItemTwice
<1>1. IInv => NoItemTwice
  <2> SUFFICES ASSUME IInv, Acyclic, NEW c \in Pages
               PROVE  yielded[c] <= list.size[c]
    BY DEF NoItemTwice
  <2>1. PICK path \in Paths(page) : Walked(path) /\ Counts(path) /\ CountAtCursor
    BY DEF IInv
  <2>2. page \in Nat /\ list.size[c] \in Nat /\ path[page] = cursor
    BY <2>1, ListTypes, PaginationAssumption DEF IInv, TypeOK, Walked
  <2>3. CASE c = cursor
    BY <2>1, <2>3 DEF CountAtCursor
  <2>4. CASE c # cursor
    <3>1. \A i \in 0 .. page : i = page \/ i \in 0 .. page - 1
      BY <2>2
    <3> QED BY <2>1, <2>2, <2>4, <3>1 DEF Counts
  <2> QED BY <2>3, <2>4
<1> QED BY <1>1, Inductive, PTL

(* When the generator returns by itself on such a list, the consumer got   *)
(* every item of the pages promised, the first maxPages of the walk or all *)
(* of it, and no other.                                                    *)
THEOREM PromisedItemsCome == Spec => []EveryItemOnce
<1>1. IInv => EveryItemOnce
  BY PromiseKept DEF EveryItemOnce
<1> QED BY <1>1, Inductive, PTL
=============================================================================
