----------------------------- MODULE Pagination -----------------------------
(***************************************************************************)
(* paginate of the TypeScript client (an async generator, client.ts) and   *)
(* of the Python client (a generator, client.py): the consumer pulls items *)
(* one at a time, and a page is requested only when the consumer wants an  *)
(* item that no earlier page has.                                          *)
(*                                                                         *)
(*   new         the generator is created, nothing has run                 *)
(*   requesting  it awaits request() of a page                             *)
(*   yielding    it is suspended at a yield                                *)
(*   done        it returned                                               *)
(*   failed      request() threw through it                                *)
(*   closed      the consumer left its loop                                *)
(* The server's pages are a graph: each cursor leads to a page of items    *)
(* and to the next cursor, or to none.  A server that repeats a cursor     *)
(* makes a loop in the graph.                                              *)
(***************************************************************************)
EXTENDS Integers

CONSTANTS
  Cursors,     \* the non-empty strings the server uses as meta.nextCursor
  First,       \* no cursor: the first page
  None,        \* meta.nextCursor is null, absent or ''
  Lists,       \* the lists to walk: next and size of each page, and
               \* start, the caller's params.cursor (First if not given)
  Limits,      \* what the caller may give as options.maxPages
  Unlimited,   \* ... not given (Python has no such option)
  PageBound    \* a bound of the model on the pages a behaviour asks for

Pages == Cursors \cup {First}

ASSUME PaginationAssumption ==
  /\ First \notin Cursors
  /\ None \notin Cursors \cup {First}
  /\ Lists \subseteq [next : [Pages -> Cursors \cup {None}],
                      size : [Pages -> Nat], start : Pages]
  /\ Limits \subseteq Nat \cup {Unlimited}
  /\ Unlimited \notin Nat
  /\ PageBound \in Nat

VARIABLES
  list,     \* what the server holds
  maxPages, \* what the caller gave
  pc,       \* where the generator is
  cursor,   \* the cursor of the page it is at
  page,     \* its loop counter
  left,     \* items of the page it has not yielded yet
  yielded   \* how many items of each page the consumer got (history)

vars == <<list, maxPages, pc, cursor, page, left, yielded>>

Init ==
  /\ list \in Lists
  /\ maxPages \in Limits
  /\ cursor = list.start
  /\ pc = "new"
  /\ page = 0
  /\ left = 0
  /\ yielded = [c \in Pages |-> 0]

-----------------------------------------------------------------------------
(* Mutant: one page more than maxPages.                                    *)
OnePageMore(n) == maxPages = Unlimited \/ n <= maxPages

(* Mutant: maxPages has no effect.                                         *)
IgnoresMaxPages(n) == n \in Nat

WithinMaxPages(n) == maxPages = Unlimited \/ n < maxPages

(* Mutant: a cursor that repeats is followed.                              *)
FollowsRepeated(c) == list.next[c] # None

(* The page has a next one: its cursor is a non-empty string and is not    *)
(* the cursor that was just used.                                          *)
HasNext(c) == list.next[c] \notin {None, c}

(* The end of the loop body, and its head for the next page.               *)
NextPage ==
  IF HasNext(cursor)
    THEN /\ cursor' = list.next[cursor]
         /\ page' = page + 1
         /\ pc' = IF WithinMaxPages(page + 1) THEN "requesting" ELSE "done"
    ELSE /\ pc' = "done"
         /\ UNCHANGED <<cursor, page>>

(* Mutant: an item is dropped with the one that is yielded.                *)
YieldSkipping(n) ==
  /\ pc' = "yielding"
  /\ left' = n - 2
  /\ yielded' = [yielded EXCEPT ![cursor] = @ + 1]
  /\ UNCHANGED <<list, maxPages, cursor, page>>

(* One item goes to the consumer.                                          *)
Yield(n) ==
  /\ pc' = "yielding"
  /\ left' = n - 1
  /\ yielded' = [yielded EXCEPT ![cursor] = @ + 1]
  /\ UNCHANGED <<list, maxPages, cursor, page>>

(* The consumer asks for the next item.                                    *)
Pull ==
  \/ /\ pc = "new"
     /\ pc' = IF WithinMaxPages(0) THEN "requesting" ELSE "done"
     /\ UNCHANGED <<list, maxPages, cursor, page, left, yielded>>
  \/ /\ pc = "yielding"
     /\ left > 0
     /\ Yield(left)
  \/ /\ pc = "yielding"
     /\ left = 0
     /\ NextPage
     /\ UNCHANGED <<list, maxPages, left, yielded>>

(* The page arrives: its first item is yielded, or it has none.            *)
Arrive ==
  /\ pc = "requesting"
  /\ page < PageBound
  /\ \/ /\ list.size[cursor] > 0
        /\ Yield(list.size[cursor])
     \/ /\ list.size[cursor] = 0
        /\ NextPage
        /\ UNCHANGED <<list, maxPages, left, yielded>>

(* request() throws: the error reaches the consumer through the generator. *)
Error ==
  /\ pc = "requesting"
  /\ pc' = "failed"
  /\ UNCHANGED <<list, maxPages, cursor, page, left, yielded>>

(* The consumer breaks out of its loop.                                    *)
Close ==
  /\ pc \in {"new", "yielding"}
  /\ pc' = "closed"
  /\ UNCHANGED <<list, maxPages, cursor, page, left, yielded>>

Next == Pull \/ Arrive \/ Error \/ Close

Spec == Init /\ [][Next]_vars

(* A consumer that goes on pulling and a server that goes on answering.    *)
FairSpec == Spec /\ WF_vars(Pull) /\ WF_vars(Arrive)

-----------------------------------------------------------------------------
TypeOK ==
  /\ list \in Lists
  /\ maxPages \in Limits
  /\ pc \in {"new", "requesting", "yielding", "done", "failed", "closed"}
  /\ cursor \in Pages
  /\ page \in 0..PageBound
  /\ left \in Nat
  /\ yielded \in [Pages -> Nat]

Successors(S) == {list.next[c] : c \in S} \ {None}

(* Reference: what the links lead to from c, c itself included, whatever   *)
(* the generator does about repeated cursors.                              *)
Reachable(c) ==
  {d \in Pages :
     \A S \in SUBSET Pages : c \in S /\ Successors(S) \subseteq S => d \in S}

(* Reference: the n links from the start, as the pages they join.          *)
Paths(n) ==
  {path \in [0 .. n -> Pages] :
     /\ path[0] = list.start
     /\ \A i \in 1 .. n : path[i] = list.next[path[i - 1]]}

(* The pages of a walk that maxPages does not cut short, or cuts.          *)
WholeWalk == Reachable(list.start)
CutWalk == UNION {{path[n] : path \in Paths(n)} : n \in 0 .. maxPages - 1}
PromisedPages == IF maxPages = Unlimited THEN WholeWalk ELSE CutWalk

(* No page leads back to itself through another page.                      *)
Acyclic ==
  \A c \in Pages :
    list.next[c] \notin {None, c} => c \notin Reachable(list.next[c])

(* client.ts:340-343: on a list without loops no item is yielded twice,    *)
(* also where a page names itself as its next one, and whenever the walk   *)
(* is left or fails.                                                       *)
NoItemTwice == Acyclic => \A c \in Pages : yielded[c] <= list.size[c]

(* client.ts:48-58: when the generator returns by itself, the consumer got *)
(* every item of the first maxPages pages linked from the start, empty     *)
(* pages in between notwithstanding, and nothing else.                     *)
EveryItemOnce ==
  pc = "done" /\ Acyclic =>
    \A c \in Pages :
      yielded[c] = IF c \in PromisedPages THEN list.size[c] ELSE 0

(* The iteration ends on every list without loops, and on every list at    *)
(* all when maxPages is given: also where the server repeats a cursor.     *)
Ends ==
  Acyclic \/ maxPages # Unlimited
    => <>(pc \in {"done", "failed", "closed"})
=============================================================================
