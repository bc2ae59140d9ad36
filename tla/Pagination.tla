------------------------------ MODULE Pagination ------------------------------
(***************************************************************************)
(* scheduled_emails.iter_all: a generator that walks the pages of a         *)
(* listing by the links the server issues, while the collection it lists   *)
(* lives on: emails fall due, are canceled, and are scheduled.             *)
(*                                                                         *)
(* The generator runs only while its consumer pulls; it is suspended at     *)
(* each yield.  The server pages by number (types/responses.py,            *)
(* Pagination): page n is what the n-th PageSize items are when it answers. *)
(***************************************************************************)
EXTENDS Integers, SequencesExt

CONSTANTS
    Items,      \* the scheduled emails that may match the filters
    PageSize,   \* items per page, the server's choice
    StartPages, \* the values of the "page" filter; 1 when left out
    MaxChanges  \* bound: changes of the collection during a walk

ASSUME PageAssumption == PageSize \in Nat \ {0} /\ StartPages \subseteq Nat \ {0}
ASSUME ItemsAssumption == IsFiniteSet(Items)
ASSUME ChangesAssumption == MaxChanges \in Nat

VARIABLES
    collection,  \* the matching items, in the server's order
    changes,     \* number of changes so far
    iter,        \* the generator's frame
    signal,      \* how the consumer's last pull ended, if not with an item
    failed,      \* history: a page request has raised
    yielded,     \* history: the items handed to the consumer, in order
    fetched,     \* history: how many items the pages received held
    kept,        \* history: the items there from the first page on
    moves        \* history: how the collection changed since the first page

vars == <<collection, changes, iter, signal, failed, yielded, fetched, kept, moves>>

\* The link to follow: a page number, or 0 where the step is omitted.
NoLink == 0

Phases == {"created", "fetching", "running", "suspended", "finished"}

TypeOK ==
    /\ collection \in Seq(Items) /\ IsInjective(collection)
    /\ changes \in 0..MaxChanges
    /\ iter \in [ phase : Phases, start : StartPages, target : Nat, data : Seq(Items), pos : Nat, next : Nat ]
    /\ iter.pos <= Len(iter.data)
    /\ signal \in {"none", "stop", "error", "abandoned"}
    /\ failed \in BOOLEAN
    /\ yielded \in Seq(Items)
    /\ fetched \in Nat
    /\ kept \subseteq Items
    /\ moves \subseteq {"left", "inserted", "appended"}

Init ==
    /\ \E S \in SUBSET Items : collection \in SetToSeqs(S)
    /\ changes = 0
    /\ \E page \in StartPages :
          iter = [ phase |-> "created", start |-> page, target |-> NoLink,
                   data |-> << >>, pos |-> 0, next |-> NoLink ]
    /\ signal = "none"
    /\ failed = FALSE
    /\ yielded = << >>
    /\ fetched = 0
    /\ kept = {}
    /\ moves = {}

(***************************************************************************)
(* The server.                                                             *)
(***************************************************************************)
\* A page past the end is empty: items may have left since it was linked.
PageOf(n) ==
    SubSeq(collection, (n - 1) * PageSize + 1,
           IF n * PageSize < Len(collection) THEN n * PageSize ELSE Len(collection))

\* steps.next is omitted on the last page.
LinkAfter(n) == IF n * PageSize < Len(collection) THEN n + 1 ELSE NoLink

(***************************************************************************)
(* The collection.                                                         *)
(***************************************************************************)
\* An item is sent, canceled or no longer matches.
Leaves ==
    /\ changes < MaxChanges
    /\ \E i \in DOMAIN collection :
          /\ collection' = RemoveAt(collection, i)
          /\ kept' = kept \ {collection[i]}
    /\ changes' = changes + 1
    /\ moves' = moves \cup {"left"}
    /\ UNCHANGED <<iter, signal, failed, yielded, fetched>>

\* An item is scheduled, or matches again; where it is listed is the server's choice.
Joins ==
    /\ changes < MaxChanges
    /\ \E item \in Items \ ToSet(collection), i \in 1..(Len(collection) + 1) :
          /\ collection' = InsertAt(collection, i, item)
          /\ moves' = moves \cup {IF i <= Len(collection) THEN "inserted" ELSE "appended"}
    /\ changes' = changes + 1
    /\ UNCHANGED <<iter, signal, failed, yielded, fetched, kept>>

(***************************************************************************)
(* The generator, one page or one item at a time.                          *)
(***************************************************************************)
\* Mutant: the filters of the first page are sent again with every page.
FirstPageAgain == iter.start

\* The request of _next_page_spec: the link in the page at hand.
NextPageSpec == iter.next

\* Mutant: the next page is fetched before the last item is handed out.
WithoutLast == iter.pos >= Len(iter.data) - 1

\* Mutant: an empty page is skipped by a "continue" that leaves it in hand.
EmptyPageInHand == iter.data # << >> /\ iter.pos = Len(iter.data)

\* "yield from page.data" is over.
PageDone == iter.pos = Len(iter.data)

\* The consumer's first pull runs the generator up to its first request.
PullFirst ==
    /\ iter.phase = "created"
    /\ iter' = [iter EXCEPT !.phase = "fetching", !.target = iter.start]
    /\ UNCHANGED <<collection, changes, signal, failed, yielded, fetched, kept, moves>>

\* A later pull resumes it after the yield.
Pull ==
    /\ iter.phase = "suspended"
    /\ iter' = [iter EXCEPT !.phase = "running"]
    /\ UNCHANGED <<collection, changes, signal, failed, yielded, fetched, kept, moves>>

\* The page arrives, as the collection is when the server answers.
Arrive ==
    /\ iter.phase = "fetching"
    /\ iter' = [ iter EXCEPT !.phase = "running", !.data = PageOf(iter.target), !.pos = 0,
                             !.next = LinkAfter(iter.target) ]
    /\ fetched' = fetched + Len(PageOf(iter.target))
    /\ IF iter.next = NoLink  \* the first page
       THEN /\ kept' = ToSet(SubSeq(collection, (iter.start - 1) * PageSize + 1, Len(collection)))
            /\ moves' = {}
       ELSE UNCHANGED <<kept, moves>>
    /\ UNCHANGED <<collection, changes, signal, failed, yielded>>

\* Mutant: the error is caught in the generator, which returns.
FetchFailsQuietly ==
    /\ iter.phase = "fetching"
    /\ iter' = [iter EXCEPT !.phase = "finished"]
    /\ signal' = "stop"
    /\ UNCHANGED <<collection, changes, failed, yielded, fetched, kept, moves>>

\* The page request raises: the exception leaves the generator, which ends.
FetchFails ==
    /\ iter.phase = "fetching"
    /\ iter' = [iter EXCEPT !.phase = "finished"]
    /\ signal' = "error"
    /\ failed' = TRUE
    /\ UNCHANGED <<collection, changes, yielded, fetched, kept, moves>>

\* The consumer catches the error and pulls again: a generator that raised is
\* finished, and the pull ends like that of a walk that came to its end.
PullAgain ==
    /\ signal = "error"
    /\ signal' = "stop"
    /\ UNCHANGED <<collection, changes, iter, failed, yielded, fetched, kept, moves>>

\* Mutant: the position moves on by two.
SkipOne(frame) == [frame EXCEPT !.phase = "suspended", !.pos = @ + 2]

HandOut(frame) == [frame EXCEPT !.phase = "suspended", !.pos = @ + 1]

Yield ==
    /\ iter.phase = "running"
    /\ iter.pos < Len(iter.data)
    /\ yielded' = Append(yielded, iter.data[iter.pos + 1])
    /\ iter' = HandOut(iter)
    /\ UNCHANGED <<collection, changes, signal, failed, fetched, kept, moves>>

FollowLink ==
    /\ iter.phase = "running"
    /\ PageDone
    /\ iter.next # NoLink
    /\ iter' = [iter EXCEPT !.phase = "fetching", !.target = NextPageSpec]
    /\ UNCHANGED <<collection, changes, signal, failed, yielded, fetched, kept, moves>>

\* No link: the generator returns.
Exhaust ==
    /\ iter.phase = "running"
    /\ PageDone
    /\ iter.next = NoLink
    /\ iter' = [iter EXCEPT !.phase = "finished"]
    /\ signal' = "stop"
    /\ UNCHANGED <<collection, changes, failed, yielded, fetched, kept, moves>>

\* The consumer leaves its loop; the generator is closed at its yield.
Abandon ==
    /\ iter.phase \in {"created", "suspended"}
    /\ iter' = [iter EXCEPT !.phase = "finished"]
    /\ signal' = "abandoned"
    /\ UNCHANGED <<collection, changes, failed, yielded, fetched, kept, moves>>

Walk == PullFirst \/ Pull \/ Arrive \/ FetchFails \/ Yield \/ FollowLink \/ Exhaust

Next == Walk \/ PullAgain \/ Abandon \/ Leaves \/ Joins

Spec == Init /\ [][Next]_vars

\* A consumer that keeps pulling until the end, and calls that return
\* (EveryCallReturns of module Client).
FairSpec == Spec /\ WF_vars(Walk)

(***************************************************************************)
(* Properties.                                                             *)
(***************************************************************************)
Offset == (iter.start - 1) * PageSize

(***************************************************************************)
(* iter_all, as long as nothing but new items at the end changes the        *)
(* listing: what the consumer has is the collection in order from the       *)
(* starting page, nothing skipped and nothing twice.                        *)
(***************************************************************************)
WalksInOrder ==
    moves \subseteq {"appended"} =>
        yielded = SubSeq(collection, Offset + 1, Offset + Len(yielded))

(***************************************************************************)
(* "Iterate every scheduled email matching the filters, across all pages":  *)
(* as long as nothing leaves the collection, wherever new items are listed, *)
(* a consumer that comes to the end of a walk and was never told of a       *)
(* failure has every item that was there from the first page on.  The end  *)
(* alone does not say so: pulling on after an error ends the same way.      *)
(***************************************************************************)
NothingMissingUntold ==
    (signal = "stop" /\ ~failed /\ "left" \notin moves) => kept \subseteq ToSet(yielded)

(***************************************************************************)
(* "Each scheduled email, page after page" (iter_all): as long as nothing   *)
(* joins the collection, none is handed out twice, whatever leaves it while *)
(* the walk is between two pages.                                          *)
(***************************************************************************)
NothingTwice == moves \subseteq {"left"} => IsInjective(yielded)

(***************************************************************************)
(* "Pages are fetched lazily ..., so abandoning the iterator early costs   *)
(* nothing": a page is requested only when the consumer has had every item *)
(* of the pages before it, and never after the consumer left.              *)
(***************************************************************************)
FetchesLazily ==
    [][ iter'.phase = "fetching" /\ iter.phase # "fetching" =>
          /\ fetched = Len(yielded)
          /\ signal = "none" ]_vars

(***************************************************************************)
(* The links are followed forward: whatever the collection does meanwhile, *)
(* no page is requested twice in one walk, and none is passed over.        *)
(***************************************************************************)
NeverTurnsBack ==
    [][ iter.phase = "running" /\ iter'.phase = "fetching" =>
          iter'.target = iter.target + 1 ]_vars

(***************************************************************************)
(* iter_all's docstring, for a collection that lives on: every item that   *)
(* stays in the collection during the whole walk is yielded by it.         *)
(***************************************************************************)
EveryMatchIsYielded ==
    signal = "stop" /\ ~failed => kept \subseteq ToSet(yielded)

(***************************************************************************)
(* A walk ends when the collection stops changing: links are followed      *)
(* forward, and no page is walked over and over.                           *)
(***************************************************************************)
WalkEnds == <>(iter.phase = "finished")
==============================================================================
