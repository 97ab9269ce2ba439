------------------------------ MODULE ListsProofs ------------------------------
(***************************************************************************)
(* Proofs about the components of MCLists, for any values of their         *)
(* constants.  The Users page: its commands act on the sessions that were  *)
(* confirmed, its list shows the sessions.  The Networking page: rows,     *)
(* rates and titles are of one adapter.  The process list: rows, order,    *)
(* shares, accounts and the selection are true to the processes.           *)
(***************************************************************************)
EXTENDS MCLists, SequenceTheorems, FiniteSetTheorems, FunctionTheorems, TLAPS

-----------------------------------------------------------------------------
(* The Users page.                                                          *)

\* A command that is about to call has just seen its session's logon, and has
\* every field of a command; what is done to others does not matter.
CommandInv ==
    /\ command = [at |-> command.at, kind |-> command.kind, who |-> command.who,
                  seen |-> command.seen]
    /\ command.at = "call" => command.seen = command.who[1].logon

IInv == CommandInv /\ ActsOnlyOnTheConfirmed

\* A command that is given up or finished is none.
LEMMA NoneIsACommand ==
  ASSUME command' = NoCommand
  PROVE  CommandInv'
  BY DEF CommandInv, NoCommand

\* The steps that leave the command and what was done alone.
LEMMA OtherSteps ==
  ASSUME IInv, UNCHANGED <<command, acts>>
  PROVE  IInv'
  BY DEF IInv, CommandInv, ActsOnlyOnTheConfirmed

\* The validation before a call sees the logon that was asked about.
LEMMA ValidateSees ==
  ASSUME IInv, Validate
  PROVE  IInv'
<1>0. UNCHANGED acts
  BY DEF Validate
<1>1. CASE Current(command.who[1]) /\ command' = [command EXCEPT !.at = "call", !.seen = Seen]
  <2>1. command.who[1].logon = sessions[command.who[1].id]
    <3>1. Identity(command.who[1].id).logon = sessions[command.who[1].id]
      BY DEF Identity
    <3> QED
      BY <1>1, <3>1 DEF Current
  <2>2. command' = [at |-> "call", kind |-> command.kind, who |-> command.who, seen |-> Seen]
    BY <1>1 DEF IInv, CommandInv
  <2>3. CommandInv'
    BY <2>1, <2>2 DEF CommandInv, Seen
  <2> QED
    BY <1>0, <2>3 DEF IInv, ActsOnlyOnTheConfirmed
<1>2. CASE Finish
  BY <1>0, <1>2, NoneIsACommand DEF Finish, IInv, ActsOnlyOnTheConfirmed
<1> QED
  BY <1>1, <1>2 DEF Validate

\* A call is made for the logon that was seen, and the next session is validated
\* before its own.
LEMMA CallMeans ==
  ASSUME IInv, Call
  PROVE  IInv'
<1> DEFINE act == [kind |-> command.kind, meant |-> command.who[1], seen |-> command.seen]
<1>1. acts' = acts \/ acts' = acts \union {act}
  BY DEF Call
<1>2. act.seen = act.meant.logon
  BY DEF Call, IInv, CommandInv
<1>3. ActsOnlyOnTheConfirmed'
  BY <1>1, <1>2 DEF IInv, ActsOnlyOnTheConfirmed
<1>4. CASE command' = [command EXCEPT !.at = "validate", !.who = Tail(@), !.seen = 0]
  <2>1. command' = [at |-> "validate", kind |-> command.kind, who |-> Tail(command.who),
                    seen |-> 0]
    BY <1>4 DEF IInv, CommandInv
  <2> QED
    BY <1>3, <2>1 DEF IInv, CommandInv
<1>5. CASE Finish
  BY <1>3, <1>5, NoneIsACommand DEF Finish, IInv
<1> QED
  BY <1>4, <1>5 DEF Call

\* Between the confirmation and the calls nothing is called.
LEMMA DialogAsks ==
  ASSUME IInv, Ask \/ Cancel \/ Confirm
  PROVE  IInv'
<1>0. UNCHANGED acts
  BY DEF Ask, Cancel, Confirm
<1>1. CASE Ask
  <2>1. PICK kind \in {"message", "disconnect", "logoff"} : \E who :
          command' = [NoCommand EXCEPT !.at = "asking", !.kind = kind, !.who = who]
    BY <1>1 DEF Ask
  <2>2. command'.at = "asking" /\ CommandInv'
    BY <2>1 DEF NoCommand, CommandInv
  <2> QED
    BY SMTT(60), <1>0, <2>2 DEF IInv, ActsOnlyOnTheConfirmed
<1>2. CASE Cancel
  BY <1>0, <1>2, NoneIsACommand DEF Cancel, IInv, ActsOnlyOnTheConfirmed
<1>3. CASE Confirm
  <2>1. CASE command' = [command EXCEPT !.at = "validate"]
    <3>1. command' = [at |-> "validate", kind |-> command.kind, who |-> command.who,
                      seen |-> command.seen]
      BY <2>1 DEF IInv, CommandInv
    <3> QED
      BY <1>0, <3>1 DEF IInv, CommandInv, ActsOnlyOnTheConfirmed
  <2>2. CASE command' = NoCommand
    BY <1>0, <2>2, NoneIsACommand DEF IInv, ActsOnlyOnTheConfirmed
  <2> QED
    BY <1>3, <2>1, <2>2 DEF Confirm
<1> QED
  BY <1>1, <1>2, <1>3

\* A session is disconnected, logged off or sent a message only if the last look
\* at it found the logon the user confirmed (validate_session_identity,
\* change_session_state, send_message).
THEOREM ConfirmedOnly == Spec => []ActsOnlyOnTheConfirmed
<1>1. Init => IInv
  BY DEF Init, IInv, CommandInv, ActsOnlyOnTheConfirmed, NoCommand
<1>2. IInv /\ [Next]_vars => IInv'
  <2> SUFFICES ASSUME IInv, [Next]_vars PROVE IInv'
    OBVIOUS
  <2>1. CASE SessionChanges
    BY SMTT(60), <2>1, OtherSteps DEF SessionChanges
  <2>2. CASE Collect
    BY <2>2, OtherSteps DEF Collect
  <2>3. CASE Complete
    BY <2>3, OtherSteps DEF Complete
  <2>4. CASE TimerEvent
    BY <2>4, OtherSteps DEF TimerEvent
  <2>5. CASE SelectRows
    BY <2>5, OtherSteps DEF SelectRows
  <2>6. CASE ColumnClick
    BY <2>6, OtherSteps DEF ColumnClick
  <2>7. CASE ShowDomainNames
    BY <2>7, OtherSteps DEF ShowDomainNames
  <2>8. CASE UNCHANGED vars
    BY <2>8, OtherSteps DEF vars
  <2> QED
    BY <2>1, <2>2, <2>3, <2>4, <2>5, <2>6, <2>7, <2>8, DialogAsks, ValidateSees, CallMeans
    DEF Next
<1>3. IInv => ActsOnlyOnTheConfirmed
  BY DEF IInv
<1> QED
  BY <1>1, <1>2, <1>3, PTL DEF Spec

-----------------------------------------------------------------------------
(* Elements of a finite set by their place in an order.                     *)

\* The place of an element of a set in an order: how many elements are before it.
Place(S, R, x) == Cardinality({y \in S : <<y, x>> \in R})

\* A relation, a set of pairs, is a strict total order of a set.
Orders(R, S) ==
    /\ \A x, y \in S : x = y \/ <<x, y>> \in R \/ <<y, x>> \in R
    /\ \A x \in S : <<x, x>> \notin R
    /\ \A x, y, z \in S : <<x, y>> \in R /\ <<y, z>> \in R => <<x, z>> \in R

\* A sequence has at each index the element with that place, if there is one.
Enumerates(f, S, R) ==
    /\ f = [i \in 1..Cardinality(S) |-> f[i]]
    /\ \A i \in 1..Cardinality(S) :
         (\E x \in S : Place(S, R, x) = i - 1) => f[i] \in S /\ Place(S, R, f[i]) = i - 1

\* In a strict total order of a finite set a place is below the set's size, and a
\* later element has a higher one.
LEMMA PlacesRise ==
  ASSUME NEW S, IsFiniteSet(S), NEW R, Orders(R, S)
  PROVE  /\ Cardinality(S) \in Nat
         /\ \A x \in S : Place(S, R, x) \in Nat /\ Place(S, R, x) + 1 <= Cardinality(S)
         /\ \A x, z \in S : <<x, z>> \in R => Place(S, R, x) < Place(S, R, z)
<1> DEFINE Before(x) == {y \in S : <<y, x>> \in R}
           n == Cardinality(S)
<1>0. /\ \A x, y \in S : x = y \/ <<x, y>> \in R \/ <<y, x>> \in R
      /\ \A x \in S : <<x, x>> \notin R
      /\ \A x, y, z \in S : <<x, y>> \in R /\ <<y, z>> \in R => <<x, z>> \in R
  BY DEF Orders
<1>1. n \in Nat
  BY FS_CardinalityType
<1>2. \A x \in S : IsFiniteSet(Before(x)) /\ Cardinality(Before(x)) \in Nat
  <2> TAKE x \in S
  <2>1. Before(x) \in SUBSET S
    OBVIOUS
  <2> HIDE DEF Before
  <2> QED
    BY <2>1, FS_Subset, FS_CardinalityType
<1>3. ASSUME NEW x \in S
      PROVE  Cardinality(Before(x)) + 1 <= n
  <2>1. Before(x) \in SUBSET (S \ {x})
    BY <1>0
  <2>2. IsFiniteSet(S \ {x}) /\ Cardinality(S \ {x}) = n - 1
    BY FS_RemoveElement
  <2> HIDE DEF Before
  <2>3. Cardinality(Before(x)) <= Cardinality(S \ {x})
    BY <2>1, <2>2, FS_Subset
  <2> HIDE DEF n
  <2> QED
    BY <1>1, <1>2, <2>2, <2>3
<1>4. ASSUME NEW x \in S, NEW z \in S, <<x, z>> \in R
      PROVE  Cardinality(Before(x)) < Cardinality(Before(z))
  <2>1. Before(x) \union {x} \in SUBSET Before(z) /\ x \notin Before(x)
    BY <1>0, <1>4
  <2> HIDE DEF Before
  <2>2. IsFiniteSet(Before(x) \union {x})
        /\ Cardinality(Before(x) \union {x}) = Cardinality(Before(x)) + 1
    BY <1>2, <2>1, FS_AddElement
  <2>3. Cardinality(Before(x) \union {x}) <= Cardinality(Before(z))
    BY <1>2, <2>1, FS_Subset
  <2> QED
    BY <1>2, <2>2, <2>3
<1> QED
  BY <1>1, <1>2, <1>3, <1>4 DEF Place

\* In such an order every element has a place of its own, and every place is
\* taken.
LEMMA Ranked ==
  ASSUME NEW S, IsFiniteSet(S), NEW R, Orders(R, S)
  PROVE  /\ Cardinality(S) \in Nat
         /\ \A i \in 1..Cardinality(S) :
              \E x \in S : Place(S, R, x) = i - 1
         /\ \A x, z \in S : Place(S, R, x) = Place(S, R, z) => x = z
<1> DEFINE n == Cardinality(S)
           f == [x \in S |-> Place(S, R, x) + 1]
<1>1. /\ n \in Nat
      /\ \A x \in S : Place(S, R, x) \in Nat /\ Place(S, R, x) + 1 <= n
      /\ \A x, z \in S : <<x, z>> \in R => Place(S, R, x) < Place(S, R, z)
  BY PlacesRise
<1>2. ASSUME NEW x \in S, NEW z \in S, Place(S, R, x) = Place(S, R, z)
      PROVE  x = z
  <2>1. <<x, z>> \notin R /\ <<z, x>> \notin R
    BY <1>1, <1>2
  <2> QED
    BY <2>1 DEF Orders
<1>3. f \in Injection(S, 1..n)
  <2> HIDE DEF n
  <2>1. f \in [S -> 1..n]
    BY <1>1
  <2>2. ASSUME NEW x \in S, NEW z \in S, f[x] = f[z]
        PROVE  x = z
    <3>1. Place(S, R, x) + 1 = Place(S, R, z) + 1
      BY <2>2
    <3>2. Place(S, R, x) = Place(S, R, z)
      BY <1>1, <3>1
    <3> QED
      BY <1>2, <3>2
  <2> QED
    BY <2>1, <2>2, Fun_IsInj
<1>4. IsFiniteSet(1..n) /\ Cardinality(1..n) = n
  <2> HIDE DEF n
  <2> QED
    BY <1>1, FS_Interval
<1>5. f \in Surjection(S, 1..n)
  BY <1>3, <1>4, FS_Injection
<1>6. ASSUME NEW i \in 1..n
      PROVE  \E x \in S : Place(S, R, x) = i - 1
  <2>1. PICK x \in S : f[x] = i
    BY <1>5 DEF Surjection
  <2>2. Place(S, R, x) + 1 = i
    BY <2>1
  <2> HIDE DEF n, f
  <2> QED
    BY <1>1, <2>2
<1> QED
  BY <1>1, <1>2, <1>6

-----------------------------------------------------------------------------
(* What the Users page shows.                                               *)

\* An entry of the page has a session ID and comparable texts.
Fit(e) ==
    /\ e = [who |-> e.who, name |-> e.name, status |-> e.status, dirty |-> e.dirty]
    /\ e.who.id \in Ids /\ e.who.user \in Int /\ e.name \in Int

\* A sequence of entries, of a session ID each.
FitEntries(es) ==
    /\ Len(es) \in Nat /\ es = [i \in 1..Len(es) |-> es[i]]
    /\ \A i \in 1..Len(es) : Fit(es[i])
    /\ \A i, j \in 1..Len(es) : es[i].who.id = es[j].who.id => i = j

\* The page's fields, and its entries.
FitPage(p) ==
    /\ p = [entries |-> p.entries, domains |-> p.domains, column |-> p.column,
            ascending |-> p.ascending, selected |-> p.selected, list |-> p.list,
            marked |-> p.marked, buttons |-> p.buttons]
    /\ p.column \in {"name", "id", "status"}
    /\ FitEntries(p.entries)

\* The list shows the entries.
Shown(p) == p.list = [i \in 1..Len(p.entries) |-> RowOf(p.entries[i])]

\* What the page promises, and that only rows there are selected.
Screen(p) ==
    /\ FitPage(p) /\ Shown(p)
    /\ p.marked \subseteq 1..Len(p.entries) /\ p.buttons = ButtonsFor(p)

\* A collection has a row for each session ID at most.
FitRows(rows) ==
    /\ \A r \in rows : r.who.id \in Ids /\ r.who.user \in Int
    /\ \A r, s \in rows : r.who.id = s.who.id => r = s

SessionsInv ==
    /\ sessions \in [Ids -> Logons \union {0}]
    /\ worker = [at |-> worker.at, rows |-> worker.rows, ok |-> worker.ok,
                 queued |-> worker.queued]
    /\ FitRows(worker.rows)

\* A function on 1..n is a sequence of length n.
LEMMA FunctionIsSequence ==
  ASSUME NEW n \in Nat, NEW f, f = [i \in 1..n |-> f[i]]
  PROVE  /\ Len(f) = n /\ DOMAIN f = 1..n
         /\ \A S : (\A i \in 1..n : f[i] \in S) => f \in Seq(S)
<1>1. \A S : (\A i \in 1..n : f[i] \in S) => f \in Seq(S)
  <2> TAKE S
  <2> HAVE \A i \in 1..n : f[i] \in S
  <2>1. f \in [1..n -> S]
    OBVIOUS
  <2> QED
    BY <2>1, SeqDef
<1>2. f \in Seq({f[i] : i \in 1..n})
  BY <1>1
<1>3. DOMAIN f = 1..n
  OBVIOUS
<1>4. Len(f) \in Nat /\ DOMAIN f = 1..Len(f)
  BY <1>2, LenProperties
<1> QED
  BY <1>1, <1>3, <1>4

\* The buttons depend on the entries, the rows and the selected ones.
LEMMA ButtonsAgree ==
  ASSUME NEW p, NEW q, p.entries = q.entries, p.list = q.list, p.marked = q.marked
  PROVE  ButtonsFor(p) = ButtonsFor(q)
<1>1. \A id : EntryOf(p, id) = EntryOf(q, id)
  BY DEF EntryOf
<1>2. Selected(p) = Selected(q)
  BY <1>1 DEF Selected
<1> QED
  BY <1>2 DEF ButtonsFor

-----------------------------------------------------------------------------
(* Sorting.                                                                 *)

\* compare_user_sessions is a strict order of entries with IDs of their own.
LEMMA PrecedesIsAnOrder ==
  ASSUME NEW p, p.column \in {"name", "id", "status"}, NEW es, \A e \in es : Fit(e),
         \A e, f \in es : e.who.id = f.who.id => e = f
  PROVE  /\ \A e, f \in es : e = f \/ Precedes(e, f, p) \/ Precedes(f, e, p)
         /\ \A e \in es : ~Precedes(e, e, p)
         /\ \A e, f, g \in es : Precedes(e, f, p) /\ Precedes(f, g, p) => Precedes(e, g, p)
<1> DEFINE less(e, f) == \/ Key(e, p.column) < Key(f, p.column)
                         \/ Key(e, p.column) = Key(f, p.column) /\ e.who.id < f.who.id
<1>1. \A e \in es : Key(e, p.column) \in Int /\ e.who.id \in Int
  BY UsersAssumption DEF Key, Fit
<1>2. /\ \A e, f \in es : e = f \/ less(e, f) \/ less(f, e)
      /\ \A e \in es : ~less(e, e)
      /\ \A e, f, g \in es : less(e, f) /\ less(f, g) => less(e, g)
  <2>1. \A e, f \in es : e = f \/ less(e, f) \/ less(f, e)
    BY <1>1
  <2>2. \A e \in es : ~less(e, e)
    BY <1>1
  <2>3. \A e, f, g \in es : less(e, f) /\ less(f, g) => less(e, g)
    BY <1>1
  <2> QED
    BY <2>1, <2>2, <2>3
<1>3. \A e, f : Precedes(e, f, p) <=> IF p.ascending THEN less(e, f) ELSE e # f /\ ~less(e, f)
  BY DEF Precedes
<1> HIDE DEF less
<1>4. CASE p.ascending
  BY <1>2, <1>3, <1>4
<1>5. CASE ~p.ascending
  <2>1. \A e, f \in es : Precedes(e, f, p) <=> less(f, e)
    BY <1>2, <1>3, <1>5
  <2> QED
    BY <1>2, <2>1
<1> QED
  BY <1>4, <1>5

\* The elements of a finite set in the order of a relation.
LEMMA Enumerated ==
  ASSUME NEW S, IsFiniteSet(S), NEW R, Orders(R, S), NEW f, Enumerates(f, S, R)
  PROVE  /\ Cardinality(S) \in Nat /\ Len(f) = Cardinality(S)
         /\ f = [i \in 1..Cardinality(S) |-> f[i]]
         /\ \A i \in 1..Cardinality(S) : f[i] \in S
         /\ \A i, j \in 1..Cardinality(S) : f[i] = f[j] => i = j
<1> DEFINE n == Cardinality(S)
<1>1. n \in Nat /\ \A i \in 1..n : \E x \in S : Place(S, R, x) = i - 1
  BY Ranked
<1>3. /\ f = [i \in 1..n |-> f[i]]
      /\ \A i \in 1..n : (\E x \in S : Place(S, R, x) = i - 1)
                         => f[i] \in S /\ Place(S, R, f[i]) = i - 1
  BY DEF Enumerates
<1> HIDE DEF n
<1>4. \A i \in 1..n : f[i] \in S /\ Place(S, R, f[i]) = i - 1
  BY <1>1, <1>3
<1>5. \A i, j \in 1..n : f[i] = f[j] => i = j
  <2> TAKE i, j \in 1..n
  <2> HAVE f[i] = f[j]
  <2>1. i - 1 = j - 1
    BY <1>4
  <2> QED
    BY <1>1, <2>1
<1>6. Len(f) = n
  BY <1>1, <1>3, FunctionIsSequence
<1> QED
  BY <1>1, <1>3, <1>4, <1>5, <1>6 DEF n

\* A page with a field changed.
LEMMA PageExcept ==
  ASSUME NEW p, FitPage(p), NEW v
  PROVE
    /\ [p EXCEPT !.entries = v] = [entries |-> v, domains |-> p.domains, column |-> p.column, ascending |-> p.ascending,
                                   selected |-> p.selected, list |-> p.list, marked |-> p.marked, buttons |-> p.buttons]
    /\ [p EXCEPT !.list = v] = [entries |-> p.entries, domains |-> p.domains, column |-> p.column, ascending |-> p.ascending,
                                selected |-> p.selected, list |-> v, marked |-> p.marked, buttons |-> p.buttons]
    /\ [p EXCEPT !.marked = v] = [entries |-> p.entries, domains |-> p.domains, column |-> p.column, ascending |-> p.ascending,
                                  selected |-> p.selected, list |-> p.list, marked |-> v, buttons |-> p.buttons]
    /\ [p EXCEPT !.selected = v] = [entries |-> p.entries, domains |-> p.domains, column |-> p.column, ascending |-> p.ascending,
                                    selected |-> v, list |-> p.list, marked |-> p.marked, buttons |-> p.buttons]
    /\ [p EXCEPT !.buttons = v] = [entries |-> p.entries, domains |-> p.domains, column |-> p.column, ascending |-> p.ascending,
                                   selected |-> p.selected, list |-> p.list, marked |-> p.marked, buttons |-> v]
  BY DEF FitPage

\* A page with its marks, rows, selection or buttons changed is a page.
LEMMA Selecting ==
  ASSUME NEW p, FitPage(p), NEW v, NEW q, q = [p EXCEPT !.selected = v]
  PROVE  /\ FitPage(q) /\ q.entries = p.entries /\ q.list = p.list
         /\ q.marked = p.marked /\ q.buttons = p.buttons /\ q.selected = v
<1>1. q = [entries |-> p.entries, domains |-> p.domains, column |-> p.column,
           ascending |-> p.ascending, selected |-> v, list |-> p.list,
           marked |-> p.marked, buttons |-> p.buttons]
  BY PageExcept
<1>2. /\ q.entries = p.entries /\ q.domains = p.domains /\ q.column = p.column
      /\ q.ascending = p.ascending /\ q.selected = v
      /\ q.list = p.list /\ q.marked = p.marked /\ q.buttons = p.buttons
  BY <1>1
<1> QED
  BY <1>1, <1>2 DEF FitPage

LEMMA Enabling ==
  ASSUME NEW p, FitPage(p), NEW v, NEW q, q = [p EXCEPT !.buttons = v]
  PROVE  /\ FitPage(q) /\ q.entries = p.entries /\ q.list = p.list
         /\ q.marked = p.marked /\ q.buttons = v /\ q.selected = p.selected
<1>1. q = [entries |-> p.entries, domains |-> p.domains, column |-> p.column,
           ascending |-> p.ascending, selected |-> p.selected, list |-> p.list,
           marked |-> p.marked, buttons |-> v]
  BY PageExcept
<1>2. /\ q.entries = p.entries /\ q.domains = p.domains /\ q.column = p.column
      /\ q.ascending = p.ascending /\ q.selected = p.selected
      /\ q.list = p.list /\ q.marked = p.marked /\ q.buttons = v
  BY <1>1
<1> QED
  BY <1>1, <1>2 DEF FitPage

LEMMA Listing ==
  ASSUME NEW p, FitPage(p), NEW v, NEW q, q = [p EXCEPT !.list = v]
  PROVE  /\ FitPage(q) /\ q.entries = p.entries /\ q.list = v
         /\ q.marked = p.marked /\ q.buttons = p.buttons /\ q.selected = p.selected
<1>1. q = [entries |-> p.entries, domains |-> p.domains, column |-> p.column,
           ascending |-> p.ascending, selected |-> p.selected, list |-> v,
           marked |-> p.marked, buttons |-> p.buttons]
  BY PageExcept
<1>2. /\ q.entries = p.entries /\ q.domains = p.domains /\ q.column = p.column
      /\ q.ascending = p.ascending /\ q.selected = p.selected
      /\ q.list = v /\ q.marked = p.marked /\ q.buttons = p.buttons
  BY <1>1
<1> QED
  BY <1>1, <1>2 DEF FitPage

LEMMA Marking ==
  ASSUME NEW p, FitPage(p), NEW v, NEW q, q = [p EXCEPT !.marked = v]
  PROVE  /\ FitPage(q) /\ q.entries = p.entries /\ q.list = p.list
         /\ q.marked = v /\ q.buttons = p.buttons /\ q.selected = p.selected
<1>1. q = [entries |-> p.entries, domains |-> p.domains, column |-> p.column,
           ascending |-> p.ascending, selected |-> p.selected, list |-> p.list,
           marked |-> v, buttons |-> p.buttons]
  BY PageExcept
<1>2. /\ q.entries = p.entries /\ q.domains = p.domains /\ q.column = p.column
      /\ q.ascending = p.ascending /\ q.selected = p.selected
      /\ q.list = p.list /\ q.marked = v /\ q.buttons = p.buttons
  BY <1>1
<1> QED
  BY <1>1, <1>2 DEF FitPage

\* What is reported of a selection is a page with the buttons that fit it.
LEMMA ItemChangedPage ==
  ASSUME NEW p, FitPage(p), NEW q, q \in {ItemChanged(p), UiState(p)}
  PROVE  /\ FitPage(q) /\ q.entries = p.entries /\ q.list = p.list /\ q.marked = p.marked
         /\ q.buttons = ButtonsFor(q)
<1>1. ASSUME NEW r, FitPage(r)
      PROVE  /\ FitPage(UiState(r)) /\ UiState(r).entries = r.entries
             /\ UiState(r).list = r.list /\ UiState(r).marked = r.marked
             /\ UiState(r).buttons = ButtonsFor(UiState(r))
  <2>1. /\ FitPage(UiState(r)) /\ UiState(r).entries = r.entries
        /\ UiState(r).list = r.list /\ UiState(r).marked = r.marked
        /\ UiState(r).buttons = ButtonsFor(r)
    <3> DEFINE b == ButtonsFor(r)
    <3>1. UiState(r) = [r EXCEPT !.buttons = b]
      BY DEF UiState
    <3> HIDE DEF b
    <3>2. /\ FitPage(UiState(r)) /\ UiState(r).buttons = b
          /\ UiState(r).entries = r.entries /\ UiState(r).list = r.list
          /\ UiState(r).marked = r.marked
      BY <1>1, <3>1, Enabling
    <3> QED
      BY <3>1, <3>2 DEF b
  <2>2. ButtonsFor(UiState(r)) = ButtonsFor(r)
    BY <2>1, ButtonsAgree
  <2> QED
    BY <2>1, <2>2
<1>2. CASE q = UiState(p)
  BY <1>1, <1>2
<1>3. CASE q = ItemChanged(p)
  <2> DEFINE r == [p EXCEPT !.selected = FirstSelected(p)]
  <2>1. /\ FitPage(r) /\ r.entries = p.entries /\ r.list = p.list /\ r.marked = p.marked
    BY Selecting
  <2>2. q = UiState(r)
    BY <1>3 DEF ItemChanged
  <2> HIDE DEF r
  <2> QED
    BY <1>1, <2>1, <2>2
<1> QED
  BY <1>2, <1>3

\* sort_sessions: the same entries, in another order.
LEMMA SortedPage ==
  ASSUME NEW p, FitPage(p)
  PROVE  /\ FitPage(Sorted(p)) /\ Len(Sorted(p).entries) = Len(p.entries)
         /\ Sorted(p).list = p.list /\ Sorted(p).marked = p.marked
         /\ Sorted(p).buttons = p.buttons
         /\ \A i \in 1..Len(p.entries) : \E k \in 1..Len(p.entries) :
              Sorted(p).entries[i] = p.entries[k]
<1> DEFINE n == Len(p.entries)
           es == {p.entries[i] : i \in DOMAIN p.entries}
           R == {pr \in es \X es : Precedes(pr[1], pr[2], p)}
           f == [i \in DOMAIN p.entries |->
                   CHOOSE e \in es : Cardinality({g \in es : Precedes(g, e, p)}) = i - 1]
<1>1. /\ n \in Nat /\ DOMAIN p.entries = 1..n /\ \A i \in 1..n : Fit(p.entries[i])
      /\ \A i, j \in 1..n : p.entries[i].who.id = p.entries[j].who.id => i = j
  BY DEF FitPage, FitEntries
<1>2. IsFiniteSet(es) /\ Cardinality(es) = n
  <2> DEFINE b == [i \in 1..n |-> p.entries[i]]
  <2>1. b \in Bijection(1..n, es)
    <3>1. b \in [1..n -> es] /\ \A t \in es : \E i \in 1..n : b[i] = t
      BY <1>1
    <3>2. \A i, j \in 1..n : b[i] = b[j] => i = j
      BY <1>1
    <3> HIDE DEF b, es, n
    <3> QED
      BY <3>1, <3>2, Fun_IsInj, Fun_IsSurj DEF Bijection
  <2>2. ExistsBijection(1..n, es)
    BY <2>1 DEF ExistsBijection
  <2> HIDE DEF b, es, n
  <2>3. IsFiniteSet(1..n) /\ Cardinality(1..n) = n
    BY <1>1, FS_Interval
  <2> QED
    BY <2>2, <2>3, FS_Bijection
<1>3. /\ \A e \in es : Fit(e)
      /\ \A e, g \in es : e.who.id = g.who.id => e = g
  BY <1>1
<1>4. /\ \A e, g \in es : e = g \/ Precedes(e, g, p) \/ Precedes(g, e, p)
      /\ \A e \in es : ~Precedes(e, e, p)
      /\ \A e, g, h \in es : Precedes(e, g, p) /\ Precedes(g, h, p) => Precedes(e, h, p)
  <2>1. p.column \in {"name", "id", "status"}
    BY DEF FitPage
  <2> HIDE DEF es
  <2> QED
    BY <1>3, <2>1, PrecedesIsAnOrder
<1>5. \A e, g \in es : <<e, g>> \in R <=> Precedes(e, g, p)
  <2> HIDE DEF es
  <2> QED
    OBVIOUS
<1>6. Orders(R, es)
  <2> HIDE DEF es, R
  <2> QED
    BY <1>4, <1>5 DEF Orders
<1>7. \A e \in es : Cardinality({g \in es : Precedes(g, e, p)}) = Place(es, R, e)
  <2> HIDE DEF es, R
  <2>1. \A e \in es : {g \in es : Precedes(g, e, p)} = {g \in es : <<g, e>> \in R}
    BY <1>5
  <2> QED
    BY <2>1 DEF Place
<1>8. /\ DOMAIN f = 1..n /\ f = [i \in 1..n |-> f[i]]
      /\ \A i \in 1..n :
           (\E x \in es : Place(es, R, x) = i - 1)
             => f[i] \in es /\ Place(es, R, f[i]) = i - 1
  <2>1. DOMAIN f = 1..n
    BY <1>1
  <2>2. f = [i \in 1..n |-> f[i]]
    <3> DEFINE choice(i) == CHOOSE e \in es : Cardinality({g \in es : Precedes(g, e, p)}) = i - 1
    <3>1. f = [i \in DOMAIN p.entries |-> choice(i)]
      OBVIOUS
    <3> HIDE DEF f, choice, n
    <3> QED
      BY <1>1, <3>1
  <2>3. ASSUME NEW i \in 1..n, \E x \in es : Place(es, R, x) = i - 1
        PROVE  f[i] \in es /\ Place(es, R, f[i]) = i - 1
    <3> DEFINE low(e) == Cardinality({g \in es : Precedes(g, e, p)})
    <3>1. f[i] = CHOOSE e \in es : low(e) = i - 1
      BY <1>1
    <3>2. \E e \in es : low(e) = i - 1
      <4> HIDE DEF es, R
      <4> QED
        BY <1>7, <2>3
    <3>3. f[i] \in es /\ low(f[i]) = i - 1
      <4> HIDE DEF es, low, f
      <4> QED
        BY <3>1, <3>2
    <3> HIDE DEF es, R, f
    <3> QED
      BY <1>7, <3>3
  <2> QED
    BY <2>1, <2>2, <2>3
<1>9. /\ Len(f) = n /\ \A i \in 1..n : f[i] \in es
      /\ \A i, j \in 1..n : f[i] = f[j] => i = j
  <2> HIDE DEF es, R, f, n
  <2>1. Enumerates(f, es, R)
    BY <1>2, <1>8 DEF Enumerates
  <2>2. /\ Len(f) = Cardinality(es) /\ \A i \in 1..Cardinality(es) : f[i] \in es
        /\ \A i, j \in 1..Cardinality(es) : f[i] = f[j] => i = j
    BY <1>2, <1>6, <2>1, Enumerated
  <2> QED
    BY <1>2, <2>2
<1>10. FitEntries(f)
  <2>1. \A i, j \in 1..n : f[i].who.id = f[j].who.id => i = j
    <3> HIDE DEF es, f, n
    <3> QED
      BY <1>3, <1>9
  <2>2. \A i \in 1..n : Fit(f[i])
    <3> HIDE DEF es, f, n
    <3> QED
      BY <1>3, <1>9
  <2> HIDE DEF es, f, n
  <2> QED
    BY <1>1, <1>8, <1>9, <2>1, <2>2 DEF FitEntries
<1>11. \A i \in 1..n : \E k \in 1..n : f[i] = p.entries[k]
  <2>1. \A e \in es : \E k \in 1..n : e = p.entries[k]
    BY <1>1
  <2> HIDE DEF es, f, n
  <2> QED
    BY <1>9, <2>1
<1> DEFINE q == Sorted(p)
<1>12. q = [entries |-> f, domains |-> p.domains, column |-> p.column, ascending |-> p.ascending,
            selected |-> p.selected, list |-> p.list, marked |-> p.marked, buttons |-> p.buttons]
  <2>1. q = [p EXCEPT !.entries = f]
    BY DEF Sorted
  <2> HIDE DEF q, f
  <2> QED
    BY <2>1, PageExcept
<1> HIDE DEF q, f, es, R
<1>13. /\ q.entries = f /\ q.domains = p.domains /\ q.column = p.column
       /\ q.ascending = p.ascending /\ q.selected = p.selected
       /\ q.list = p.list /\ q.marked = p.marked /\ q.buttons = p.buttons
  BY <1>12
<1>14. FitPage(q)
  BY <1>10, <1>12, <1>13 DEF FitPage
<1> QED
  BY <1>9, <1>11, <1>13, <1>14 DEF q

-----------------------------------------------------------------------------
(* The list.                                                                *)

\* A row that would be kept, its ID being that of its entry and the entry not
\* being dirty, shows the entry.
KeptIsRight(p) ==
    \A i \in 1..Len(p.entries) :
      (i \in DOMAIN p.list /\ p.list[i].id = p.entries[i].who.id /\ ~p.entries[i].dirty)
        => p.list[i] = RowOf(p.entries[i])

\* An entry that is not dirty is already in the list, somewhere, and the list has
\* no ID twice.
CleanIsListed(p) ==
    /\ \A i \in 1..Len(p.entries) :
         ~p.entries[i].dirty => \E k \in DOMAIN p.list : p.list[k] = RowOf(p.entries[i])
    /\ \A i, j \in DOMAIN p.list : p.list[i].id = p.list[j].id => i = j

\* update_listview shows the entries.
LEMMA Rewriting ==
  ASSUME NEW p, FitPage(p), KeptIsRight(p), NEW q, q = UpdateListview(p)
  PROVE  /\ FitPage(q) /\ Shown(q) /\ q.entries = p.entries
         /\ q.marked = p.marked \intersect (1..Len(p.entries))
         /\ (Len(p.list) = Len(p.entries) /\ p.marked \subseteq 1..Len(p.entries)) =>
              \/ q.buttons = ButtonsFor(q)
              \/ /\ q.buttons = p.buttons
                 /\ \A i \in (1..Len(p.entries)) \intersect DOMAIN p.list :
                      p.entries[i].who.id = p.list[i].id
<1> DEFINE n == Len(p.entries)
           kept(i) == i \in DOMAIN p.list /\ p.list[i].id = p.entries[i].who.id /\ ~p.entries[i].dirty
           rows == [i \in 1..n |-> IF kept(i) THEN p.list[i] ELSE RowOf(p.entries[i])]
           changed == \E i \in (1..n) \intersect DOMAIN p.list :
                        <<rows[i].id, rows[i].name>> # <<p.list[i].id, p.list[i].name>>
           after == rows \o SubSeq(p.list, n + 1, Len(p.list))
           before == [p EXCEPT !.list = after]
           reported == IF changed THEN ItemChanged(before) ELSE p
<1>1. rows = [i \in 1..n |-> RowOf(p.entries[i])]
  <2>1. \A i \in 1..n : (IF kept(i) THEN p.list[i] ELSE RowOf(p.entries[i])) = RowOf(p.entries[i])
    BY SMTT(60) DEF KeptIsRight
  <2> HIDE DEF kept, n
  <2> QED
    BY <2>1
<1>2. q = [reported EXCEPT !.list = rows, !.marked = @ \intersect (1..n)]
  BY DEF UpdateListview
<1>c. ~changed => \A i \in (1..n) \intersect DOMAIN p.list : rows[i].id = p.list[i].id
  <2> HIDE DEF rows
  <2> QED
    OBVIOUS
<1> HIDE DEF rows, changed, kept
<1>3. /\ FitPage(before) /\ before.entries = p.entries /\ before.marked = p.marked
      /\ before.list = after
  <2> HIDE DEF after
  <2> QED
    BY Listing
<1>4. /\ FitPage(reported) /\ reported.entries = p.entries /\ reported.marked = p.marked
      /\ changed => reported.buttons = ButtonsFor(reported) /\ reported.list = after
      /\ ~changed => reported = p
  <2> HIDE DEF before, after
  <2> QED
    BY <1>3, ItemChangedPage
<1> DEFINE listed == [reported EXCEPT !.list = rows]
           some == reported.marked \intersect (1..n)
<1>5. q = [listed EXCEPT !.marked = some]
  <2>1. listed.marked = reported.marked /\ FitPage(listed)
    <3> HIDE DEF reported, n
    <3> QED
      BY <1>4, Listing
  <2>2. q = [listed EXCEPT !.marked = @ \intersect (1..n)]
    BY <1>2
  <2> HIDE DEF reported, listed
  <2> QED
    BY <2>1, <2>2
<1>6. /\ FitPage(listed) /\ listed.entries = p.entries /\ listed.list = rows
      /\ listed.buttons = reported.buttons
  <2> HIDE DEF reported, n
  <2> QED
    BY <1>4, Listing
<1>7. /\ FitPage(q) /\ q.entries = p.entries /\ q.list = rows /\ q.marked = some
      /\ q.buttons = reported.buttons
  <2> HIDE DEF listed, some, n
  <2> QED
    BY <1>5, <1>6, Marking
<1>8. some = p.marked \intersect (1..n)
  <2> HIDE DEF reported, n
  <2> QED
    BY <1>4
<1>9. Shown(q)
  <2> HIDE DEF some
  <2> QED
    BY <1>1, <1>7 DEF Shown
<1>10. ASSUME Len(p.list) = n, p.marked \subseteq 1..n, changed
       PROVE  q.buttons = ButtonsFor(q)
  <2>1. n \in Nat
    BY DEF FitPage, FitEntries
  <2>2. SubSeq(p.list, n + 1, Len(p.list)) = << >>
    <3> HIDE DEF n
    <3> QED
      BY <1>10, <2>1, SubSeqEmpty
  <2>3. after = rows
    <3> DEFINE T == {rows[i] : i \in 1..n}
    <3>1. rows = [i \in 1..n |-> rows[i]]
      <4>1. \A i \in 1..n : rows[i] = RowOf(p.entries[i])
        BY <1>1
      <4> HIDE DEF n
      <4> QED
        BY <1>1, <4>1
    <3>2. \A i \in 1..n : rows[i] \in T
      OBVIOUS
    <3> HIDE DEF T, n
    <3>3. rows \in Seq(T)
      BY <2>1, <3>1, <3>2, FunctionIsSequence
    <3> QED
      BY <2>2, <3>3, ConcatEmptySeq DEF n
  <2> HIDE DEF after, reported, listed
  <2>4. /\ q.entries = reported.entries /\ q.list = reported.list
        /\ q.marked = reported.marked /\ q.buttons = reported.buttons
    <3> HIDE DEF n
    <3> QED
      BY <1>4, <1>7, <1>10, <2>3 DEF some
  <2>5. ButtonsFor(q) = ButtonsFor(reported)
    BY <2>4, ButtonsAgree
  <2> QED
    BY <1>4, <1>10, <2>4, <2>5
<1>11. ASSUME ~changed
       PROVE  /\ q.buttons = p.buttons
              /\ \A i \in (1..n) \intersect DOMAIN p.list : p.entries[i].who.id = p.list[i].id
  <2>1. q.buttons = p.buttons
    <3> HIDE DEF reported
    <3> QED
      BY <1>4, <1>7, <1>11
  <2>2. \A i \in 1..n : rows[i].id = p.entries[i].who.id
    BY <1>1 DEF RowOf
  <2> QED
    BY <1>c, <1>11, <2>1, <2>2
<1> QED
  BY <1>7, <1>8, <1>9, <1>10, <1>11

\* Entries in another order, or of another snapshot, are shown if those that are
\* not dirty are the ones the list has.
LEMMA Relisting ==
  ASSUME NEW p, FitPage(p), CleanIsListed(p), NEW q, q = UpdateListview(Sorted(p))
  PROVE  /\ FitPage(q) /\ Shown(q) /\ q.entries = Sorted(p).entries
         /\ q.marked \subseteq 1..Len(q.entries)
         /\ (Len(p.list) = Len(p.entries) /\ p.marked \subseteq 1..Len(p.entries)) =>
              \/ q.buttons = ButtonsFor(q)
              \/ /\ q.buttons = p.buttons /\ q.marked = p.marked
                 /\ \A i \in (1..Len(p.entries)) \intersect DOMAIN p.list :
                      q.entries[i].who.id = p.list[i].id
<1> DEFINE s == Sorted(p)
<1>1. /\ FitPage(s) /\ Len(s.entries) = Len(p.entries) /\ s.list = p.list
      /\ s.marked = p.marked /\ s.buttons = p.buttons
      /\ \A i \in 1..Len(p.entries) : \E k \in 1..Len(p.entries) : s.entries[i] = p.entries[k]
  BY SortedPage
<1> HIDE DEF s
<1>2. KeptIsRight(s)
  <2> SUFFICES ASSUME NEW i \in 1..Len(s.entries), i \in DOMAIN s.list,
                      s.list[i].id = s.entries[i].who.id, ~s.entries[i].dirty
               PROVE  s.list[i] = RowOf(s.entries[i])
    BY DEF KeptIsRight
  <2>1. PICK m \in 1..Len(p.entries) : s.entries[i] = p.entries[m]
    BY <1>1
  <2>2. PICK k \in DOMAIN p.list : p.list[k] = RowOf(p.entries[m])
    BY <2>1 DEF CleanIsListed
  <2>3. p.list[k].id = p.list[i].id
    BY <1>1, <2>1, <2>2 DEF RowOf
  <2>4. k = i
    BY <1>1, <2>3 DEF CleanIsListed
  <2> QED
    BY <1>1, <2>1, <2>2, <2>4
<1>3. /\ FitPage(q) /\ Shown(q) /\ q.entries = s.entries
      /\ q.marked = s.marked \intersect (1..Len(s.entries))
  BY <1>1, <1>2, Rewriting DEF s
<1>4. (Len(s.list) = Len(s.entries) /\ s.marked \subseteq 1..Len(s.entries)) =>
        \/ q.buttons = ButtonsFor(q)
        \/ /\ q.buttons = s.buttons
           /\ \A i \in (1..Len(s.entries)) \intersect DOMAIN s.list :
                s.entries[i].who.id = s.list[i].id
  BY SMTT(60), <1>1, <1>2, Rewriting DEF s
<1>5. (Len(p.list) = Len(p.entries) /\ p.marked \subseteq 1..Len(p.entries)) =>
        \/ q.buttons = ButtonsFor(q)
        \/ /\ q.buttons = p.buttons /\ q.marked = p.marked
           /\ \A i \in (1..Len(p.entries)) \intersect DOMAIN p.list :
                q.entries[i].who.id = p.list[i].id
  <2> SUFFICES ASSUME Len(p.list) = Len(p.entries), p.marked \subseteq 1..Len(p.entries),
                      q.buttons # ButtonsFor(q)
               PROVE  /\ q.buttons = p.buttons /\ q.marked = p.marked
                      /\ \A i \in (1..Len(p.entries)) \intersect DOMAIN p.list :
                           q.entries[i].who.id = p.list[i].id
    OBVIOUS
  <2> QED
    BY <1>1, <1>3, <1>4
<1> QED
  BY <1>3, <1>5 DEF s

\* The end of a refresh: the buttons fit, and a row that is there is selected.
LEMMA Reselecting ==
  ASSUME NEW p, FitPage(p), Shown(p), p.marked \subseteq 1..Len(p.entries),
         NEW who, NEW q, q \in {Reselected(p, who), Restored(p, who)}
  PROVE  Screen(q)
<1> DEFINE at == {i \in DOMAIN p.entries : p.entries[i].who = who}
           more == p.marked \union at
           r == [p EXCEPT !.marked = @ \union at]
<1>1. q \in {UiState(p), ItemChanged(r)}
  BY DEF Reselected, Restored
<1>2. at \subseteq 1..Len(p.entries)
  BY DEF FitPage, FitEntries
<1>3. /\ FitPage(r) /\ r.entries = p.entries /\ r.list = p.list /\ r.marked = more
  <2>1. r = [p EXCEPT !.marked = more]
    OBVIOUS
  <2> HIDE DEF more, r
  <2> QED
    BY <2>1, Marking
<1>4. CASE q = UiState(p)
  BY <1>4, ItemChangedPage DEF Screen, Shown
<1>5. CASE q = ItemChanged(r)
  <2> HIDE DEF r, at
  <2>1. /\ FitPage(q) /\ q.entries = p.entries /\ q.list = p.list /\ q.marked = more
        /\ q.buttons = ButtonsFor(q)
    BY <1>3, <1>5, ItemChangedPage
  <2> QED
    BY <1>2, <2>1 DEF Screen, Shown
<1> QED
  BY <1>1, <1>4, <1>5

-----------------------------------------------------------------------------
(* The steps of the page.                                                   *)

\* A page whose entries are replaced.
LEMMA Refilling ==
  ASSUME NEW p, FitPage(p), NEW v, FitEntries(v), NEW q, q = [p EXCEPT !.entries = v]
  PROVE  /\ FitPage(q) /\ q.entries = v /\ q.list = p.list /\ q.marked = p.marked
<1>1. q = [entries |-> v, domains |-> p.domains, column |-> p.column,
           ascending |-> p.ascending, selected |-> p.selected, list |-> p.list,
           marked |-> p.marked, buttons |-> p.buttons]
  BY PageExcept
<1>2. /\ q.entries = v /\ q.domains = p.domains /\ q.column = p.column
      /\ q.ascending = p.ascending /\ q.selected = p.selected
      /\ q.list = p.list /\ q.marked = p.marked /\ q.buttons = p.buttons
  BY <1>1
<1> QED
  BY <1>1, <1>2 DEF FitPage

\* The rows of the list have the IDs of their entries, each its own.
LEMMA RowsApart ==
  ASSUME NEW p, FitPage(p), Shown(p)
  PROVE  /\ DOMAIN p.list = 1..Len(p.entries) /\ DOMAIN p.entries = 1..Len(p.entries)
         /\ \A i \in DOMAIN p.list : p.list[i] = RowOf(p.entries[i])
         /\ \A i, j \in DOMAIN p.list : p.list[i].id = p.list[j].id => i = j
<1>1. /\ DOMAIN p.list = 1..Len(p.entries) /\ DOMAIN p.entries = 1..Len(p.entries)
      /\ \A i \in DOMAIN p.list : p.list[i] = RowOf(p.entries[i])
  BY DEF FitPage, FitEntries, Shown
<1>2. ASSUME NEW i \in DOMAIN p.list, NEW j \in DOMAIN p.list, p.list[i].id = p.list[j].id
      PROVE  i = j
  <2>1. p.list[i].id = p.entries[i].who.id /\ p.list[j].id = p.entries[j].who.id
    <3>1. \A e : RowOf(e).id = e.who.id
      BY DEF RowOf
    <3>2. p.list[i] = RowOf(p.entries[i]) /\ p.list[j] = RowOf(p.entries[j])
      BY <1>1
    <3> QED
      BY <3>1, <3>2
  <2> QED
    BY <1>1, <1>2, <2>1 DEF FitPage, FitEntries
<1> QED
  BY <1>1, <1>2

\* The entries made of a collection: one for each row, and clean only if it is
\* the page's already.
LEMMA EntriesMade ==
  ASSUME NEW rows, FitRows(rows), NEW p, FitPage(p), NEW es, es = Entries(rows, p)
  PROVE  /\ IsFiniteSet(es) /\ \A e \in es : Fit(e)
         /\ \A e, f \in es : e.who.id = f.who.id => e = f
         /\ \A e \in es : ~e.dirty => \E k \in DOMAIN p.entries :
              /\ p.entries[k].who = e.who /\ p.entries[k].name = e.name
              /\ p.entries[k].status = e.status
<1> DEFINE made(r) == [who |-> r.who, name |-> DisplayName(r.who, p.domains),
                       status |-> r.status, dirty |-> TRUE]
           marked(r) == [made(r) EXCEPT !.dirty = Dirty(made(r), p)]
<1>1. \A e \in es : \E r \in rows : e = marked(r)
  BY DEF Entries
<1>2. ASSUME NEW r \in rows
      PROVE  /\ marked(r) = [who |-> r.who, name |-> DisplayName(r.who, p.domains),
                             status |-> r.status, dirty |-> Dirty(made(r), p)]
             /\ Fit(marked(r))
             /\ marked(r).who = r.who
             /\ ~marked(r).dirty => \E k \in DOMAIN p.entries :
                  /\ p.entries[k].who = marked(r).who /\ p.entries[k].name = marked(r).name
                  /\ p.entries[k].status = marked(r).status
  <2> DEFINE m == made(r)
             d == Dirty(m, p)
             x == marked(r)
  <2>1. /\ m = [who |-> m.who, name |-> m.name, status |-> m.status, dirty |-> m.dirty]
        /\ m.who = r.who /\ m.name = DisplayName(r.who, p.domains) /\ m.status = r.status
    OBVIOUS
  <2>2. x = [m EXCEPT !.dirty = d]
    OBVIOUS
  <2> HIDE DEF m, x
  <2>3. x = [who |-> m.who, name |-> m.name, status |-> m.status, dirty |-> d]
    <3> HIDE DEF d
    <3> QED
      BY <2>1, <2>2
  <2>4. /\ x.who = r.who /\ x.name = DisplayName(r.who, p.domains) /\ x.status = r.status
        /\ x = [who |-> x.who, name |-> x.name, status |-> x.status, dirty |-> x.dirty]
    <3> HIDE DEF d
    <3> QED
      BY <2>1, <2>3
  <2>5. x.name \in Int
    BY <2>4 DEF DisplayName, FitRows
  <2>6. Fit(x)
    BY <2>4, <2>5 DEF Fit, FitRows
  <2>7. x.dirty = d
    <3> HIDE DEF d
    <3> QED
      BY <2>3
  <2>8. ~x.dirty => \E k \in DOMAIN p.entries :
           /\ p.entries[k].who = x.who /\ p.entries[k].name = x.name
           /\ p.entries[k].status = x.status
    <3>1. ~d => \E k \in DOMAIN p.entries :
             /\ p.entries[k].who = m.who /\ p.entries[k].name = m.name
             /\ p.entries[k].status = m.status
      BY DEF Dirty
    <3> HIDE DEF d
    <3> QED
      BY <2>1, <2>4, <2>7, <3>1
  <2>9. x = [who |-> r.who, name |-> DisplayName(r.who, p.domains),
             status |-> r.status, dirty |-> d]
    <3> HIDE DEF d
    <3> QED
      BY <2>1, <2>3
  <2> QED
    BY <2>4, <2>6, <2>8, <2>9 DEF m, x
<1> HIDE DEF made, marked
<1>3. \A e \in es : Fit(e)
  BY <1>1, <1>2
<1>4. \A e \in es : ~e.dirty => \E k \in DOMAIN p.entries :
        /\ p.entries[k].who = e.who /\ p.entries[k].name = e.name
        /\ p.entries[k].status = e.status
  BY <1>1, <1>2
<1>5. ASSUME NEW e \in es, NEW f \in es, e.who.id = f.who.id
      PROVE  e = f
  <2>1. PICK r \in rows : e = marked(r)
    BY <1>1
  <2>2. PICK s \in rows : f = marked(s)
    BY <1>1
  <2>3. r = s
    <3>1. r.who.id = s.who.id
      BY <1>2, <1>5, <2>1, <2>2
    <3> QED
      BY <3>1 DEF FitRows
  <2> QED
    BY <2>1, <2>2, <2>3
<1>6. IsFiniteSet(es)
  <2> DEFINE f == [e \in es |-> e.who.id]
  <2>1. f \in [es -> Ids] /\ \A e, g \in es : f[e] = f[g] => e = g
    BY <1>3, <1>5 DEF Fit
  <2>2. f \in Injection(es, Ids)
    <3> HIDE DEF f
    <3> QED
      BY <2>1, Fun_IsInj
  <2> HIDE DEF f
  <2> QED
    BY <2>2, UsersAssumption, FS_Injection
<1> QED
  BY <1>3, <1>4, <1>5, <1>6

\* A snapshot is applied: its sessions are shown.
LEMMA SnapshotShown ==
  ASSUME Screen(page), NEW rows, FitRows(rows)
  PROVE  Screen(ApplySnapshot(rows))
<1> DEFINE es == Entries(rows, page)
           f == [i \in 1..Cardinality(es) |->
                   CHOOSE e \in es : Cardinality({g \in es : g.who.id < e.who.id}) = i - 1]
           R == {pr \in es \X es : pr[1].who.id < pr[2].who.id}
           p == [page EXCEPT !.entries = f]
           shown == UpdateListview(Sorted(p))
           kept == IF \E e \in es : e.who = page.selected THEN page.selected ELSE NoOne
           last == [shown EXCEPT !.selected = kept]
<1>1. ApplySnapshot(rows) = Reselected(last, kept)
  BY DEF ApplySnapshot
<1>2. /\ IsFiniteSet(es) /\ \A e \in es : Fit(e)
      /\ \A e, g \in es : e.who.id = g.who.id => e = g
      /\ \A e \in es : ~e.dirty => \E k \in DOMAIN page.entries :
           /\ page.entries[k].who = e.who /\ page.entries[k].name = e.name
           /\ page.entries[k].status = e.status
  <2>1. FitPage(page)
    BY DEF Screen
  <2> QED
    BY <2>1, EntriesMade
<1> HIDE DEF es, shown, last, p, kept
<1>3. \A e, g \in es : <<e, g>> \in R <=> e.who.id < g.who.id
  OBVIOUS
<1>4. Orders(R, es)
  <2>1. \A e \in es : e.who.id \in Int
    BY <1>2, UsersAssumption DEF Fit
  <2> HIDE DEF R
  <2> QED
    BY <1>2, <1>3, <2>1 DEF Orders
<1>5. \A e \in es : Cardinality({g \in es : g.who.id < e.who.id}) = Place(es, R, e)
  <2> HIDE DEF R
  <2>1. \A e \in es : {g \in es : g.who.id < e.who.id} = {g \in es : <<g, e>> \in R}
    BY <1>3
  <2> QED
    BY <2>1 DEF Place
<1> HIDE DEF R
<1> DEFINE n == Cardinality(es)
<1>6. Enumerates(f, es, R)
  <2> DEFINE low(e) == Cardinality({g \in es : g.who.id < e.who.id})
             choice(i) == CHOOSE e \in es : low(e) = i - 1
  <2>1. f = [i \in 1..n |-> choice(i)]
    OBVIOUS
  <2>2. ASSUME NEW i \in 1..n, \E x \in es : Place(es, R, x) = i - 1
        PROVE  choice(i) \in es /\ Place(es, R, choice(i)) = i - 1
    <3>1. \E x \in es : low(x) = i - 1
      <4> HIDE DEF n
      <4> QED
        BY <1>5, <2>2
    <3> HIDE DEF low
    <3>2. choice(i) \in es /\ low(choice(i)) = i - 1
      BY <3>1
    <3> HIDE DEF choice
    <3> QED
      BY <1>5, <3>2 DEF low
  <2> HIDE DEF choice, f, low
  <2> QED
    BY <2>1, <2>2 DEF Enumerates
<1> HIDE DEF f
<1>7. /\ n \in Nat /\ Len(f) = n /\ f = [i \in 1..n |-> f[i]]
      /\ \A i \in 1..n : f[i] \in es
      /\ \A i, j \in 1..n : f[i] = f[j] => i = j
  BY <1>2, <1>4, <1>6, Enumerated
<1> HIDE DEF n
<1>8. FitEntries(f)
  BY <1>2, <1>7 DEF FitEntries
<1>9. /\ FitPage(p) /\ p.entries = f /\ p.list = page.list
  BY <1>8, Refilling DEF Screen, p
<1>10. CleanIsListed(p)
  <2>1. /\ DOMAIN page.list = 1..Len(page.entries) /\ DOMAIN page.entries = 1..Len(page.entries)
        /\ \A i \in DOMAIN page.list : page.list[i] = RowOf(page.entries[i])
        /\ \A i, j \in DOMAIN page.list : page.list[i].id = page.list[j].id => i = j
    <3>1. FitPage(page) /\ Shown(page)
      BY DEF Screen
    <3> QED
      BY <3>1, RowsApart
  <2>2. ASSUME NEW i \in 1..Len(p.entries), ~p.entries[i].dirty
        PROVE  \E k \in DOMAIN p.list : p.list[k] = RowOf(p.entries[i])
    <3>1. f[i] \in es /\ ~f[i].dirty /\ p.entries[i] = f[i]
      BY <1>7, <1>9, <2>2
    <3>2. PICK k \in DOMAIN page.entries :
             /\ page.entries[k].who = f[i].who /\ page.entries[k].name = f[i].name
             /\ page.entries[k].status = f[i].status
      BY <1>2, <3>1
    <3>3. RowOf(page.entries[k]) = RowOf(f[i])
      BY <3>2 DEF RowOf
    <3> QED
      BY <1>9, <2>1, <3>1, <3>2, <3>3
  <2> QED
    BY <1>9, <2>1, <2>2 DEF CleanIsListed
<1>11. /\ FitPage(shown) /\ Shown(shown) /\ shown.marked \subseteq 1..Len(shown.entries)
  BY <1>9, <1>10, Relisting DEF shown
<1>12. /\ FitPage(last) /\ Shown(last) /\ last.marked \subseteq 1..Len(last.entries)
  <2>1. /\ FitPage(last) /\ last.entries = shown.entries /\ last.list = shown.list
        /\ last.marked = shown.marked
    BY <1>11, Selecting DEF last
  <2> QED
    BY <1>11, <2>1 DEF Shown
<1> QED
  BY <1>1, <1>12, Reselecting

\* Entries of the page, in another order, or with new names that leave only what
\* they did not change clean.
LEMMA Reordered ==
  ASSUME Screen(page), NEW p, FitPage(p), p.list = page.list,
         Len(p.entries) = Len(page.entries),
         \A i \in 1..Len(page.entries) :
           p.entries[i].dirty \/ RowOf(p.entries[i]) = RowOf(page.entries[i])
  PROVE  CleanIsListed(p)
<1>1. /\ DOMAIN page.list = 1..Len(page.entries) /\ DOMAIN page.entries = 1..Len(page.entries)
      /\ \A i \in DOMAIN page.list : page.list[i] = RowOf(page.entries[i])
      /\ \A i, j \in DOMAIN page.list : page.list[i].id = page.list[j].id => i = j
  <2>1. FitPage(page) /\ Shown(page)
    BY DEF Screen
  <2> QED
    BY <2>1, RowsApart
<1>2. \A i \in 1..Len(p.entries) :
         ~p.entries[i].dirty => p.list[i] = RowOf(p.entries[i])
  BY <1>1
<1> QED
  BY <1>1, <1>2 DEF CleanIsListed

\* Names with their domains, or without.
LEMMA NamesShown ==
  ASSUME Screen(page), ShowDomainNames
  PROVE  Screen(page')
<1> DEFINE named(e) == [e EXCEPT !.name = DisplayName(e.who, ~page.domains),
                                 !.dirty = @ \/ e.name # DisplayName(e.who, ~page.domains)]
           n == Len(page.entries)
           es == [i \in DOMAIN page.entries |-> named(page.entries[i])]
           turned == [page EXCEPT !.domains = ~@, !.entries = es]
           shown == UpdateListview(Sorted(turned))
<1>1. page' = Reselected(shown, page.selected)
  BY DEF ShowDomainNames
<1>2. /\ n \in Nat /\ DOMAIN page.entries = 1..n /\ \A i \in 1..n : Fit(page.entries[i])
      /\ \A i, j \in 1..n : page.entries[i].who.id = page.entries[j].who.id => i = j
  BY DEF Screen, FitPage, FitEntries
<1>3. ASSUME NEW e, Fit(e)
      PROVE  /\ Fit(named(e)) /\ named(e).who = e.who
             /\ named(e).dirty \/ RowOf(named(e)) = RowOf(e)
  <2> DEFINE new == DisplayName(e.who, ~page.domains)
             d == e.dirty \/ e.name # new
             x == named(e)
  <2>1. x = [who |-> e.who, name |-> new, status |-> e.status, dirty |-> d]
    <3>1. e = [who |-> e.who, name |-> e.name, status |-> e.status, dirty |-> e.dirty]
      BY <1>3 DEF Fit
    <3>2. x = [e EXCEPT !.name = new, !.dirty = d]
      OBVIOUS
    <3> HIDE DEF new, d, x
    <3> QED
      BY <3>1, <3>2
  <2>2. new \in Int
    BY <1>3 DEF DisplayName, Fit
  <2> HIDE DEF x
  <2>3. /\ x.who = e.who /\ x.name = new /\ x.status = e.status
        /\ x = [who |-> x.who, name |-> x.name, status |-> x.status, dirty |-> x.dirty]
    <3> HIDE DEF new, d
    <3> QED
      BY <2>1
  <2>4. x.dirty = d
    <3> HIDE DEF new, d
    <3> QED
      BY <2>1
  <2>5. x.dirty \/ x.name = e.name
    <3> HIDE DEF new
    <3> QED
      BY <2>3, <2>4
  <2> QED
    BY <1>3, <2>2, <2>3, <2>5 DEF Fit, RowOf, x
<1> HIDE DEF named
<1>4. /\ Len(es) = n /\ es = [i \in 1..n |-> es[i]]
      /\ \A i \in 1..n : es[i] = named(page.entries[i])
  <2>1. es = [i \in 1..n |-> named(page.entries[i])]
    BY <1>2
  <2>2. \A i \in 1..n : es[i] = named(page.entries[i])
    BY <2>1
  <2>3. es = [i \in 1..n |-> es[i]]
    <3> HIDE DEF es, n
    <3> QED
      BY <2>1, <2>2
  <2> HIDE DEF es, n
  <2> QED
    BY <1>2, <2>2, <2>3, FunctionIsSequence
<1> HIDE DEF es, n
<1>5. FitEntries(es)
  <2>1. \A i \in 1..n : Fit(es[i]) /\ es[i].who = page.entries[i].who
    BY <1>2, <1>3, <1>4
  <2> QED
    BY <1>2, <1>4, <2>1 DEF FitEntries
<1>6. /\ FitPage(turned) /\ turned.entries = es /\ turned.list = page.list
  <2>1. FitPage(page)
    BY DEF Screen
  <2> DEFINE off == ~page.domains
  <2>2. turned = [entries |-> es, domains |-> off, column |-> page.column,
                  ascending |-> page.ascending, selected |-> page.selected,
                  list |-> page.list, marked |-> page.marked, buttons |-> page.buttons]
    <3>1. turned = [page EXCEPT !.domains = off, !.entries = es]
      OBVIOUS
    <3> HIDE DEF turned, off
    <3> QED
      BY <2>1, <3>1 DEF FitPage
  <2> HIDE DEF turned, off
  <2>3. /\ turned.entries = es /\ turned.domains = off /\ turned.column = page.column
        /\ turned.ascending = page.ascending /\ turned.selected = page.selected
        /\ turned.list = page.list /\ turned.marked = page.marked
        /\ turned.buttons = page.buttons
    BY <2>2
  <2>4. page.column \in {"name", "id", "status"}
    BY <2>1 DEF FitPage
  <2> QED
    BY <1>5, <2>2, <2>3, <2>4 DEF FitPage
<1> HIDE DEF turned
<1>7. CleanIsListed(turned)
  <2>1. \A i \in 1..Len(page.entries) :
           turned.entries[i].dirty \/ RowOf(turned.entries[i]) = RowOf(page.entries[i])
    BY <1>2, <1>3, <1>4, <1>6 DEF n
  <2>2. Len(turned.entries) = Len(page.entries)
    BY <1>4, <1>6 DEF n
  <2> QED
    BY <1>6, <2>1, <2>2, Reordered
<1>8. /\ FitPage(shown) /\ Shown(shown) /\ shown.marked \subseteq 1..Len(shown.entries)
  BY <1>6, <1>7, Relisting
<1> HIDE DEF shown
<1> QED
  BY <1>1, <1>8, Reselecting

\* The rows the user clicks are selected.
LEMMA SelectionShown ==
  ASSUME Screen(page), SelectRows
  PROVE  Screen(page')
<1>1. PICK rows \in SUBSET DOMAIN page.list : page' = ItemChanged([page EXCEPT !.marked = rows])
  BY DEF SelectRows
<1>2. FitPage(page) /\ Shown(page)
  BY DEF Screen
<1>3. rows \subseteq 1..Len(page.entries)
  BY <1>2, RowsApart
<1> DEFINE p == [page EXCEPT !.marked = rows]
<1>4. FitPage(p) /\ p.entries = page.entries /\ p.list = page.list /\ p.marked = rows
  BY <1>2, Marking
<1> HIDE DEF p
<1>5. /\ FitPage(page') /\ page'.entries = page.entries /\ page'.list = page.list
      /\ page'.marked = rows /\ page'.buttons = ButtonsFor(page')
  BY <1>1, <1>4, ItemChangedPage DEF p
<1> QED
  BY <1>2, <1>3, <1>5 DEF Screen, Shown

\* Another order: if nothing moved and nobody is selected, the buttons stay.
LEMMA OrderShown ==
  ASSUME Screen(page), ColumnClick
  PROVE  Screen(page')
<1>1. PICK c \in {"name", "id", "status"} :
        LET turned == [page EXCEPT !.column = c,
                         !.ascending = IF page.column = c THEN ~@ ELSE TRUE]
            shown == UpdateListview(Sorted(turned))
        IN  page' = IF shown.selected = NoOne THEN shown ELSE Restored(shown, shown.selected)
  BY DEF ColumnClick
<1> DEFINE up == IF page.column = c THEN ~page.ascending ELSE TRUE
           turned == [page EXCEPT !.column = c, !.ascending = IF page.column = c THEN ~@ ELSE TRUE]
           shown == UpdateListview(Sorted(turned))
           n == Len(page.entries)
<1>2. page' = shown \/ page' = Restored(shown, shown.selected)
  BY <1>1
<1>3. FitPage(page) /\ Shown(page) /\ page.marked \subseteq 1..n /\ page.buttons = ButtonsFor(page)
  BY DEF Screen
<1>4. /\ FitPage(turned) /\ turned.entries = page.entries /\ turned.list = page.list
      /\ turned.marked = page.marked /\ turned.buttons = page.buttons
  <2>1. turned = [entries |-> page.entries, domains |-> page.domains, column |-> c,
                  ascending |-> up, selected |-> page.selected,
                  list |-> page.list, marked |-> page.marked, buttons |-> page.buttons]
    <3>1. turned = [page EXCEPT !.column = c, !.ascending = up]
      OBVIOUS
    <3> HIDE DEF turned, up
    <3> QED
      BY <1>3, <3>1 DEF FitPage
  <2> HIDE DEF turned, up
  <2>2. /\ turned.entries = page.entries /\ turned.domains = page.domains /\ turned.column = c
        /\ turned.ascending = up /\ turned.selected = page.selected
        /\ turned.list = page.list /\ turned.marked = page.marked
        /\ turned.buttons = page.buttons
    BY <2>1
  <2> QED
    BY <1>3, <2>1, <2>2 DEF FitPage
<1> HIDE DEF turned
<1>5. CleanIsListed(turned)
  BY <1>4, Reordered
<1>6. /\ DOMAIN page.list = 1..n /\ DOMAIN page.entries = 1..n /\ n \in Nat
      /\ \A i \in DOMAIN page.list : page.list[i] = RowOf(page.entries[i])
      /\ \A i, j \in 1..n : page.entries[i].who.id = page.entries[j].who.id => i = j
  BY <1>3, RowsApart DEF FitPage, FitEntries
<1>7. Len(page.list) = n
  <2>1. page.list = [i \in 1..n |-> page.list[i]]
    <3>1. page.list = [i \in 1..n |-> RowOf(page.entries[i])]
      BY <1>3 DEF Shown
    <3>2. \A i \in 1..n : page.list[i] = RowOf(page.entries[i])
      BY <3>1
    <3> HIDE DEF n
    <3> QED
      BY <3>1, <3>2
  <2> HIDE DEF n
  <2> QED
    BY <1>6, <2>1, FunctionIsSequence
<1>8. /\ FitPage(shown) /\ Shown(shown) /\ shown.entries = Sorted(turned).entries
      /\ shown.marked \subseteq 1..Len(shown.entries)
      /\ \/ shown.buttons = ButtonsFor(shown)
         \/ /\ shown.buttons = page.buttons /\ shown.marked = page.marked
            /\ \A i \in 1..n : shown.entries[i].who.id = page.list[i].id
  <2> HIDE DEF shown
  <2>1. /\ FitPage(shown) /\ Shown(shown) /\ shown.entries = Sorted(turned).entries
        /\ shown.marked \subseteq 1..Len(shown.entries)
        /\ (Len(turned.list) = Len(turned.entries)
              /\ turned.marked \subseteq 1..Len(turned.entries)) =>
             \/ shown.buttons = ButtonsFor(shown)
             \/ /\ shown.buttons = turned.buttons /\ shown.marked = turned.marked
                /\ \A i \in (1..Len(turned.entries)) \intersect DOMAIN turned.list :
                     shown.entries[i].who.id = turned.list[i].id
    BY <1>4, <1>5, Relisting DEF shown
  <2> QED
    BY <1>3, <1>4, <1>6, <1>7, <2>1
<1>9. /\ Len(shown.entries) = n
      /\ \A i \in 1..n : \E k \in 1..n : shown.entries[i] = page.entries[k]
  <2>1. /\ Len(Sorted(turned).entries) = Len(turned.entries)
        /\ \A i \in 1..Len(turned.entries) : \E k \in 1..Len(turned.entries) :
             Sorted(turned).entries[i] = turned.entries[k]
    BY <1>4, SortedPage
  <2> HIDE DEF shown
  <2> QED
    BY <1>4, <1>8, <2>1
<1> HIDE DEF shown
<1>10. shown.buttons = ButtonsFor(shown)
  <2> SUFFICES ASSUME shown.buttons = page.buttons, shown.marked = page.marked,
                      \A i \in 1..n : shown.entries[i].who.id = page.list[i].id
               PROVE  shown.buttons = ButtonsFor(shown)
    BY <1>8
  <2>1. \A i \in 1..n : shown.entries[i] = page.entries[i]
    <3> TAKE i \in 1..n
    <3>1. PICK k \in 1..n : shown.entries[i] = page.entries[k]
      BY <1>9
    <3>2. page.list[i].id = page.entries[i].who.id
      <4>1. page.list[i] = RowOf(page.entries[i])
        BY <1>6
      <4>2. \A e : RowOf(e).id = e.who.id
        BY DEF RowOf
      <4> QED
        BY <4>1, <4>2
    <3>3. page.entries[k].who.id = page.entries[i].who.id
      BY <3>1, <3>2
    <3>4. k = i
      BY <1>6, <3>3
    <3> QED
      BY <3>1, <3>4
  <2>2. shown.entries = page.entries
    <3>1. shown.entries = [i \in 1..n |-> shown.entries[i]]
      BY <1>8, <1>9 DEF FitPage, FitEntries
    <3>2. page.entries = [i \in 1..n |-> page.entries[i]]
      BY <1>3 DEF FitPage, FitEntries
    <3> HIDE DEF n
    <3> QED
      BY <2>1, <3>1, <3>2
  <2>3. shown.list = page.list
    BY <1>3, <1>8, <2>2 DEF Shown
  <2>4. ButtonsFor(shown) = ButtonsFor(page)
    BY <2>2, <2>3, ButtonsAgree
  <2> QED
    BY <1>3, <2>4
<1>11. Screen(shown)
  BY <1>8, <1>10 DEF Screen
<1> QED
  BY <1>2, <1>8, <1>11, Reselecting

\* A drained worker has given its snapshot to the page, and starts over.
LEMMA Draining ==
  ASSUME SessionsInv, Screen(page)
  PROVE  /\ Screen(Drained)
         /\ \A w \in {AfterDrain, [Waiting EXCEPT !.at = "asked"],
                      [AfterDrain EXCEPT !.queued = TRUE]} :
              /\ w = [at |-> w.at, rows |-> w.rows, ok |-> w.ok, queued |-> w.queued]
              /\ FitRows(w.rows)
<1>1. Screen(Drained)
  BY SnapshotShown DEF Drained, SessionsInv
<1> DEFINE none == Waiting
           asked == [none EXCEPT !.at = "asked"]
           d == AfterDrain
           more == [d EXCEPT !.queued = TRUE]
           Worker(w) == /\ w = [at |-> w.at, rows |-> w.rows, ok |-> w.ok, queued |-> w.queued]
                        /\ FitRows(w.rows)
<1>2. Worker(none)
  BY DEF Waiting, FitRows
<1>3. Worker(asked)
  <2> HIDE DEF none
  <2>1. asked = [at |-> "asked", rows |-> none.rows, ok |-> none.ok, queued |-> none.queued]
    BY <1>2
  <2>2. asked.rows = none.rows
    BY <2>1
  <2> QED
    BY <1>2, <2>1, <2>2
<1>4. Worker(d)
  <2>1. d \in {worker, asked, none}
    BY DEF AfterDrain
  <2>2. Worker(worker)
    BY DEF SessionsInv
  <2> HIDE DEF d, asked, none, Worker
  <2> QED
    BY <1>2, <1>3, <2>1, <2>2
<1>5. Worker(more)
  <2> HIDE DEF d
  <2> DEFINE yes == TRUE
  <2>0. more = [d EXCEPT !.queued = yes]
    OBVIOUS
  <2> HIDE DEF yes, more
  <2>1. more = [at |-> d.at, rows |-> d.rows, ok |-> d.ok, queued |-> yes]
    BY <1>4, <2>0
  <2>2. more.rows = d.rows
    BY <2>1
  <2> QED
    BY <1>4, <2>1, <2>2
<1>6. \A w \in {d, asked, more} : Worker(w)
  <2> HIDE DEF d, asked, more, Worker
  <2> QED
    BY <1>3, <1>4, <1>5
<1> QED
  BY <1>1, <1>6

\* A refresh shows what was collected and asks again.
LEMMA Refreshing ==
  ASSUME SessionsInv, Screen(page), sessions' \in [Ids -> Logons \union {0}],
         Refresh \/ (page' = Drained /\ worker' = AfterDrain)
  PROVE  SessionsInv' /\ Screen(page')
<1>1. page' = Drained
  BY DEF Refresh
<1>2. worker' \in {AfterDrain, [Waiting EXCEPT !.at = "asked"], [AfterDrain EXCEPT !.queued = TRUE]}
  BY DEF Refresh
<1> QED
  BY <1>1, <1>2, Draining DEF SessionsInv

\* A collection has a row for each session there is, or none for it.
LEMMA Collecting ==
  ASSUME SessionsInv, Collect
  PROVE  SessionsInv'
<1>1. ASSUME NEW i \in Present, NEW field
      PROVE  Snapshot(i, field).who.id = i /\ Snapshot(i, field).who.user \in Int
  <2> DEFINE who == Identity(i)
  <2>1. /\ who = [id |-> who.id, logon |-> who.logon, user |-> who.user, domain |-> who.domain]
        /\ who.id = i /\ who.user = UserOf[sessions[i]]
    BY DEF Identity
  <2>2. UserOf[sessions[i]] \in Int
    BY UsersAssumption DEF SessionsInv, Present
  <2> HIDE DEF who
  <2>3. Snapshot(i, field).who \in {who, [who EXCEPT !.logon = 0],
                                    [who EXCEPT !.logon = 0, !.domain = FALSE]}
    BY DEF Snapshot, who
  <2>4. \A w \in {who, [who EXCEPT !.logon = 0], [who EXCEPT !.logon = 0, !.domain = FALSE]} :
          w.id = who.id /\ w.user = who.user
    BY <2>1
  <2> QED
    BY <2>1, <2>2, <2>3, <2>4
<1> DEFINE rows == worker'.rows
           whole == {Snapshot(i, "none") : i \in Present}
           less(i, field) == {Snapshot(j, "none") : j \in Present \ {i}} \union
                             (IF field = "user" THEN {} ELSE {Snapshot(i, field)})
<1>a. ASSUME NEW ok, NEW new, worker' = [worker EXCEPT !.at = "done", !.ok = ok, !.rows = new]
      PROVE  /\ worker' = [at |-> worker'.at, rows |-> worker'.rows, ok |-> worker'.ok,
                           queued |-> worker'.queued]
             /\ rows = new
  <2>1. worker' = [at |-> "done", rows |-> new, ok |-> ok, queued |-> worker.queued]
    BY <1>a DEF SessionsInv
  <2> QED
    BY <2>1
<1>2. /\ worker' = [at |-> worker'.at, rows |-> worker'.rows, ok |-> worker'.ok,
                    queued |-> worker'.queued]
      /\ \/ rows = {}
         \/ rows = whole
         \/ \E i \in Present, field \in {"user", "domain", "info"} : rows = less(i, field)
  <2>1. CASE worker' = [worker EXCEPT !.at = "done", !.ok = TRUE, !.rows = whole]
    <3> HIDE DEF whole
    <3> QED
      BY <1>a, <2>1
  <2>2. CASE \E i \in Present, field \in {"user", "domain", "info"} :
               worker' = [worker EXCEPT !.at = "done", !.ok = TRUE, !.rows = less(i, field)]
    <3>1. PICK i \in Present, field \in {"user", "domain", "info"} :
               worker' = [worker EXCEPT !.at = "done", !.ok = TRUE, !.rows = less(i, field)]
      BY <2>2
    <3> HIDE DEF less
    <3> QED
      BY ZenonT(60), <1>a, <3>1
  <2>3. CASE worker' = [worker EXCEPT !.at = "done", !.ok = FALSE, !.rows = {}]
    BY <1>a, <2>3
  <2> QED
    BY <2>1, <2>2, <2>3 DEF Collect
<1> HIDE DEF rows
<1>3. \A r \in rows : r.who.id \in Present /\ r.who.user \in Int
  <2>1. \A r \in rows : \E i \in Present : \E field : r = Snapshot(i, field)
    BY <1>2 DEF whole, less
  <2> QED
    BY <1>1, <2>1
<1>4. ASSUME NEW r \in rows, NEW s \in rows, r.who.id = s.who.id
      PROVE  r = s
  <2>1. CASE rows = {Snapshot(i, "none") : i \in Present}
    BY <1>1, <1>4, <2>1
  <2>2. CASE \E i \in Present, field \in {"user", "domain", "info"} :
               rows = {Snapshot(j, "none") : j \in Present \ {i}} \union
                      (IF field = "user" THEN {} ELSE {Snapshot(i, field)})
    <3>1. PICK i \in Present, field \in {"user", "domain", "info"} :
               rows = {Snapshot(j, "none") : j \in Present \ {i}} \union
                      (IF field = "user" THEN {} ELSE {Snapshot(i, field)})
      BY <2>2
    <3>2. \A x \in rows : \/ \E j \in Present \ {i} : x = Snapshot(j, "none")
                          \/ x = Snapshot(i, field)
      BY <3>1
    <3>3. PICK j \in Present : (r = Snapshot(j, "none") /\ j # i) \/ (r = Snapshot(i, field) /\ j = i)
      BY <3>2
    <3>4. PICK k \in Present : (s = Snapshot(k, "none") /\ k # i) \/ (s = Snapshot(i, field) /\ k = i)
      BY <3>2
    <3>5. j = k
      BY <1>1, <1>4, <3>3, <3>4
    <3> QED
      BY <3>3, <3>4, <3>5
  <2> QED
    BY <1>2, <2>1, <2>2
<1>5. FitRows(rows)
  BY SMTT(60), <1>3, <1>4 DEF FitRows, Present
<1>8. UNCHANGED sessions
  BY DEF Collect, world
<1> QED
  BY <1>2, <1>5, <1>8 DEF SessionsInv, rows

\* Logons begin and end.
LEMMA LogonsChange ==
  ASSUME SessionsInv, SessionChanges
  PROVE  SessionsInv'
<1>1. PICK i \in Ids : \/ sessions' = [sessions EXCEPT ![i] = 0]
                       \/ era' \in Logons /\ sessions' = [sessions EXCEPT ![i] = era']
                       \/ sessions' = sessions
  BY DEF SessionChanges
<1>2. sessions' \in [Ids -> Logons \union {0}]
  BY <1>1 DEF SessionsInv
<1> QED
  BY <1>2 DEF SessionsInv, SessionChanges

\* The commands go on, or end with a refresh.
LEMMA CommandsGoOn ==
  ASSUME SessionsInv, Screen(page), Ask \/ Cancel \/ Confirm \/ Validate \/ Call
  PROVE  SessionsInv' /\ Screen(page')
<1>1. sessions' \in [Ids -> Logons \union {0}]
  <2>1. CASE Call
    <3>1. \/ sessions' = sessions
          \/ \E id : sessions' = [sessions EXCEPT ![id] = 0]
      BY <2>1 DEF Call
    <3> QED
      BY <3>1 DEF SessionsInv
  <2>2. CASE Ask \/ Cancel \/ Confirm \/ Validate
    BY <2>2 DEF Ask, Cancel, Confirm, Validate, world, SessionsInv
  <2> QED
    BY <2>1, <2>2
<1>2. Refresh \/ UNCHANGED <<worker, page>>
  BY DEF Ask, Cancel, Confirm, Validate, Call, Finish
<1> QED
  BY <1>1, <1>2, Refreshing DEF SessionsInv

\* Every step of the Users page keeps what it shows.
LEMMA UsersStep ==
  ASSUME SessionsInv, Screen(page), Next
  PROVE  SessionsInv' /\ Screen(page')
<1>1. CASE SessionChanges
  BY SMTT(60), <1>1, LogonsChange DEF SessionChanges
<1>2. CASE Collect
  BY <1>2, Collecting DEF Collect
<1>3. CASE Complete \/ TimerEvent
  <2>1. sessions' \in [Ids -> Logons \union {0}]
    BY <1>3 DEF Complete, TimerEvent, world, SessionsInv
  <2> QED
    BY <1>3, <2>1, Refreshing DEF Complete, TimerEvent
<1>4. CASE SelectRows \/ ColumnClick \/ ShowDomainNames
  <2>1. UNCHANGED <<sessions, worker>>
    BY <1>4 DEF SelectRows, ColumnClick, ShowDomainNames, world
  <2>2. SessionsInv'
    BY <2>1 DEF SessionsInv
  <2> QED
    BY <1>4, <2>2, SelectionShown, OrderShown, NamesShown
<1>5. CASE Ask \/ Cancel \/ Confirm \/ Validate \/ Call
  BY <1>5, CommandsGoOn
<1> QED
  BY <1>1, <1>2, <1>3, <1>4, <1>5 DEF Next

\* The page begins empty, with no button to press.
LEMMA UsersStart ==
  ASSUME Init
  PROVE  SessionsInv /\ Screen(page)
<1>1. /\ page.entries = << >> /\ page.list = << >> /\ page.marked = {}
      /\ page.column = "name" /\ page.buttons = [act |-> FALSE, disconnect |-> FALSE]
      /\ page = [entries |-> page.entries, domains |-> page.domains, column |-> page.column,
                 ascending |-> page.ascending, selected |-> page.selected, list |-> page.list,
                 marked |-> page.marked, buttons |-> page.buttons]
  BY DEF Init
<1>2. Len(page.entries) = 0 /\ << >> = [i \in 1..0 |-> << >>[i]]
  BY <1>1
<1>3. FitPage(page)
  <2>1. FitEntries(page.entries)
    BY <1>1, <1>2 DEF FitEntries
  <2> QED
    BY <1>1, <2>1 DEF FitPage
<1>4. Shown(page)
  BY <1>1, <1>2 DEF Shown
<1>5. page.buttons = ButtonsFor(page)
  <2>1. Selected(page) = {}
    BY <1>1 DEF Selected
  <2> QED
    BY <1>1, <2>1 DEF ButtonsFor
<1>6. SessionsInv
  <2>1. sessions \in [Ids -> Logons \union {0}]
    BY UsersAssumption DEF Init
  <2>2. worker = Waiting
    BY DEF Init
  <2> QED
    BY <2>1, <2>2 DEF SessionsInv, Waiting, FitRows
<1> QED
  BY <1>1, <1>3, <1>4, <1>5, <1>6 DEF Screen

\* Whatever was collected, sorted, renamed, clicked and called meanwhile: the list
\* shows the sessions in their order, and the buttons offer what may be done with
\* those selected (update_listview, update_ui_state).
THEOREM SessionsAreShown == ListsSpec => []ScreenShowsTheSessions
<1> DEFINE Inv == which = "users" => SessionsInv /\ Screen(page)
<1>1. ListsInit => Inv
  BY UsersStart DEF ListsInit
<1>2. Inv /\ [ListsNext]_<<which, vars, processesVars, networkVars>> => Inv'
  <2> SUFFICES ASSUME Inv, [ListsNext]_<<which, vars, processesVars, networkVars>>,
                      which' = "users"
               PROVE  SessionsInv' /\ Screen(page')
    OBVIOUS
  <2>1. CASE UNCHANGED vars /\ which' = which
    BY <2>1 DEF vars, world, SessionsInv
  <2>2. CASE which = "users" /\ Next
    BY <2>2, UsersStep
  <2> QED
    BY <2>1, <2>2 DEF ListsNext
<1>3. Inv => ScreenShowsTheSessions
  <2>1. ASSUME Screen(page)
        PROVE  ListShowsTheSessions /\ ButtonsFitTheSelection
    <3>1. DOMAIN page.entries = 1..Len(page.entries)
      BY <2>1 DEF Screen, FitPage, FitEntries
    <3> QED
      BY <2>1, <3>1 DEF Screen, Shown, ListShowsTheSessions, ButtonsFitTheSelection
  <2> QED
    BY <2>1 DEF ScreenShowsTheSessions
<1> QED
  BY <1>1, <1>2, <1>3, PTL DEF ListsSpec

-----------------------------------------------------------------------------
(* The Networking page.                                                     *)

\* What the worker's snapshot holds.
NetworkInv ==
    /\ present \subseteq Rows
    /\ netWorker = [at |-> netWorker.at, rows |-> netWorker.rows,
                    sampled |-> netWorker.sampled, ok |-> netWorker.ok,
                    queued |-> netWorker.queued]
    /\ DOMAIN netWorker.rows \subseteq Rows

\* What the page holds: the adapters have rows of the table, of an index each,
\* and counters as old as the last snapshot; the list and the titles show them.
AdaptersInv ==
    /\ \A i \in DOMAIN adapters :
         /\ adapters[i].row \in Rows
         /\ adapters[i].read = lastSample /\ adapters[i].counted = adapters[i].elapsed
    /\ \A i, j \in DOMAIN adapters :
         IndexOf[adapters[i].row] = IndexOf[adapters[j].row] => i = j
    /\ list = [i \in DOMAIN adapters |-> Net!ListRow(adapters[i])]

PageInv == AdaptersInv /\ Net!TitlesNameTheGraphs

\* Ranked rows of a finite set with distinct keys: InOrder lists each once.
LEMMA InOrderLists ==
  ASSUME NEW S, S \subseteq Rows,
         \A r, s \in S : IndexOf[r] = IndexOf[s] => r = s
  PROVE  LET ids == Net!InOrder(S) IN
         /\ \A i \in DOMAIN ids : ids[i] \in S
         /\ \A i, j \in DOMAIN ids : IndexOf[ids[i]] = IndexOf[ids[j]] => i = j
<1> DEFINE R == {p \in S \X S : IndexOf[p[1]] < IndexOf[p[2]]}
           n == Cardinality(S)
           Rank(x) == Place(S, R, x)
<1>1. IsFiniteSet(S)
  BY NetworkAssumption, FS_Subset
<1>2. \A r \in S : IndexOf[r] \in Int
  BY NetworkAssumption
<1>3. \A x, y \in S : <<x, y>> \in R <=> IndexOf[x] < IndexOf[y]
  OBVIOUS
<1>4. Orders(R, S)
  <2> HIDE DEF R
  <2> QED
    BY <1>2, <1>3 DEF Orders
<1>5. /\ n \in Nat
      /\ \A i \in 1..n : \E x \in S : Rank(x) = i - 1
      /\ \A x, z \in S : Rank(x) = Rank(z) => x = z
  <2> HIDE DEF R
  <2> QED
    BY <1>1, <1>4, Ranked
<1>6. \A x \in S : Net!Cardinality({s \in S : IndexOf[s] < IndexOf[x]}) = Rank(x)
  <2> TAKE x \in S
  <2>1. {s \in S : IndexOf[s] < IndexOf[x]} = {y \in S : <<y, x>> \in R}
    BY <1>3
  <2> QED
    BY <2>1 DEF Net!Cardinality, Cardinality, Place
<1>7. DOMAIN Net!InOrder(S) = 1..n
  BY DEF Net!InOrder, Net!Cardinality, Cardinality
<1>8. \A i \in 1..n : Net!InOrder(S)[i] \in S /\ Rank(Net!InOrder(S)[i]) = i - 1
  <2> DEFINE Low(x) == Net!Cardinality({s \in S : IndexOf[s] < IndexOf[x]})
  <2> TAKE i \in 1..n
  <2>1. Net!InOrder(S)[i] = CHOOSE x \in S : Low(x) = i - 1
    BY <1>7 DEF Net!InOrder
  <2> HIDE DEF Rank, n, Low
  <2>2. \E x \in S : Low(x) = i - 1
    BY <1>5, <1>6 DEF Low
  <2>3. Net!InOrder(S)[i] \in S /\ Low(Net!InOrder(S)[i]) = i - 1
    BY <2>1, <2>2
  <2> QED
    BY <2>3, <1>6 DEF Low
<1>9. \A i, j \in 1..n : IndexOf[Net!InOrder(S)[i]] = IndexOf[Net!InOrder(S)[j]] => i = j
  <2> HIDE DEF Rank
  <2> TAKE i, j \in 1..n
  <2> HAVE IndexOf[Net!InOrder(S)[i]] = IndexOf[Net!InOrder(S)[j]]
  <2>1. Net!InOrder(S)[i] = Net!InOrder(S)[j]
    BY <1>8
  <2>2. i - 1 = j - 1
    BY <1>8, <2>1
  <2> HIDE DEF n
  <2> QED
    BY <2>2, <1>5
<1> QED
  BY <1>7, <1>8, <1>9

\* One row is left for each index.
LEMMA CollapsedIsDistinct ==
  ASSUME NEW S, S \subseteq Rows
  PROVE  /\ Net!Collapsed(S) \subseteq Rows
         /\ \A r, s \in Net!Collapsed(S) : IndexOf[r] = IndexOf[s] => r = s
  BY NetworkAssumption DEF Net!Collapsed

\* The adapters of a snapshot: each has the row it was made of, and what it
\* carries over is of the adapter that had this row.
LEMMA AdapterMeans ==
  ASSUME AdaptersInv, NEW r
  PROVE  /\ Net!Adapter(r).row = r
         /\ Net!Adapter(r).read = netWorker.sampled
         /\ Net!Adapter(r).counted = Net!Adapter(r).elapsed
         /\ ~Net!Adapter(r).dirty => \E k \in DOMAIN adapters :
              /\ adapters[k].row = r /\ adapters[k].name = Net!Adapter(r).name
              /\ adapters[k].figure = Net!Adapter(r).figure
<1>1. Net!Known(r) => \E k \in DOMAIN adapters :
        Net!AdapterOf(r) = adapters[k] /\ adapters[k].row = r
  BY DEF Net!Known, Net!AdapterOf
<1>2. Net!Adapter(r).counted = Net!Adapter(r).elapsed
  BY <1>1 DEF Net!Adapter, AdaptersInv
<1>3. ~Net!Adapter(r).dirty => Net!Known(r) /\ Net!AdapterOf(r).name = Net!Adapter(r).name
                              /\ Net!AdapterOf(r).figure = Net!Adapter(r).figure
  <2>1. Net!Adapter(r).dirty = (Net!Known(r) => \/ Net!AdapterOf(r).name # netWorker.rows[r].name
                                               \/ Net!AdapterOf(r).figure # netWorker.rows[r].figure)
    BY DEF Net!Adapter
  <2>2. /\ Net!Adapter(r).name = netWorker.rows[r].name
        /\ Net!Adapter(r).figure = netWorker.rows[r].figure
    BY DEF Net!Adapter
  <2> QED
    BY <2>1, <2>2
<1> QED
  BY <1>1, <1>2, <1>3 DEF Net!Adapter

\* A layout gives every graph the title of its adapter.
LEMMA LabelledNames ==
  ASSUME NEW as, NEW ps, NEW per, NEW wanted, NEW p \in DOMAIN Net!Labelled(as, ps, per, wanted),
         p <= per
  PROVE  Net!Labelled(as, ps, per, wanted)[p]
           = Net!TitleOf(as, Net!FirstVisible(Len(as), per, wanted) + p)
  BY DEF Net!Labelled

\* A new size, or new adapters: the titles are those of the adapters.
LEMMA SizePageNames ==
  ASSUME NEW h, Net!SizePage(h, adapters')
  PROVE  Net!TitlesNameTheGraphs'
<1> DEFINE ps == panes \o [i \in 1..(Net!GraphsPerPage(h, Len(adapters')) - Len(panes)) |-> Net!NoTitle]
<1>1. /\ perPage' = Net!GraphsPerPage(h, Len(adapters')) /\ UNCHANGED first
      /\ panes' = Net!Labelled(adapters', ps, perPage', first)
  BY DEF Net!SizePage
<1> HIDE DEF ps
<1> QED
  BY <1>1, LabelledNames DEF Net!TitlesNameTheGraphs

\* A snapshot is applied: every adapter once, measured over one interval, in the
\* list and under its title, although what seems unchanged is left as it was.
LEMMA SnapshotApplied ==
  ASSUME PageInv, NetworkInv, Net!ApplySnapshot
  PROVE  PageInv'
<1> DEFINE ids == Net!InOrder(Net!Collapsed(DOMAIN netWorker.rows))
           as == [i \in DOMAIN ids |-> Net!Adapter(ids[i])]
<1>1. /\ \A i \in DOMAIN ids : ids[i] \in Rows
      /\ \A i, j \in DOMAIN ids : IndexOf[ids[i]] = IndexOf[ids[j]] => i = j
  <2>1. DOMAIN netWorker.rows \subseteq Rows
    BY DEF NetworkInv
  <2>2. /\ Net!Collapsed(DOMAIN netWorker.rows) \subseteq Rows
        /\ \A r, s \in Net!Collapsed(DOMAIN netWorker.rows) : IndexOf[r] = IndexOf[s] => r = s
    BY <2>1, CollapsedIsDistinct
  <2>3. /\ \A i \in DOMAIN ids : ids[i] \in Net!Collapsed(DOMAIN netWorker.rows)
        /\ \A i, j \in DOMAIN ids : IndexOf[ids[i]] = IndexOf[ids[j]] => i = j
    BY <2>2, InOrderLists
  <2> QED
    BY <2>2, <2>3
<1>2. /\ adapters' = as /\ lastSample' = netWorker.sampled
      /\ list' = [i \in DOMAIN as |-> Net!Rewritten(i, as)]
  BY DEF Net!ApplySnapshot
<1>3. /\ DOMAIN as = DOMAIN ids
      /\ \A i \in DOMAIN as :
           /\ as[i].row = ids[i] /\ as[i].read = netWorker.sampled
           /\ as[i].counted = as[i].elapsed
           /\ ~as[i].dirty => \E k \in DOMAIN adapters :
                /\ adapters[k].row = as[i].row /\ adapters[k].name = as[i].name
                /\ adapters[k].figure = as[i].figure
  <2> HIDE DEF ids
  <2>1. \A i \in DOMAIN as : as[i] = Net!Adapter(ids[i])
    OBVIOUS
  <2> HIDE DEF as
  <2>2. DOMAIN as = DOMAIN ids
    BY DEF as
  <2>3. ASSUME NEW i \in DOMAIN as
        PROVE  /\ as[i].row = ids[i] /\ as[i].read = netWorker.sampled
               /\ as[i].counted = as[i].elapsed
               /\ ~as[i].dirty => \E k \in DOMAIN adapters :
                    /\ adapters[k].row = as[i].row /\ adapters[k].name = as[i].name
                    /\ adapters[k].figure = as[i].figure
    <3> DEFINE a == Net!Adapter(ids[i])
    <3>1. AdaptersInv
      BY DEF PageInv
    <3>2. /\ a.row = ids[i] /\ a.read = netWorker.sampled /\ a.counted = a.elapsed
          /\ ~a.dirty => \E k \in DOMAIN adapters :
              /\ adapters[k].row = ids[i] /\ adapters[k].name = a.name
              /\ adapters[k].figure = a.figure
      BY <3>1, AdapterMeans
    <3>3. as[i] = a
      BY <2>1
    <3> HIDE DEF a
    <3> QED
      BY <3>2, <3>3
  <2> QED
    BY <2>2, <2>3
<1> HIDE DEF ids, as
<1>4. ASSUME NEW i \in DOMAIN as
      PROVE  Net!Rewritten(i, as) = Net!ListRow(as[i])
  <2>1. CASE i \in DOMAIN list /\ list[i].index = IndexOf[as[i].row] /\ ~as[i].dirty
    <3>1. i \in DOMAIN adapters /\ list[i] = Net!ListRow(adapters[i])
      BY <2>1 DEF PageInv, AdaptersInv
    <3>2. PICK k \in DOMAIN adapters :
            /\ adapters[k].row = as[i].row /\ adapters[k].name = as[i].name
            /\ adapters[k].figure = as[i].figure
      BY <1>3, <2>1
    <3>3. IndexOf[adapters[i].row] = IndexOf[adapters[k].row]
      <4>1. Net!ListRow(adapters[i]).index = IndexOf[adapters[i].row]
        BY DEF Net!ListRow
      <4> QED
        BY <2>1, <3>1, <3>2, <4>1
    <3>4. i = k
      BY <3>1, <3>3 DEF PageInv, AdaptersInv
    <3>5. Net!Rewritten(i, as) = list[i]
      BY <2>1 DEF Net!Rewritten
    <3>6. Net!ListRow(as[i]) = Net!ListRow(adapters[i])
      BY <3>2, <3>4 DEF Net!ListRow
    <3> QED
      BY <3>1, <3>5, <3>6
  <2>2. CASE ~(i \in DOMAIN list /\ list[i].index = IndexOf[as[i].row] /\ ~as[i].dirty)
    BY <2>2 DEF Net!Rewritten
  <2> QED
    BY <2>1, <2>2
<1>5. list' = [i \in DOMAIN as |-> Net!ListRow(as[i])]
  BY <1>2, <1>4
<1>6. AdaptersInv'
  <2>1. (\A i \in DOMAIN adapters : /\ adapters[i].row \in Rows
                                     /\ adapters[i].read = lastSample
                                     /\ adapters[i].counted = adapters[i].elapsed)'
    BY <1>1, <1>2, <1>3
  <2>2. (\A i, j \in DOMAIN adapters :
           IndexOf[adapters[i].row] = IndexOf[adapters[j].row] => i = j)'
    <3>1. \A i, j \in DOMAIN as : IndexOf[as[i].row] = IndexOf[as[j].row] => i = j
      <4>1. \A i \in DOMAIN as : as[i].row = ids[i] /\ i \in DOMAIN ids
        BY <1>3
      <4> TAKE i, j \in DOMAIN as
      <4>2. as[i].row = ids[i] /\ as[j].row = ids[j] /\ i \in DOMAIN ids /\ j \in DOMAIN ids
        BY <4>1
      <4>3. IndexOf[ids[i]] = IndexOf[ids[j]] => i = j
        BY <1>1, <4>2
      <4> QED
        BY <4>2, <4>3
    <3> QED
      BY <1>2, <3>1
  <2>3. (list = [i \in DOMAIN adapters |-> Net!ListRow(adapters[i])])'
    BY <1>2, <1>5 DEF Net!ListRow
  <2> QED
    BY <2>1, <2>2, <2>3 DEF AdaptersInv
<1>7. CASE Net!SizePage(height, as)
  BY <1>2, <1>6, <1>7, SizePageNames DEF PageInv
<1>8. CASE /\ panes' = IF Net!LabelsChanged(as) THEN Net!Labelled(as, panes, perPage, first) ELSE panes
           /\ Len(as) = Len(adapters)
           /\ UNCHANGED <<perPage, first, bar>>
  <2>1. CASE Net!LabelsChanged(as)
    <3>1. panes' = Net!Labelled(adapters', panes, perPage', first')
      BY <1>2, <1>8, <2>1
    <3>2. Net!TitlesNameTheGraphs'
      BY <3>1, LabelledNames DEF Net!TitlesNameTheGraphs
    <3> QED
      BY <1>6, <3>2 DEF PageInv
  <2>2. CASE ~Net!LabelsChanged(as)
    <3>1. DOMAIN as = DOMAIN adapters
          /\ \A i \in DOMAIN as : as[i].row = adapters[i].row
      <4>1. [i \in DOMAIN as |-> as[i].row] = [i \in DOMAIN adapters |-> adapters[i].row]
        BY <2>2 DEF Net!LabelsChanged
      <4> DEFINE f == [i \in DOMAIN as |-> as[i].row]
                 g == [i \in DOMAIN adapters |-> adapters[i].row]
      <4>2. /\ DOMAIN f = DOMAIN as /\ DOMAIN g = DOMAIN adapters
            /\ \A i \in DOMAIN as : f[i] = as[i].row
            /\ \A i \in DOMAIN adapters : g[i] = adapters[i].row
        OBVIOUS
      <4>3. f = g
        BY <4>1
      <4> HIDE DEF f, g
      <4> QED
        BY <4>2, <4>3
    <3>2. \A i \in DOMAIN as : as[i].name = adapters[i].name
      <4> TAKE i \in DOMAIN as
      <4>1. Net!Known(as[i].row) /\ Net!AdapterOf(as[i].row).name = as[i].name
        BY <2>2 DEF Net!LabelsChanged
      <4>2. \E k \in DOMAIN adapters : Net!AdapterOf(as[i].row) = adapters[k]
                                       /\ adapters[k].row = as[i].row
        BY <4>1 DEF Net!Known, Net!AdapterOf
      <4> QED
        BY <3>1, <4>1, <4>2 DEF PageInv, AdaptersInv
    <3>3. \A i : Net!TitleOf(as, i) = Net!TitleOf(adapters, i)
      BY <3>1, <3>2 DEF Net!TitleOf
    <3>4. panes' = panes
      BY <1>8, <2>2
    <3> QED
      BY <1>2, <1>6, <1>8, <3>3, <3>4 DEF PageInv, Net!TitlesNameTheGraphs
  <2> QED
    BY <2>1, <2>2
<1> QED
  BY <1>7, <1>8 DEF Net!ApplySnapshot, ids, as

\* A result is applied, or there is none, or it is a failure and changes nothing.
LEMMA DrainedPage ==
  ASSUME PageInv, NetworkInv, Net!Drained
  PROVE  PageInv'
<1>1. CASE Net!ApplySnapshot
  BY <1>1, SnapshotApplied
<1>2. CASE UNCHANGED <<adapters, lastSample, list, height, panes, perPage, first, bar>>
  BY <1>2 DEF PageInv, AdaptersInv, Net!TitlesNameTheGraphs, Net!ListRow
<1> QED
  BY <1>1, <1>2 DEF Net!Drained, Net!KeepSnapshot, Net!layout

\* A worker that starts over has no rows.
LEMMA IdleIsAWorker ==
  ASSUME NetworkInv, NEW w,
         w \in {Net!AfterDrain, [Net!Idle EXCEPT !.at = "asked"],
                [Net!AfterDrain EXCEPT !.queued = TRUE]}
  PROVE  /\ w = [at |-> w.at, rows |-> w.rows, sampled |-> w.sampled, ok |-> w.ok,
                 queued |-> w.queued]
         /\ DOMAIN w.rows \subseteq Rows
<1>1. DOMAIN << >> \subseteq Rows
  OBVIOUS
<1> DEFINE none == Net!Idle
           asked == [none EXCEPT !.at = "asked"]
           d == Net!AfterDrain
<1>2. /\ none = [at |-> none.at, rows |-> none.rows, sampled |-> none.sampled, ok |-> none.ok,
                 queued |-> none.queued]
      /\ DOMAIN none.rows \subseteq Rows
  BY <1>1 DEF Net!Idle
<1>3. /\ asked = [at |-> "asked", rows |-> none.rows, sampled |-> none.sampled, ok |-> none.ok,
                  queued |-> none.queued]
      /\ DOMAIN asked.rows \subseteq Rows
  <2> HIDE DEF none
  <2>1. asked = [at |-> "asked", rows |-> none.rows, sampled |-> none.sampled, ok |-> none.ok,
                 queued |-> none.queued]
    BY <1>2
  <2>2. asked.rows = none.rows
    BY <2>1
  <2> QED
    BY <1>2, <2>1, <2>2
<1>4. /\ d = [at |-> d.at, rows |-> d.rows, sampled |-> d.sampled, ok |-> d.ok,
              queued |-> d.queued]
      /\ DOMAIN d.rows \subseteq Rows
  <2>1. d \in {netWorker, asked, none}
    BY DEF Net!AfterDrain
  <2> HIDE DEF none, asked, d
  <2> QED
    BY <1>2, <1>3, <2>1 DEF NetworkInv
<1>5. CASE w = [d EXCEPT !.queued = TRUE]
  <2> HIDE DEF d
  <2>1. w = [at |-> d.at, rows |-> d.rows, sampled |-> d.sampled, ok |-> d.ok, queued |-> TRUE]
    BY <1>4, <1>5
  <2> QED
    BY <1>4, <2>1
<1>6. CASE w = d
  BY <1>4, <1>6
<1>7. CASE w = asked
  <2> HIDE DEF none, asked
  <2> QED
    BY <1>3, <1>7
<1> QED
  BY <1>5, <1>6, <1>7

\* The worker collects rows of the table.
LEMMA CollectedRows ==
  ASSUME NetworkInv, Net!Collect \/ Net!CollectFails
  PROVE  NetworkInv'
<1>1. CASE Net!Collect
  <2>1. PICK moved :
          netWorker' = [netWorker EXCEPT !.at = "done", !.sampled = netClock + 1, !.ok = TRUE,
             !.rows = [r \in present |-> [name |-> name[r],
                                          figure |-> Net!Cardinality(moved \intersect {r})]]]
    BY <1>1 DEF Net!Collect
  <2> DEFINE rows == [r \in present |-> [name |-> name[r],
                                          figure |-> Net!Cardinality(moved \intersect {r})]]
  <2>2. DOMAIN rows = present
    OBVIOUS
  <2> HIDE DEF rows
  <2>3. netWorker' = [at |-> "done", rows |-> rows, sampled |-> netClock + 1, ok |-> TRUE,
                      queued |-> netWorker.queued]
    BY <2>1 DEF NetworkInv, rows
  <2>4. present' = present
    BY <1>1 DEF Net!Collect, Net!world
  <2> QED
    BY SMTT(60), <2>2, <2>3, <2>4 DEF NetworkInv
<1>2. CASE Net!CollectFails
  <2>1. netWorker' = [at |-> "done", rows |-> << >>, sampled |-> netClock + 1, ok |-> FALSE,
                      queued |-> netWorker.queued]
    BY <1>2 DEF Net!CollectFails, NetworkInv
  <2>2. present' = present
    BY <1>2 DEF Net!CollectFails, Net!world
  <2> QED
    BY <2>1, <2>2 DEF NetworkInv
<1> QED
  BY <1>1, <1>2

\* The window or its scroll bar changes: the titles follow.
LEMMA LayoutChanges ==
  ASSUME PageInv, Net!Resize \/ Net!Scroll
  PROVE  PageInv'
<1>1. UNCHANGED <<adapters, lastSample, list>>
  BY DEF Net!Resize, Net!Scroll
<1>2. AdaptersInv'
  BY <1>1 DEF PageInv, AdaptersInv, Net!ListRow
<1>3. CASE Net!Resize
  <2>1. \E h \in Heights : Net!SizePage(h, adapters')
    BY <1>1, <1>3 DEF Net!Resize
  <2> QED
    BY <1>2, <2>1, SizePageNames DEF PageInv
<1>4. CASE Net!Scroll
  <2>1. UNCHANGED perPage
        /\ \/ panes' = panes /\ UNCHANGED first
           \/ panes' = Net!Labelled(adapters', panes, perPage', first')
    BY <1>1, <1>4 DEF Net!Scroll
  <2>2. Net!TitlesNameTheGraphs'
    BY <1>1, <2>1, LabelledNames DEF PageInv, Net!TitlesNameTheGraphs
  <2> QED
    BY <1>2, <2>2 DEF PageInv
<1> QED
  BY <1>3, <1>4

\* Steps that concern neither the page nor the worker.
LEMMA NetworkKept ==
  ASSUME NetworkInv, present' \subseteq Rows, UNCHANGED netWorker
  PROVE  NetworkInv'
  BY DEF NetworkInv

LEMMA PageKept ==
  ASSUME PageInv, UNCHANGED <<adapters, lastSample, list, panes, perPage, first>>
  PROVE  PageInv'
  BY DEF PageInv, AdaptersInv, Net!TitlesNameTheGraphs, Net!ListRow

\* Every step of the Networking page keeps what it holds and shows.
LEMMA NetworkStep ==
  ASSUME NetworkInv, PageInv, Net!Next
  PROVE  NetworkInv' /\ PageInv'
<1>1. CASE Net!SystemChanges
  <2>1. UNCHANGED <<netWorker, adapters, lastSample, list, panes, perPage, first>>
    BY <1>1 DEF Net!SystemChanges, Net!layout
  <2>2. present' \subseteq Rows
    BY <1>1 DEF Net!SystemChanges, NetworkInv
  <2> QED
    BY <2>1, <2>2, NetworkKept, PageKept
<1>2. CASE Net!Collect \/ Net!CollectFails
  <2>1. UNCHANGED <<adapters, lastSample, list, panes, perPage, first>>
    BY <1>2 DEF Net!Collect, Net!CollectFails, Net!layout
  <2> QED
    BY <1>2, <2>1, CollectedRows, PageKept
<1>3. CASE Net!Complete \/ Net!TimerEvent
  <2>1. Net!Drained /\ present' = present
    BY <1>3 DEF Net!Complete, Net!TimerEvent, Net!world
  <2>2. netWorker' \in {Net!AfterDrain, [Net!Idle EXCEPT !.at = "asked"],
                        [Net!AfterDrain EXCEPT !.queued = TRUE]}
    BY <1>3 DEF Net!Complete, Net!TimerEvent
  <2>3. /\ netWorker' = [at |-> netWorker'.at, rows |-> netWorker'.rows,
                         sampled |-> netWorker'.sampled, ok |-> netWorker'.ok,
                         queued |-> netWorker'.queued]
        /\ DOMAIN netWorker'.rows \subseteq Rows
    BY <2>2, IdleIsAWorker
  <2>4. NetworkInv'
    BY <2>1, <2>3 DEF NetworkInv
  <2> QED
    BY <2>1, <2>4, DrainedPage
<1>4. CASE Net!Resize \/ Net!Scroll
  <2>1. UNCHANGED <<present, netWorker>>
    BY <1>4 DEF Net!Resize, Net!Scroll, Net!world
  <2>2. present \subseteq Rows
    BY DEF NetworkInv
  <2> QED
    BY <1>4, <2>1, <2>2, LayoutChanges, NetworkKept
<1> QED
  BY <1>1, <1>2, <1>3, <1>4 DEF Net!Next

\* The page begins empty.
LEMMA NetworkStart ==
  ASSUME Net!Init
  PROVE  NetworkInv /\ PageInv
<1>1. /\ present = Connected /\ netWorker = Net!Idle /\ adapters = << >> /\ list = << >>
      /\ panes = << >>
  BY DEF Net!Init
<1>2. NetworkInv
  BY <1>1, NetworkAssumption DEF NetworkInv, Net!Idle
<1>3. DOMAIN adapters = {} /\ DOMAIN panes = {}
  BY <1>1
<1>4. list = [i \in DOMAIN adapters |-> Net!ListRow(adapters[i])]
  BY <1>1, <1>3
<1> QED
  BY <1>2, <1>3, <1>4 DEF PageInv, AdaptersInv, Net!TitlesNameTheGraphs

\* What the page holds is what it promises.
LEMMA NetworkShows ==
  ASSUME PageInv
  PROVE  /\ Net!RatesSpanOneInterval /\ Net!ListShowsTheAdapters
         /\ Net!TitlesNameTheGraphs
<1>1. \A i \in DOMAIN list : i \in DOMAIN adapters
                             /\ list[i].index = IndexOf[adapters[i].row]
  BY DEF PageInv, AdaptersInv, Net!ListRow
<1>2. \A i, j \in DOMAIN list : i # j => list[i].index # list[j].index
  <2> TAKE i, j \in DOMAIN list
  <2>1. /\ i \in DOMAIN adapters /\ j \in DOMAIN adapters
        /\ list[i].index = IndexOf[adapters[i].row] /\ list[j].index = IndexOf[adapters[j].row]
    BY <1>1
  <2>2. IndexOf[adapters[i].row] = IndexOf[adapters[j].row] => i = j
    BY <2>1 DEF PageInv, AdaptersInv
  <2> QED
    BY <2>1, <2>2
<1> QED
  BY <1>2 DEF PageInv, AdaptersInv, Net!RatesSpanOneInterval, Net!ListShowsTheAdapters

\* Whatever was sampled, failed, resized and scrolled: every adapter is shown
\* once, its throughput is of one interval, and a graph has its adapter's name
\* (apply_adapter_snapshot, update_listview, label_graphs).
THEOREM AdaptersAreShown == ListsSpec => []ScreenShowsTheAdapters
<1> DEFINE Inv == which = "network" => NetworkInv /\ PageInv
<1>1. ListsInit => Inv
  BY NetworkStart DEF ListsInit
<1>2. Inv /\ [ListsNext]_<<which, vars, processesVars, networkVars>> => Inv'
  <2> SUFFICES ASSUME Inv, [ListsNext]_<<which, vars, processesVars, networkVars>>,
                      which' = "network"
               PROVE  NetworkInv' /\ PageInv'
    OBVIOUS
  <2>1. CASE UNCHANGED networkVars /\ which' = which
    <3>1. /\ UNCHANGED <<present, netWorker>> /\ NetworkInv /\ PageInv
          /\ UNCHANGED <<adapters, lastSample, list, panes, perPage, first>>
      BY <2>1 DEF networkVars
    <3>2. present \subseteq Rows
      BY <3>1 DEF NetworkInv
    <3> QED
      BY <3>1, <3>2, NetworkKept, PageKept
  <2>2. CASE which = "network" /\ Net!Next
    BY <2>2, NetworkStep
  <2> QED
    BY <2>1, <2>2 DEF ListsNext
<1>3. Inv => ScreenShowsTheAdapters
  BY NetworkShows DEF ScreenShowsTheAdapters
<1> QED
  BY <1>1, <1>2, <1>3, PTL DEF ListsSpec

-----------------------------------------------------------------------------
(* The process list: the sampler.                                           *)

\* The processes that have run, and of these the ones that have ended.
Lived == [all |-> past, gone |-> past \ alive]
Grown(seen, more) == seen.all \subseteq more.all /\ seen.gone \subseteq more.gone

\* An identity is that of a process seen under its PID.
IdFits(id, seen) ==
    List!Verified(id) => id.created \in seen.all /\ PidOf[id.created] = id.pid

Own(r) == List!Verified(r.id) /\ r.user = AccountOf[r.id.created]

\* What is known of a process, in a row of a snapshot or in an entry: the share is
\* over one interval; the account is that of the process itself or, if that one has
\* ended or is not known, that of a process seen with the row's PID and image.
Known(r, seen) ==
    /\ r.id.pid \in Nat \ {0} /\ r.image \in Nat /\ r.user \in Nat /\ r.cpu \in Nat
    /\ IdFits(r.id, seen)
    /\ r.since[1] = r.since[2] /\ (r.cpu # 0 => r.since[1] # 0)
    /\ r.user # 0 =>
         \/ Own(r)
         \/ /\ List!Verified(r.id) => r.id.created \in seen.gone
            /\ \E p \in seen.all : /\ PidOf[p] = r.id.pid /\ ImageOf[p] = r.image
                                 /\ AccountOf[p] = r.user

RowFits(r, seen) ==
    /\ r = [id |-> r.id, image |-> r.image, user |-> r.user, cpu |-> r.cpu, since |-> r.since]
    /\ Known(r, seen)

\* A snapshot has one row for a PID.
RowsFit(rows, seen) ==
    /\ IsFiniteSet(rows)
    /\ \A r \in rows : RowFits(r, seen)
    /\ \A r, s \in rows : r.id.pid = s.id.pid => r = s

\* A remembered name is that of the process itself, unless that one has ended.
NameFits(id, user, seen) ==
    /\ List!Verified(id) /\ IdFits(id, seen) /\ user \in Nat
    /\ id.created \in seen.gone \/ user = AccountOf[id.created]

NamesFit(known, seen) == \A id \in DOMAIN known : NameFits(id, known[id], seen)

\* All baselines are as old as the system's.
BaselinesFit(samples, time) == \A id \in DOMAIN samples : samples[id] = time

\* The processes that run have PIDs of their own.
MachineInv ==
    /\ alive \subseteq past /\ past \subseteq Processes
    /\ \A p, q \in alive : PidOf[p] = PidOf[q] => p = q

\* The processes still to be opened have PIDs of their own, and none that a row has;
\* until WTS is asked, an account is that of the row's own process.
ListingFits(w, seen) ==
    /\ w.left \subseteq seen.all
    /\ \A p, q \in w.left : PidOf[p] = PidOf[q] => p = q
    /\ \A r \in w.rows, p \in w.left : r.id.pid # PidOf[p]
    /\ w.at = "walk" => \A r \in w.rows : r.user # 0 => Own(r)

WorkerFits(w, seen) ==
    /\ w = [at |-> w.at, left |-> w.left, rows |-> w.rows, ok |-> w.ok,
            queued |-> w.queued]
    /\ RowsFit(w.rows, seen) /\ ListingFits(w, seen)

SamplerInv ==
    /\ MachineInv
    /\ WorkerFits(listWorker, Lived)
    /\ BaselinesFit(baseline, systemTime)
    /\ NamesFit(names, Lived)

\* What is known stays true as processes start and end.
LEMMA KnownStays ==
  ASSUME NEW r, NEW seen, NEW more, Grown(seen, more), Known(r, seen)
  PROVE  Known(r, more)
  BY DEF Known, Grown, IdFits

LEMMA RowsStay ==
  ASSUME NEW rows, NEW seen, NEW more, Grown(seen, more), RowsFit(rows, seen)
  PROVE  RowsFit(rows, more)
  BY KnownStays DEF RowsFit, RowFits

LEMMA NamesStay ==
  ASSUME NEW known, NEW seen, NEW more, Grown(seen, more), NamesFit(known, seen)
  PROVE  NamesFit(known, more)
<1>1. ASSUME NEW id \in DOMAIN known
      PROVE  NameFits(id, known[id], more)
  BY DEF NamesFit, NameFits, Grown, IdFits
<1> QED
  BY <1>1 DEF NamesFit

\* A set of values of a function on a finite set is finite.
LEMMA ValuesAreFinite ==
  ASSUME NEW S, IsFiniteSet(S), NEW f, DOMAIN f = S, NEW T, T = {f[x] : x \in S},
         f = [x \in S |-> f[x]]
  PROVE  IsFiniteSet(T)
<1>1. f \in [S -> T] /\ \A t \in T : \E x \in S : f[x] = t
  OBVIOUS
<1>2. f \in Surjection(S, T)
  BY <1>1, Fun_IsSurj
<1> QED
  BY <1>2, FS_Surjection

\* A process that is opened makes a row that fits, with no account but its own.
LEMMA RowMade ==
  ASSUME SamplerInv, NEW p \in past, NEW created \in List!Holders(p) \union {List!Unread},
         NEW token, NEW busy
  PROVE  LET r == List!Row(p, created, token, busy) IN
         RowFits(r, Lived) /\ r.id.pid = PidOf[p] /\ (r.user # 0 => Own(r))
<1> DEFINE id == List!Identity(PidOf[p], created)
           comparable == id \in DOMAIN baseline /\ systemTime # 0
           user == IF id \in DOMAIN names THEN names[id]
                   ELSE IF List!Verified(id) /\ token THEN AccountOf[created] ELSE 0
           cpu == IF comparable /\ busy THEN 1 ELSE 0
           since == IF comparable THEN <<baseline[id], systemTime>> ELSE <<0, 0>>
           r == List!Row(p, created, token, busy)
<1>1. r = [id |-> id, image |-> ImageOf[p], user |-> user, cpu |-> cpu, since |-> since]
  BY DEF List!Row
<1>2. /\ id.pid = PidOf[p] /\ id.created = created
      /\ List!Verified(id) => created \in alive /\ PidOf[created] = PidOf[p]
  BY DEF List!Identity, List!Verified, List!Holders
<1>3. /\ PidOf[p] \in Nat \ {0} /\ ImageOf[p] \in Nat
      /\ alive \subseteq past /\ \A q \in alive : AccountOf[q] \in Nat
  BY ProcessesAssumption DEF SamplerInv, MachineInv
<1> HIDE DEF id
<1>4. since[1] = since[2] /\ (cpu # 0 => since[1] # 0) /\ cpu \in Nat
  BY DEF SamplerInv, BaselinesFit
<1>5. user \in Nat /\ (user # 0 => List!Verified(id) /\ user = AccountOf[id.created])
  <2>1. CASE id \in DOMAIN names
    <3>1. NameFits(id, names[id], Lived)
      BY <2>1 DEF SamplerInv, NamesFit
    <3>2. id.created \notin Lived.gone
      BY <1>2, <3>1 DEF NameFits, Lived
    <3> QED
      BY <2>1, <3>1, <3>2 DEF NameFits
  <2>2. CASE id \notin DOMAIN names
    BY <1>2, <1>3, <2>2
  <2> QED
    BY <2>1, <2>2
<1>6. IdFits(id, Lived)
  BY <1>2, <1>3 DEF IdFits, Lived
<1> HIDE DEF r, user, cpu, since, comparable
<1>7. /\ r.id = id /\ r.image = ImageOf[p] /\ r.user = user /\ r.cpu = cpu /\ r.since = since
      /\ r = [id |-> r.id, image |-> r.image, user |-> r.user, cpu |-> r.cpu, since |-> r.since]
  BY <1>1
<1>8. r.user # 0 => Own(r)
  BY <1>5, <1>7 DEF Own
<1>9. Known(r, Lived)
  BY <1>2, <1>3, <1>4, <1>5, <1>6, <1>7, <1>8 DEF Known
<1> QED
  BY <1>2, <1>7, <1>8, <1>9 DEF RowFits, r

\* Merging the accounts WTS knows keeps a row fitting: whom WTS names for the PID of
\* a process that runs is that process.
LEMMA RowMerged ==
  ASSUME MachineInv, NEW r, RowFits(r, Lived), r.user # 0 => Own(r),
         NEW known, known \subseteq alive
  PROVE  RowFits(List!Merged(r, known), Lived) /\ List!Merged(r, known).id = r.id
<1> DEFINE match == {q \in known : PidOf[q] = r.id.pid /\ ImageOf[q] = r.image}
           q == CHOOSE q \in match : TRUE
<1>1. CASE r.user = 0 /\ match # {}
  <2>1. q \in match
    BY <1>1
  <2>2. /\ q \in alive /\ q \in past /\ PidOf[q] = r.id.pid /\ ImageOf[q] = r.image
        /\ AccountOf[q] \in Nat
    BY <2>1, ProcessesAssumption DEF MachineInv
  <2> DEFINE m == List!Merged(r, known)
  <2>3. m = [r EXCEPT !.user = AccountOf[q]]
    BY <1>1 DEF List!Merged
  <2> HIDE DEF m, q, match
  <2>4. m = [id |-> r.id, image |-> r.image, user |-> AccountOf[q], cpu |-> r.cpu, since |-> r.since]
    BY <2>3 DEF RowFits
  <2>5. /\ m.id = r.id /\ m.image = r.image /\ m.user = AccountOf[q] /\ m.cpu = r.cpu
        /\ m.since = r.since
        /\ m = [id |-> m.id, image |-> m.image, user |-> m.user, cpu |-> m.cpu, since |-> m.since]
    BY <2>4
  <2>6. Own(m) \/ (List!Verified(m.id) => m.id.created \in Lived.gone)
    <3> SUFFICES ASSUME List!Verified(m.id), m.id.created \notin Lived.gone
                 PROVE  Own(m)
      OBVIOUS
    <3>1. m.id.created \in past /\ PidOf[m.id.created] = r.id.pid
      BY <2>5 DEF RowFits, Known, IdFits, Lived
    <3>2. m.id.created \in alive
      BY <3>1 DEF Lived
    <3>3. m.id.created = q
      BY <2>2, <3>1, <3>2 DEF MachineInv
    <3> QED
      BY <2>5, <3>3 DEF Own
  <2>7. q \in Lived.all
    BY <2>2 DEF Lived
  <2>8. Known(m, Lived)
    BY <2>2, <2>5, <2>6, <2>7 DEF Known, RowFits
  <2> QED
    BY <2>5, <2>8 DEF RowFits, m
<1>2. CASE ~(r.user = 0 /\ match # {})
  BY <1>2 DEF List!Merged
<1> QED
  BY <1>1, <1>2

\* The snapshot.
LEMMA SnapshotTaken ==
  ASSUME SamplerInv, List!Snapshot
  PROVE  SamplerInv'
<1> DEFINE w == listWorker'
<1>1. /\ w = [listWorker EXCEPT !.at = "walk", !.left = alive, !.rows = {}]
      /\ UNCHANGED <<alive, past, baseline, systemTime, names>>
  BY DEF List!Snapshot, List!world, List!sampler
<1>2. w = [at |-> "walk", left |-> alive, rows |-> {}, ok |-> listWorker.ok,
           queued |-> listWorker.queued]
  BY <1>1 DEF SamplerInv, WorkerFits
<1> HIDE DEF w
<1>3. /\ w.left = alive /\ w.rows = {}
      /\ w = [at |-> w.at, left |-> w.left, rows |-> w.rows, ok |-> w.ok, queued |-> w.queued]
  BY <1>2
<1>4. RowsFit({}, Lived)
  BY FS_EmptySet DEF RowsFit
<1>5. ListingFits(w, Lived)
  BY <1>3 DEF ListingFits, Lived, SamplerInv, MachineInv
<1>6. WorkerFits(w, Lived)
  BY <1>3, <1>4, <1>5 DEF WorkerFits
<1>7. Lived' = Lived
  BY <1>1 DEF Lived
<1> QED
  BY <1>1, <1>6, <1>7 DEF SamplerInv, MachineInv, w

\* One process of the snapshot is opened.
LEMMA RowOpened ==
  ASSUME SamplerInv, NEW p \in listWorker.left, List!OpenRow(p)
  PROVE  SamplerInv'
<1>1. PICK created \in List!Holders(p) \union {List!Unread}, token \in BOOLEAN,
           busy \in BOOLEAN :
        listWorker' = [listWorker EXCEPT !.left = @ \ {p},
                         !.rows = @ \union {List!Row(p, created, token, busy)}]
  BY DEF List!OpenRow
<1>2. UNCHANGED <<alive, past, baseline, systemTime, names>>
  BY DEF List!OpenRow, List!world, List!sampler
<1>3. listWorker.at = "walk"
  BY DEF List!OpenRow
<1> DEFINE w == listWorker'
           r == List!Row(p, created, token, busy)
           left == listWorker.left \ {p}
           rows == listWorker.rows \union {r}
<1>4. p \in past
  BY DEF SamplerInv, WorkerFits, ListingFits, Lived
<1>5. RowFits(r, Lived) /\ r.id.pid = PidOf[p] /\ (r.user # 0 => Own(r))
  BY <1>4, RowMade
<1>6. w = [listWorker EXCEPT !.left = left, !.rows = rows]
  BY <1>1
<1> HIDE DEF w, r, left, rows
<1>7. w = [at |-> "walk", left |-> left, rows |-> rows, ok |-> listWorker.ok,
           queued |-> listWorker.queued]
  BY <1>3, <1>6 DEF SamplerInv, WorkerFits
<1>8. /\ w.left = left /\ w.rows = rows
      /\ w = [at |-> w.at, left |-> w.left, rows |-> w.rows, ok |-> w.ok, queued |-> w.queued]
  BY <1>7
<1>9. RowsFit(rows, Lived)
  <2>1. IsFiniteSet(rows)
    BY FS_AddElement DEF rows, SamplerInv, WorkerFits, RowsFit
  <2>2. \A s \in rows : RowFits(s, Lived)
    BY <1>5 DEF rows, SamplerInv, WorkerFits, RowsFit
  <2>3. \A s \in listWorker.rows : s.id.pid # r.id.pid
    BY <1>5 DEF SamplerInv, WorkerFits, ListingFits
  <2>4. \A s, u \in rows : s.id.pid = u.id.pid => s = u
    BY <2>3 DEF rows, SamplerInv, WorkerFits, RowsFit
  <2> QED
    BY <2>1, <2>2, <2>4 DEF RowsFit
<1>10. ListingFits(w, Lived)
  <2>1. /\ left \subseteq Lived.all
        /\ \A q, s \in left : PidOf[q] = PidOf[s] => q = s
    BY DEF left, SamplerInv, WorkerFits, ListingFits
  <2>2. \A s \in rows, q \in left : s.id.pid # PidOf[q]
    BY <1>5 DEF rows, left, SamplerInv, WorkerFits, ListingFits
  <2>3. \A s \in rows : s.user # 0 => Own(s)
    BY <1>3, <1>5 DEF rows, SamplerInv, WorkerFits, ListingFits
  <2> QED
    BY <1>8, <2>1, <2>2, <2>3 DEF ListingFits
<1>11. WorkerFits(w, Lived) /\ Lived' = Lived
  BY <1>2, <1>8, <1>9, <1>10 DEF WorkerFits, Lived
<1> QED
  BY <1>2, <1>11 DEF SamplerInv, MachineInv, w

\* The merge: the baselines and the names are of the snapshot's rows.
LEMMA MergeDone ==
  ASSUME SamplerInv, List!Merge
  PROVE  SamplerInv'
<1>1. PICK known \in SUBSET alive :
        LET rows == {List!Merged(r, known) : r \in listWorker.rows} IN
        /\ listWorker' = [listWorker EXCEPT !.at = "done", !.rows = rows, !.ok = TRUE]
        /\ names' = [id \in {r.id : r \in List!Resolved(rows)} |->
                       (CHOOSE r \in rows : r.id = id).user]
        /\ baseline' = [id \in {r.id : r \in {s \in rows : List!Verified(s.id)}} |-> clock]
  BY DEF List!Merge
<1> DEFINE f == [r \in listWorker.rows |-> List!Merged(r, known)]
           rows == {List!Merged(r, known) : r \in listWorker.rows}
           w == listWorker'
           yes == TRUE
<1>2. /\ w = [listWorker EXCEPT !.at = "done", !.rows = rows, !.ok = yes]
      /\ names' = [id \in {r.id : r \in List!Resolved(rows)} |->
                     (CHOOSE r \in rows : r.id = id).user]
      /\ baseline' = [id \in {r.id : r \in {s \in rows : List!Verified(s.id)}} |-> clock]
  BY <1>1
<1>3. rows = {f[r] : r \in listWorker.rows} /\ DOMAIN f = listWorker.rows
      /\ f = [r \in listWorker.rows |-> f[r]]
  OBVIOUS
<1>4. \A r \in listWorker.rows : RowFits(f[r], Lived) /\ f[r].id = r.id
  <2>1. \A r \in listWorker.rows : RowFits(r, Lived) /\ (r.user # 0 => Own(r))
    BY DEF List!Merge, SamplerInv, WorkerFits, RowsFit, ListingFits
  <2> QED
    BY <2>1, RowMerged DEF SamplerInv
<1>5. w = [at |-> "done", left |-> {}, rows |-> rows, ok |-> yes,
           queued |-> listWorker.queued]
  <2>1. listWorker.left = {}
    BY DEF List!Merge
  <2> HIDE DEF rows, yes, w
  <2> QED
    BY <1>2, <2>1 DEF SamplerInv, WorkerFits
<1> HIDE DEF f, rows, w, yes
<1>6. RowsFit(rows, Lived)
  <2>1. IsFiniteSet(rows)
    BY <1>3, ValuesAreFinite DEF SamplerInv, WorkerFits, RowsFit
  <2>2. \A r \in rows : RowFits(r, Lived)
    BY <1>3, <1>4
  <2>3. ASSUME NEW r \in rows, NEW s \in rows, r.id.pid = s.id.pid
        PROVE  r = s
    <3>1. PICK p \in listWorker.rows : r = f[p]
      BY <1>3
    <3>2. PICK q \in listWorker.rows : s = f[q]
      BY <1>3
    <3>3. p = q
      BY <1>4, <2>3, <3>1, <3>2 DEF SamplerInv, WorkerFits, RowsFit
    <3> QED
      BY <3>1, <3>2, <3>3
  <2> QED
    BY <2>1, <2>2, <2>3 DEF RowsFit
<1>7. NamesFit(names', Lived)
  <2> SUFFICES ASSUME NEW id \in DOMAIN names'
               PROVE  NameFits(id, names'[id], Lived)
    BY DEF NamesFit
  <2>1. PICK s \in rows : s.id = id /\ List!Verified(s.id) /\ s.user # 0
    BY <1>2 DEF List!Resolved
  <2> DEFINE r == CHOOSE r \in rows : r.id = id
  <2>2. r \in rows /\ r.id = id
    BY <2>1
  <2>3. names'[id] = r.user
    BY <1>2
  <2> HIDE DEF r
  <2>4. Known(r, Lived)
    BY <1>6, <2>2 DEF RowsFit, RowFits
  <2>5. r = s
    BY <1>6, <2>1, <2>2 DEF RowsFit
  <2>6. r.user = AccountOf[id.created] \/ id.created \in Lived.gone
    BY <2>1, <2>2, <2>4, <2>5 DEF Known, Own
  <2> QED
    BY <2>1, <2>2, <2>3, <2>4, <2>6 DEF NameFits, Known
<1>8. BaselinesFit(baseline', systemTime')
  <2>1. systemTime' = clock
    BY DEF List!Merge
  <2> QED
    BY <1>2, <2>1 DEF BaselinesFit
<1>9. UNCHANGED <<alive, past>>
  BY DEF List!Merge, List!world
<1>10. /\ w.at = "done" /\ w.left = {} /\ w.rows = rows
       /\ w = [at |-> w.at, left |-> w.left, rows |-> w.rows, ok |-> w.ok, queued |-> w.queued]
  BY <1>5
<1>11. WorkerFits(w, Lived) /\ Lived' = Lived
  BY <1>6, <1>9, <1>10 DEF WorkerFits, ListingFits, Lived
<1> QED
  BY SMTT(60), <1>7, <1>8, <1>9, <1>11 DEF SamplerInv, MachineInv, w

\* A worker that has failed, been drained or been asked holds no row it did not
\* hold before.
LEMMA WorkersFit ==
  ASSUME SamplerInv
  PROVE  /\ WorkerFits(listWorker, Lived) /\ WorkerFits(List!Failed, Lived)
         /\ WorkerFits(List!DrainedWorker, Lived)
         /\ \A w : WorkerFits(w, Lived) => WorkerFits(List!Asked(w), Lived)
<1> DEFINE yes == TRUE
           no == FALSE
<1>1. RowsFit({}, Lived)
  BY FS_EmptySet DEF RowsFit
<1>2. WorkerFits(listWorker, Lived)
  BY DEF SamplerInv
<1>3. \A at, ok, queued :
        WorkerFits([at |-> at, left |-> {}, rows |-> {}, ok |-> ok, queued |-> queued], Lived)
  BY <1>1 DEF WorkerFits, ListingFits
<1>4. WorkerFits(List!Failed, Lived)
  <2>1. List!Failed = [listWorker EXCEPT !.at = "done", !.ok = no, !.left = {}, !.rows = {}]
    BY DEF List!Failed
  <2> HIDE DEF no
  <2>2. List!Failed = [at |-> "done", left |-> {}, rows |-> {}, ok |-> no,
                       queued |-> listWorker.queued]
    BY <2>1 DEF SamplerInv, WorkerFits
  <2> QED
    BY <1>3, <2>2
<1>5. List!Idle = [at |-> "idle", left |-> {}, rows |-> {}, ok |-> yes, queued |-> no]
  BY DEF List!Idle
<1>6. WorkerFits([List!Idle EXCEPT !.at = "asked"], Lived) /\ WorkerFits(List!Idle, Lived)
  <2> DEFINE i == List!Idle
  <2> HIDE DEF i, yes, no
  <2>1. i = [at |-> "idle", left |-> {}, rows |-> {}, ok |-> yes, queued |-> no]
    BY <1>5 DEF i
  <2>2. [i EXCEPT !.at = "asked"] =
          [at |-> "asked", left |-> {}, rows |-> {}, ok |-> yes, queued |-> no]
    BY <2>1
  <2> QED
    BY <1>3, <2>1, <2>2 DEF i
<1>7. WorkerFits(List!DrainedWorker, Lived)
  BY <1>2, <1>6 DEF List!DrainedWorker
<1>8. ASSUME NEW w, WorkerFits(w, Lived)
      PROVE  WorkerFits(List!Asked(w), Lived)
  <2>1. WorkerFits([w EXCEPT !.queued = yes], Lived)
    <3> HIDE DEF yes
    <3> DEFINE v == [w EXCEPT !.queued = yes]
    <3>1. v = [at |-> w.at, left |-> w.left, rows |-> w.rows, ok |-> w.ok, queued |-> yes]
      BY <1>8 DEF WorkerFits
    <3> HIDE DEF v
    <3>2. /\ v.at = w.at /\ v.left = w.left /\ v.rows = w.rows
          /\ v = [at |-> v.at, left |-> v.left, rows |-> v.rows, ok |-> v.ok,
                  queued |-> v.queued]
      BY <3>1
    <3> QED
      BY <1>8, <3>2 DEF WorkerFits, ListingFits, v
  <2> QED
    BY <1>6, <2>1 DEF List!Asked
<1> QED
  BY <1>2, <1>4, <1>7, <1>8

\* Processes start and exit.
LEMMA MachineMoves ==
  ASSUME SamplerInv, NEW p \in Processes, List!StartProcess(p) \/ List!ExitProcess(p)
  PROVE  SamplerInv' /\ Grown(Lived, Lived')
<1>1. /\ past \subseteq past' /\ past \ alive \subseteq past' \ alive'
      /\ MachineInv'
  BY DEF List!StartProcess, List!ExitProcess, SamplerInv, MachineInv
<1>2. UNCHANGED <<listWorker, baseline, systemTime, names>>
  BY DEF List!StartProcess, List!ExitProcess, List!sampler
<1>3. Grown(Lived, Lived')
  BY <1>1 DEF Grown, Lived
<1>4. RowsFit(listWorker.rows, Lived') /\ NamesFit(names, Lived')
  BY <1>3, RowsStay, NamesStay DEF SamplerInv, WorkerFits
<1>5. ListingFits(listWorker, Lived')
  BY <1>3 DEF SamplerInv, WorkerFits, ListingFits, Grown
<1>6. WorkerFits(listWorker, Lived')
  BY <1>4, <1>5 DEF SamplerInv, WorkerFits
<1> QED
  BY <1>1, <1>2, <1>3, <1>4, <1>6 DEF SamplerInv

\* The collector fails, or is rebuilt.
LEMMA CollectorFails ==
  ASSUME SamplerInv, List!CollectFails \/ List!CollectPanics
  PROVE  SamplerInv'
<1>1. UNCHANGED <<alive, past>> /\ listWorker' = List!Failed
  BY DEF List!CollectFails, List!CollectPanics, List!world
<1>2. \/ UNCHANGED <<baseline, systemTime, names>>
      \/ baseline' = << >> /\ names' = << >>
  BY DEF List!CollectFails, List!CollectPanics, List!sampler
<1>3. BaselinesFit(baseline', systemTime') /\ NamesFit(names', Lived)
  BY <1>2 DEF SamplerInv, BaselinesFit, NamesFit
<1>4. WorkerFits(listWorker', Lived)
  BY <1>1, WorkersFit
<1> QED
  BY <1>1, <1>3, <1>4 DEF SamplerInv, MachineInv, Lived

\* What the page does leaves the sampler as it is, but for its queue.
LEMMA PageTakes ==
  ASSUME SamplerInv, UNCHANGED <<alive, past, baseline, systemTime, names>>,
         listWorker' \in {listWorker, List!DrainedWorker, List!Asked(List!DrainedWorker)}
  PROVE  SamplerInv'
<1>1. WorkerFits(listWorker', Lived)
  BY WorkersFit
<1> QED
  BY <1>1 DEF SamplerInv, MachineInv, Lived

-----------------------------------------------------------------------------
(* The process list: the page.                                              *)

\* An enumeration has every element, a later one at a higher index.
LEMMA EnumeratedInOrder ==
  ASSUME NEW S, IsFiniteSet(S), NEW R, Orders(R, S), NEW f, Enumerates(f, S, R)
  PROVE  /\ \A x \in S : \E i \in 1..Cardinality(S) : f[i] = x
         /\ \A i, j \in 1..Cardinality(S) : i < j => <<f[i], f[j]>> \in R
<1> DEFINE n == Cardinality(S)
<1>1. /\ n \in Nat
      /\ \A x \in S : Place(S, R, x) \in Nat /\ Place(S, R, x) + 1 <= n
      /\ \A x, z \in S : <<x, z>> \in R => Place(S, R, x) < Place(S, R, z)
  BY PlacesRise
<1>2. /\ \A i \in 1..n : \E x \in S : Place(S, R, x) = i - 1
      /\ \A x, z \in S : Place(S, R, x) = Place(S, R, z) => x = z
  BY Ranked
<1>3. \A i \in 1..n : f[i] \in S /\ Place(S, R, f[i]) = i - 1
  BY <1>2 DEF Enumerates
<1> HIDE DEF n
<1>4. ASSUME NEW x \in S
      PROVE  \E i \in 1..n : f[i] = x
  <2> DEFINE i == Place(S, R, x) + 1
  <2>1. i \in 1..n /\ Place(S, R, x) = i - 1
    BY <1>1
  <2> HIDE DEF i
  <2>2. f[i] = x
    BY <1>2, <1>3, <2>1
  <2> QED
    BY <2>1, <2>2
<1>5. ASSUME NEW i \in 1..n, NEW j \in 1..n, i < j
      PROVE  <<f[i], f[j]>> \in R
  <2>1. f[i] \in S /\ f[j] \in S /\ Place(S, R, f[i]) = i - 1 /\ Place(S, R, f[j]) = j - 1
    BY <1>3
  <2>2. f[i] # f[j] /\ <<f[j], f[i]>> \notin R
    BY <1>1, <1>5, <2>1
  <2> QED
    BY <2>1, <2>2 DEF Orders
<1> QED
  BY <1>4, <1>5 DEF n

SortColumns == {"image", "user", "cpu", "pid"}

EntryFits(e, seen) ==
    /\ e = [id |-> e.id, image |-> e.image, user |-> e.user, cpu |-> e.cpu,
            since |-> e.since, text |-> e.text, dirty |-> e.dirty]
    /\ e.text = [c \in List!Columns |-> e.text[c]]
    /\ Known(e, seen)

\* The entries fit, and have PIDs of their own.
EntriesFit(es, seen) ==
    /\ Len(es) \in Nat /\ es = [i \in 1..Len(es) |-> es[i]]
    /\ \A i \in 1..Len(es) : EntryFits(es[i], seen)
    /\ \A i, j \in 1..Len(es) : es[i].id.pid = es[j].id.pid => i = j

PageFits(p, seen) ==
    /\ p = [entries |-> p.entries, displayed |-> p.displayed, screen |-> p.screen,
            active |-> p.active, sort |-> p.sort, descending |-> p.descending,
            listed |-> p.listed, selected |-> p.selected, find |-> p.find]
    /\ p.sort \in SortColumns
    /\ EntriesFit(p.entries, seen)

\* What is painted is what is known, by the index the list view has it under; the
\* selection is of the list and the process looked for is not.
RowsShown(p) ==
    /\ p.screen = [i \in DOMAIN p.entries |-> List!Face(p.entries[i])]
    /\ p.displayed = List!RowIds(p)
    /\ p.listed = List!IndexIn(p, p.selected)
    /\ p.selected # List!None => p.selected \in List!Listed(p)
    /\ p.find # List!None => p.find \notin List!Listed(p)

RowsInOrder(p) ==
    \A i, j \in 1..Len(p.entries) :
      i < j => List!Before(p, p.entries[i], p.entries[j])

Displays(p, seen) == PageFits(p, seen) /\ RowsShown(p) /\ RowsInOrder(p)

ListInv == SamplerInv /\ Displays(listPage, Lived)

LEMMA PageStays ==
  ASSUME NEW p, NEW seen, NEW more, Grown(seen, more), PageFits(p, seen)
  PROVE  PageFits(p, more)
<1>1. \A e : EntryFits(e, seen) => EntryFits(e, more)
  BY KnownStays DEF EntryFits
<1>2. EntriesFit(p.entries, more)
  BY <1>1 DEF PageFits, EntriesFit
<1> QED
  BY <1>2 DEF PageFits

\* No entry has the identity of none.
LEMMA EntryIsSomebody ==
  ASSUME NEW e, NEW seen, Known(e, seen)
  PROVE  e.id # List!None
<1>1. List!None.pid = 0
  BY DEF List!None, List!Identity
<1> QED
  BY <1>1 DEF Known

\* The index of an identity.
LEMMA IndexMeans ==
  ASSUME NEW p, NEW seen, EntriesFit(p.entries, seen)
  PROVE  /\ DOMAIN p.entries = 1..Len(p.entries)
         /\ \A id : id \in List!Listed(p) <=> \E i \in 1..Len(p.entries) : p.entries[i].id = id
         /\ \A id : id \notin List!Listed(p) => List!IndexIn(p, id) = 0
         /\ \A i \in 1..Len(p.entries) : List!IndexIn(p, p.entries[i].id) = i
         /\ List!None \notin List!Listed(p)
<1> DEFINE n == Len(p.entries)
<1>1. n \in Nat /\ DOMAIN p.entries = 1..n
  BY DEF EntriesFit
<1>2. \A id : id \in List!Listed(p) <=> \E i \in 1..n : p.entries[i].id = id
  BY <1>1 DEF List!Listed
<1>3. \A id : id \notin List!Listed(p) => List!IndexIn(p, id) = 0
  BY DEF List!IndexIn
<1>4. ASSUME NEW i \in 1..n
      PROVE  List!IndexIn(p, p.entries[i].id) = i
  <2> DEFINE k == CHOOSE k \in DOMAIN p.entries : p.entries[k].id = p.entries[i].id
  <2>1. List!IndexIn(p, p.entries[i].id) = k
    BY <1>2 DEF List!IndexIn
  <2>2. k \in 1..n /\ p.entries[k].id = p.entries[i].id
    BY <1>1
  <2> HIDE DEF k
  <2>3. k = i
    BY <2>2 DEF EntriesFit
  <2> QED
    BY <2>1, <2>3
<1>5. List!None \notin List!Listed(p)
  BY <1>2, EntryIsSomebody DEF EntriesFit, EntryFits
<1> QED
  BY <1>1, <1>2, <1>3, <1>4, <1>5

\* Pages with the same identities at the same indexes have the same index for each.
SameIds(p, q) ==
    /\ Len(p.entries) = Len(q.entries)
    /\ \A i \in 1..Len(p.entries) : p.entries[i].id = q.entries[i].id

LEMMA IndexAgrees ==
  ASSUME NEW p, NEW q, NEW seen, EntriesFit(p.entries, seen), EntriesFit(q.entries, seen),
         SameIds(p, q)
  PROVE  /\ \A id : id \in List!Listed(p) <=> id \in List!Listed(q)
         /\ \A id : List!IndexIn(p, id) = List!IndexIn(q, id)
<1>1. \A id : id \in List!Listed(p) <=> \E i \in 1..Len(p.entries) : p.entries[i].id = id
  BY IndexMeans
<1>2. \A id : id \in List!Listed(q) <=> \E i \in 1..Len(q.entries) : q.entries[i].id = id
  BY IndexMeans
<1>3. \A id : id \in List!Listed(p) <=> id \in List!Listed(q)
  BY <1>1, <1>2 DEF SameIds
<1>4. ASSUME NEW id
      PROVE  List!IndexIn(p, id) = List!IndexIn(q, id)
  <2>1. CASE id \in List!Listed(p)
    <3>1. PICK i \in 1..Len(p.entries) : p.entries[i].id = id
      BY <1>1, <2>1
    <3>2. List!IndexIn(p, id) = i
      BY <3>1, IndexMeans
    <3>3. q.entries[i].id = id /\ i \in 1..Len(q.entries)
      BY <3>1 DEF SameIds
    <3>4. List!IndexIn(q, id) = i
      BY <3>3, IndexMeans
    <3> QED
      BY <3>2, <3>4
  <2>2. CASE id \notin List!Listed(p)
    <3>1. List!IndexIn(p, id) = 0
      BY <2>2, IndexMeans
    <3>2. List!IndexIn(q, id) = 0
      BY <1>3, <2>2, IndexMeans
    <3> QED
      BY <3>1, <3>2
  <2> QED
    BY <2>1, <2>2
<1> QED
  BY <1>3, <1>4

\* The row the list view calls selected is that of the selected process.
LEMMA CurrentIsSelected ==
  ASSUME NEW p, NEW seen, Displays(p, seen)
  PROVE  List!Or(List!CurrentSelected(p), p.selected) = p.selected
<1>1. EntriesFit(p.entries, seen)
  BY DEF Displays, PageFits
<1>2. CASE p.selected \in List!Listed(p)
  <2>1. PICK i \in 1..Len(p.entries) : p.entries[i].id = p.selected
    BY <1>1, <1>2, IndexMeans
  <2>2. p.listed = i /\ i \in DOMAIN p.entries
    BY <1>1, <2>1, IndexMeans DEF Displays, RowsShown
  <2> QED
    BY <2>1, <2>2 DEF List!CurrentSelected, List!Or
<1>3. CASE p.selected \notin List!Listed(p)
  <2>1. p.listed = 0 /\ DOMAIN p.entries = 1..Len(p.entries)
    BY <1>1, <1>3, IndexMeans DEF Displays, RowsShown
  <2> QED
    BY <2>1 DEF List!CurrentSelected, List!Or
<1> QED
  BY <1>2, <1>3

\* An entry marked as painted, or given other texts, is still the entry.
LEMMA EntryMarked ==
  ASSUME NEW e, NEW seen, EntryFits(e, seen), NEW f,
         f = [id |-> e.id, image |-> e.image, user |-> e.user, cpu |-> e.cpu,
              since |-> e.since, text |-> e.text, dirty |-> f.dirty]
  PROVE  /\ EntryFits(f, seen) /\ f.id = e.id /\ f.text = e.text
         /\ \A c \in SortColumns : List!Value(f, c) = List!Value(e, c)
<1>2. /\ f.id = e.id /\ f.image = e.image /\ f.user = e.user /\ f.cpu = e.cpu
      /\ f.since = e.since /\ f.text = e.text
      /\ f = [id |-> f.id, image |-> f.image, user |-> f.user, cpu |-> f.cpu,
              since |-> f.since, text |-> f.text, dirty |-> f.dirty]
  OBVIOUS
<1>3. Known(f, seen)
  BY <1>2 DEF Known, Own, EntryFits
<1>4. \A c \in SortColumns : List!Value(f, c) = List!Value(e, c)
  BY <1>2 DEF List!Value, SortColumns
<1> QED
  BY <1>2, <1>3, <1>4 DEF EntryFits

\* The order of two entries is that of their values and PIDs.
LEMMA BeforeAgrees ==
  ASSUME NEW p, NEW q, p.sort = q.sort, p.descending = q.descending, p.sort \in SortColumns,
         NEW a, NEW b, NEW e, NEW f, a.id.pid = e.id.pid, b.id.pid = f.id.pid,
         List!Value(a, p.sort) = List!Value(e, p.sort),
         List!Value(b, p.sort) = List!Value(f, p.sort),
         List!Before(p, e, f)
  PROVE  List!Before(q, a, b)
  BY DEF List!Before

\* Rebuilding paints every row, although rows that are not marked are left as they
\* are when neither the rows nor their order changed.
SpareFits(p) ==
    ~List!RowsMoved(p) =>
      /\ \A i \in 1..Len(p.entries) :
           p.entries[i].dirty = {} => p.screen[i] = List!Face(p.entries[i])
      /\ p.listed = List!IndexIn(p, p.selected)

LEMMA RebuildShows ==
  ASSUME NEW p, NEW seen, PageFits(p, seen), RowsInOrder(p), SpareFits(p),
         p.find # List!None => p.find \notin List!Listed(p)
  PROVE  /\ Displays(List!Rebuild(p), seen)
         /\ List!Rebuild(p).find = p.find
         /\ \A id : id \in List!Listed(List!Rebuild(p)) <=> id \in List!Listed(p)
         /\ List!Rebuild(p).selected = IF p.selected \in List!Listed(p) THEN p.selected
                                       ELSE List!None
<1> DEFINE n == Len(p.entries)
           index == List!IndexIn(p, p.selected)
           bulk == List!RowsMoved(p)
           marked == {i \in DOMAIN p.entries : p.entries[i].dirty # {}}
           Repainted(i) == bulk \/ \E a, b \in marked : a <= i /\ i <= b
           es == [i \in DOMAIN p.entries |-> [p.entries[i] EXCEPT !.dirty = {}]]
           painted == [i \in DOMAIN p.entries |->
                        IF Repainted(i) THEN List!Face(p.entries[i]) ELSE p.screen[i]]
           ids == List!RowIds(p)
           row == IF bulk THEN index ELSE p.listed
           choice == IF index = 0 THEN List!None ELSE p.selected
           q == List!Rebuild(p)
<1>1. /\ n \in Nat /\ DOMAIN p.entries = 1..n
      /\ \A i \in 1..n : EntryFits(p.entries[i], seen)
      /\ \A i, j \in 1..n : p.entries[i].id.pid = p.entries[j].id.pid => i = j
      /\ EntriesFit(p.entries, seen) /\ p.sort \in SortColumns
  BY IndexMeans DEF PageFits, EntriesFit
<1>2. q = [p EXCEPT !.entries = es, !.screen = painted, !.displayed = ids,
                    !.listed = row, !.selected = choice]
  BY DEF List!Rebuild, PageFits
<1> HIDE DEF q
<1>3. \A i \in 1..n :
        /\ EntryFits(es[i], seen) /\ es[i].id = p.entries[i].id
        /\ List!Face(es[i]) = List!Face(p.entries[i])
        /\ \A c \in SortColumns : List!Value(es[i], c) = List!Value(p.entries[i], c)
  <2> TAKE i \in 1..n
  <2> DEFINE e == p.entries[i]
             f == es[i]
             none == {}
  <2>1. f = [e EXCEPT !.dirty = none] /\ EntryFits(e, seen)
    BY <1>1
  <2> HIDE DEF es, e, f, none
  <2>2. /\ EntryFits(f, seen) /\ f.id = e.id /\ f.text = e.text
        /\ \A c \in SortColumns : List!Value(f, c) = List!Value(e, c)
    <3>1. f = [id |-> e.id, image |-> e.image, user |-> e.user, cpu |-> e.cpu,
               since |-> e.since, text |-> e.text, dirty |-> none]
      BY <2>1 DEF EntryFits
    <3>2. f.dirty = none
      BY <3>1
    <3> QED
      BY ZenonT(60), <2>1, <3>1, <3>2, EntryMarked
  <2> QED
    BY <2>2 DEF List!Face, e, f
<1>4. /\ Len(es) = n /\ es = [i \in 1..n |-> es[i]]
      /\ DOMAIN es = 1..n
  <2>1. es = [i \in 1..n |-> es[i]]
    BY <1>1
  <2> HIDE DEF es, n
  <2> QED
    BY <1>1, <2>1, FunctionIsSequence
<1>5. painted = [i \in 1..n |-> List!Face(p.entries[i])]
  <2>1. ASSUME NEW i \in 1..n
        PROVE  (IF Repainted(i) THEN List!Face(p.entries[i]) ELSE p.screen[i])
                 = List!Face(p.entries[i])
    <3>1. CASE Repainted(i)
      BY <3>1
    <3>2. CASE ~Repainted(i)
      <4>1. ~bulk
        BY <3>2
      <4>2. i \notin marked
        <5> HIDE DEF marked
        <5>1. i <= i
          BY <1>1
        <5> QED
          BY <3>2, <5>1
      <4>3. p.entries[i].dirty = {}
        BY <1>1, <4>2
      <4> QED
        BY <3>2, <4>1, <4>3 DEF SpareFits
    <3> QED
      BY <3>1, <3>2
  <2> HIDE DEF Repainted
  <2> QED
    BY <1>1, <2>1
<1> HIDE DEF es, painted, ids, row, choice
<1>6. q = [entries |-> es, displayed |-> ids, screen |-> painted,
           active |-> p.active, sort |-> p.sort, descending |-> p.descending,
           listed |-> row, selected |-> choice, find |-> p.find]
  BY <1>2 DEF PageFits
<1>7. /\ q.entries = es /\ q.displayed = ids /\ q.screen = painted /\ q.active = p.active
      /\ q.sort = p.sort /\ q.descending = p.descending /\ q.listed = row
      /\ q.selected = choice /\ q.find = p.find
  BY <1>6
<1>8. EntriesFit(es, seen)
  BY <1>1, <1>3, <1>4 DEF EntriesFit
<1>9. PageFits(q, seen)
  BY <1>1, <1>6, <1>7, <1>8 DEF PageFits
<1>10. /\ \A id : id \in List!Listed(q) <=> id \in List!Listed(p)
       /\ \A id : List!IndexIn(q, id) = List!IndexIn(p, id)
  <2>1. EntriesFit(q.entries, seen) /\ SameIds(p, q)
    BY <1>3, <1>4, <1>7, <1>8 DEF SameIds
  <2> QED
    BY <1>1, <2>1, IndexAgrees
<1>11. choice = IF p.selected \in List!Listed(p) THEN p.selected ELSE List!None
  <2>1. p.selected \in List!Listed(p) => index # 0
    <3> HAVE p.selected \in List!Listed(p)
    <3>1. PICK i \in 1..n : p.entries[i].id = p.selected
      BY <1>1, IndexMeans
    <3>2. index = i
      BY <1>1, <3>1, IndexMeans
    <3> QED
      BY <1>1, <3>2
  <2>2. p.selected \notin List!Listed(p) => index = 0
    BY <1>1, IndexMeans
  <2> QED
    BY <2>1, <2>2 DEF choice
<1>12. row = List!IndexIn(q, choice)
  <2>1. row = index
    BY DEF row, SpareFits
  <2>2. index = List!IndexIn(p, choice)
    <3>1. CASE p.selected \in List!Listed(p)
      BY <1>11, <3>1
    <3>2. CASE p.selected \notin List!Listed(p)
      <4>1. index = 0 /\ List!IndexIn(p, List!None) = 0
        BY <1>1, <3>2, IndexMeans
      <4> QED
        BY <1>11, <3>2, <4>1
    <3> QED
      BY <3>1, <3>2
  <2> QED
    BY <1>10, <2>1, <2>2
<1>13. q.displayed = List!RowIds(q)
  <2>1. List!RowIds(q) = [i \in 1..n |-> es[i].id]
    BY <1>4, <1>7 DEF List!RowIds
  <2>2. ids = [i \in 1..n |-> p.entries[i].id]
    BY <1>1 DEF List!RowIds, ids
  <2>3. [i \in 1..n |-> es[i].id] = [i \in 1..n |-> p.entries[i].id]
    BY <1>3
  <2> QED
    BY <1>7, <2>1, <2>2, <2>3
<1>14. q.screen = [i \in DOMAIN q.entries |-> List!Face(q.entries[i])]
  <2>1. [i \in 1..n |-> List!Face(es[i])] = [i \in 1..n |-> List!Face(p.entries[i])]
    BY <1>3
  <2> QED
    BY <1>4, <1>5, <1>7, <2>1
<1>15. RowsShown(q)
  <2>1. choice # List!None => choice \in List!Listed(q)
    BY <1>10, <1>11
  <2>2. q.find # List!None => q.find \notin List!Listed(q)
    BY <1>7, <1>10
  <2> QED
    BY <1>7, <1>12, <1>13, <1>14, <2>1, <2>2 DEF RowsShown
<1>16. RowsInOrder(q)
  <2> SUFFICES ASSUME NEW i \in 1..n, NEW j \in 1..n, i < j
               PROVE  List!Before(q, es[i], es[j])
    BY <1>4, <1>7 DEF RowsInOrder
  <2>1. List!Before(p, p.entries[i], p.entries[j])
    BY DEF RowsInOrder
  <2>2. /\ es[i].id.pid = p.entries[i].id.pid /\ es[j].id.pid = p.entries[j].id.pid
        /\ List!Value(es[i], p.sort) = List!Value(p.entries[i], p.sort)
        /\ List!Value(es[j], p.sort) = List!Value(p.entries[j], p.sort)
    BY <1>1, <1>3
  <2> QED
    BY <1>1, <1>7, <2>1, <2>2, BeforeAgrees
<1> QED
  BY <1>7, <1>9, <1>10, <1>11, <1>15, <1>16 DEF Displays, q

\* Entries that fit and have PIDs of their own are strictly ordered.
LEMMA BeforeOrders ==
  ASSUME NEW p, p.sort \in SortColumns, NEW seen, NEW es, \A e \in es : EntryFits(e, seen),
         \A e, f \in es : e.id.pid = f.id.pid => e = f,
         NEW R, \A e, f \in es : <<e, f>> \in R <=> e # f /\ List!Before(p, e, f)
  PROVE  Orders(R, es)
<1> DEFINE value(e) == List!Value(e, p.sort)
           less(e, f) == value(e) < value(f) \/ (value(e) = value(f) /\ e.id.pid < f.id.pid)
<1>1. \A e \in es : value(e) \in Int /\ e.id.pid \in Int
  <2> TAKE e \in es
  <2>1. e.id.pid \in Int /\ e.image \in Int /\ e.user \in Int /\ e.cpu + 1 \in Int
    <3>1. Known(e, seen)
      BY DEF EntryFits
    <3>2. e.id.pid \in Nat /\ e.image \in Nat /\ e.user \in Nat /\ e.cpu \in Nat
      BY <3>1 DEF Known
    <3> QED
      BY <3>2
  <2>2. \/ value(e) = e.image \/ value(e) = e.user \/ value(e) = e.cpu + 1
        \/ value(e) = e.id.pid
    BY DEF List!Value, SortColumns
  <2> QED
    BY <2>1, <2>2
<1>2. \A e, f \in es : <<e, f>> \in R <=> IF p.descending THEN less(f, e) ELSE less(e, f)
  <2> TAKE e, f \in es
  <2>1. List!Before(p, e, f) <=>
          IF p.descending
          THEN value(e) > value(f) \/ (value(e) = value(f) /\ e.id.pid >= f.id.pid)
          ELSE value(e) < value(f) \/ (value(e) = value(f) /\ e.id.pid <= f.id.pid)
    BY DEF List!Before
  <2> HIDE DEF value
  <2>2. e.id.pid = f.id.pid <=> e = f
    OBVIOUS
  <2> QED
    BY <1>1, <2>1, <2>2
<1>3. /\ \A e, f \in es : e = f \/ less(e, f) \/ less(f, e)
      /\ \A e \in es : ~less(e, e)
      /\ \A e, f, g \in es : less(e, f) /\ less(f, g) => less(e, g)
  <2> HIDE DEF value
  <2>1. \A e, f \in es : e = f \/ less(e, f) \/ less(f, e)
    BY <1>1
  <2>2. \A e \in es : ~less(e, e)
    BY <1>1
  <2>3. \A e, f, g \in es : less(e, f) /\ less(f, g) => less(e, g)
    BY <1>1
  <2> QED
    BY <2>1, <2>2, <2>3
<1> HIDE DEF less
<1>4. CASE p.descending
  <2>1. \A e, f \in es : <<e, f>> \in R <=> less(f, e)
    BY <1>2, <1>4
  <2> QED
    BY <1>3, <2>1 DEF Orders
<1>5. CASE ~p.descending
  <2>1. \A e, f \in es : <<e, f>> \in R <=> less(e, f)
    BY <1>2, <1>5
  <2> QED
    BY <1>3, <2>1 DEF Orders
<1> QED
  BY <1>4, <1>5

\* A page with other entries.
LEMMA EntriesReplaced ==
  ASSUME NEW p, NEW seen, PageFits(p, seen), NEW es, EntriesFit(es, seen),
         NEW q, q = [p EXCEPT !.entries = es]
  PROVE  /\ PageFits(q, seen) /\ q.entries = es /\ q.displayed = p.displayed
         /\ q.screen = p.screen /\ q.active = p.active /\ q.sort = p.sort
         /\ q.descending = p.descending /\ q.listed = p.listed
         /\ q.selected = p.selected /\ q.find = p.find
<1>1. q = [entries |-> es, displayed |-> p.displayed, screen |-> p.screen,
           active |-> p.active, sort |-> p.sort, descending |-> p.descending,
           listed |-> p.listed, selected |-> p.selected, find |-> p.find]
  BY DEF PageFits
<1>2. /\ q.entries = es /\ q.displayed = p.displayed
      /\ q.screen = p.screen /\ q.active = p.active /\ q.sort = p.sort
      /\ q.descending = p.descending /\ q.listed = p.listed
      /\ q.selected = p.selected /\ q.find = p.find
  BY <1>1
<1>3. PageFits(q, seen)
  BY <1>1, <1>2 DEF PageFits
<1> QED
  BY <1>2, <1>3

\* Sorting: the same entries, in order.
LEMMA ResortSorts ==
  ASSUME NEW p, NEW seen, PageFits(p, seen)
  PROVE  /\ EntriesFit(List!Resort(p).entries, seen)
         /\ List!Resort(p) = [p EXCEPT !.entries = List!Resort(p).entries]
         /\ RowsInOrder(List!Resort(p))
         /\ \A i \in 1..Len(List!Resort(p).entries) : \E k \in 1..Len(p.entries) :
              List!Resort(p).entries[i] = p.entries[k]
         /\ \A k \in 1..Len(p.entries) : \E i \in 1..Len(List!Resort(p).entries) :
              List!Resort(p).entries[i] = p.entries[k]
<1> DEFINE n == Len(p.entries)
           es == {p.entries[i] : i \in DOMAIN p.entries}
           R == {pr \in es \X es : pr[1] # pr[2] /\ List!Before(p, pr[1], pr[2])}
           low(e) == List!Cardinality({f \in es \ {e} : List!Before(p, f, e)})
           f == [i \in DOMAIN p.entries |-> CHOOSE e \in es : low(e) = i - 1]
           q == List!Resort(p)
<1>1. /\ n \in Nat /\ DOMAIN p.entries = 1..n
      /\ \A i \in 1..n : EntryFits(p.entries[i], seen)
      /\ \A i, j \in 1..n : p.entries[i].id.pid = p.entries[j].id.pid => i = j
      /\ p.sort \in SortColumns
  BY DEF PageFits, EntriesFit
<1>2. IsFiniteSet(es) /\ Cardinality(es) = n
  <2> DEFINE b == [i \in 1..n |-> p.entries[i]]
  <2>1. b \in Bijection(1..n, es)
    <3>1. b \in [1..n -> es] /\ \A t \in es : \E i \in 1..n : b[i] = t
      BY <1>1
    <3>2. \A i, j \in 1..n : b[i] = b[j] => i = j
      BY <1>1
    <3> HIDE DEF b, es, n
    <3> QED
      BY <3>1, <3>2, Fun_IsInj, Fun_IsSurj DEF Bijection
  <2>2. ExistsBijection(1..n, es)
    BY <2>1 DEF ExistsBijection
  <2> HIDE DEF b, es, n
  <2>3. IsFiniteSet(1..n) /\ Cardinality(1..n) = n
    BY <1>1, FS_Interval
  <2> QED
    BY <2>2, <2>3, FS_Bijection
<1>3. /\ \A e \in es : EntryFits(e, seen)
      /\ \A e, g \in es : e.id.pid = g.id.pid => e = g
      /\ \A i \in 1..n : p.entries[i] \in es
      /\ \A e \in es : \E k \in 1..n : e = p.entries[k]
  BY <1>1
<1>4. \A e, g \in es : <<e, g>> \in R <=> e # g /\ List!Before(p, e, g)
  <2> HIDE DEF es
  <2> QED
    OBVIOUS
<1>5. q = [p EXCEPT !.entries = f]
  BY DEF List!Resort
<1> HIDE DEF q
<1>6. Orders(R, es)
  <2> HIDE DEF es, R
  <2> QED
    BY <1>1, <1>3, <1>4, BeforeOrders
<1>7. \A e \in es : low(e) = Place(es, R, e)
  <2> TAKE e \in es
  <2>1. {g \in es \ {e} : List!Before(p, g, e)} = {g \in es : <<g, e>> \in R}
    <3> HIDE DEF es, R
    <3> QED
      BY <1>4
  <2> HIDE DEF es, R
  <2> QED
    BY <2>1 DEF Place, List!Cardinality, Cardinality
<1>8. /\ DOMAIN f = 1..n /\ f = [i \in 1..n |-> f[i]]
      /\ \A i \in 1..n : f[i] = CHOOSE e \in es : low(e) = i - 1
  <2> DEFINE pick(i) == CHOOSE e \in es : low(e) = i - 1
  <2>1. f = [i \in DOMAIN p.entries |-> pick(i)]
    OBVIOUS
  <2>2. \A i : pick(i) = CHOOSE e \in es : low(e) = i - 1
    OBVIOUS
  <2> HIDE DEF f, pick, n, low, es
  <2> QED
    BY <1>1, <2>1, <2>2
<1> HIDE DEF es, R, low, f, n
<1>9. Enumerates(f, es, R)
  <2>1. ASSUME NEW i \in 1..n, \E x \in es : Place(es, R, x) = i - 1
        PROVE  f[i] \in es /\ Place(es, R, f[i]) = i - 1
    <3>1. \E e \in es : low(e) = i - 1
      BY <1>7, <2>1
    <3>2. f[i] \in es /\ low(f[i]) = i - 1
      BY <1>8, <3>1
    <3> QED
      BY <1>7, <3>2
  <2> QED
    BY <1>2, <1>8, <2>1 DEF Enumerates
<1>10. /\ Len(f) = n /\ \A i \in 1..n : f[i] \in es
       /\ \A i, j \in 1..n : f[i] = f[j] => i = j
       /\ \A x \in es : \E i \in 1..n : f[i] = x
       /\ \A i, j \in 1..n : i < j => <<f[i], f[j]>> \in R
  BY <1>2, <1>6, <1>9, Enumerated, EnumeratedInOrder
<1>11. EntriesFit(f, seen)
  <2>1. ASSUME NEW i \in 1..n, NEW j \in 1..n, f[i].id.pid = f[j].id.pid
        PROVE  i = j
    <3>1. f[i] = f[j]
      BY <1>3, <1>10, <2>1
    <3> QED
      BY <1>10, <3>1
  <2>2. \A i \in 1..n : EntryFits(f[i], seen)
    BY <1>3, <1>10
  <2> QED
    BY <1>1, <1>8, <1>10, <2>1, <2>2 DEF EntriesFit
<1>12. q.entries = f /\ q.sort = p.sort /\ q.descending = p.descending
  BY <1>5, <1>11, EntriesReplaced
<1>13. RowsInOrder(q)
  <2> SUFFICES ASSUME NEW i \in 1..n, NEW j \in 1..n, i < j
               PROVE  List!Before(q, f[i], f[j])
    BY <1>10, <1>12 DEF RowsInOrder
  <2>1. List!Before(p, f[i], f[j])
    BY <1>4, <1>10
  <2> QED
    BY <1>1, <1>12, <2>1, BeforeAgrees
<1>14. /\ \A i \in 1..n : \E k \in 1..n : f[i] = p.entries[k]
       /\ \A k \in 1..n : \E i \in 1..n : f[i] = p.entries[k]
  BY <1>3, <1>10
<1> QED
  BY <1>5, <1>10, <1>11, <1>12, <1>13, <1>14 DEF q, n

\* The first n numbers are n.
LEMMA FirstNumbers ==
  ASSUME NEW n \in Nat
  PROVE  IsFiniteSet(1..n) /\ Cardinality(1..n) = n
  BY FS_Interval

\* The indexes of a set, in their order.
Places(S) == [i \in 1..List!Cardinality(S) |->
    CHOOSE k \in S : List!Cardinality({m \in S : m < k}) = i - 1]

\* Each is there once, and at its own index if the set has all of them.
LEMMA PlacesInOrder ==
  ASSUME NEW n \in Nat, NEW S, S \subseteq 1..n
  PROVE  /\ Cardinality(S) \in Nat
         /\ \A i \in 1..Cardinality(S) : Places(S)[i] \in S
         /\ \A i, j \in 1..Cardinality(S) : Places(S)[i] = Places(S)[j] => i = j
         /\ Cardinality(S) = n => S = 1..n /\ \A i \in 1..n : Places(S)[i] = i
<1> DEFINE R == {pr \in S \X S : pr[1] < pr[2]}
           low(k) == List!Cardinality({m \in S : m < k})
           place(i) == CHOOSE k \in S : low(k) = i - 1
           g == Places(S)
<1>0. \A T : List!Cardinality(T) = Cardinality(T)
  BY DEF List!Cardinality, Cardinality
<1>a. g = [i \in 1..Cardinality(S) |-> place(i)]
  BY <1>0 DEF Places
<1> HIDE DEF place
<1>b. /\ DOMAIN g = 1..Cardinality(S) /\ g = [i \in 1..Cardinality(S) |-> g[i]]
      /\ \A i \in 1..Cardinality(S) : g[i] = CHOOSE k \in S : low(k) = i - 1
  <2> HIDE DEF g, low
  <2>1. \A i : place(i) = CHOOSE k \in S : low(k) = i - 1
    BY DEF place
  <2> QED
    BY <1>a, <2>1
<1> HIDE DEF g
<1>1. IsFiniteSet(1..n) /\ Cardinality(1..n) = n
  BY FirstNumbers
<1>2. IsFiniteSet(S) /\ (Cardinality(S) = n => S = 1..n)
  BY <1>1, FS_Subset
<1>3. \A x, y \in S : <<x, y>> \in R <=> x < y
  OBVIOUS
<1>4. Orders(R, S)
  <2> HIDE DEF R
  <2> QED
    BY <1>3 DEF Orders
<1>5. \A k \in S : low(k) = Place(S, R, k)
  <2> TAKE k \in S
  <2>1. {m \in S : m < k} = {y \in S : <<y, k>> \in R}
    BY <1>3
  <2> HIDE DEF R
  <2> QED
    BY <1>0, <2>1 DEF Place
<1> HIDE DEF R, low
<1>c. \A i \in 1..Cardinality(S) : \E x \in S : Place(S, R, x) = i - 1
  <2>1. IsFiniteSet(S)
    BY <1>2
  <2>2. /\ Cardinality(S) \in Nat
        /\ \A i \in 1..Cardinality(S) : \E x \in S : Place(S, R, x) = i - 1
        /\ \A x, z \in S : Place(S, R, x) = Place(S, R, z) => x = z
    BY <1>4, <2>1, Ranked
  <2> QED
    BY <2>2
<1>6. Enumerates(g, S, R)
  <2>1. ASSUME NEW i \in 1..Cardinality(S), \E x \in S : Place(S, R, x) = i - 1
        PROVE  g[i] \in S /\ Place(S, R, g[i]) = i - 1
    <3>1. \E k \in S : low(k) = i - 1
      BY <1>5, <2>1
    <3>2. g[i] = CHOOSE k \in S : low(k) = i - 1
      BY <1>b
    <3>3. g[i] \in S /\ low(g[i]) = i - 1
      BY <3>1, <3>2
    <3> QED
      BY <1>5, <3>3
  <2> QED
    BY <1>b, <2>1 DEF Enumerates
<1>7. /\ Cardinality(S) \in Nat
      /\ \A i \in 1..Cardinality(S) : g[i] \in S
      /\ \A i, j \in 1..Cardinality(S) : g[i] = g[j] => i = j
  BY <1>2, <1>4, <1>6, Enumerated
<1>8. ASSUME Cardinality(S) = n, NEW i \in 1..n
      PROVE  g[i] = i
  <2>1. S = 1..n
    BY <1>2, <1>8
  <2>2. Place(S, R, g[i]) = i - 1 /\ g[i] \in S
    <3>1. \E x \in S : Place(S, R, x) = i - 1
      BY <1>8, <1>c
    <3> QED
      BY <1>6, <1>8, <3>1 DEF Enumerates
  <2> DEFINE k == g[i]
  <2>3. k \in 1..n /\ low(k) = i - 1
    BY <1>5, <2>1, <2>2
  <2> HIDE DEF k
  <2>4. {m \in S : m < k} = 1..(k - 1) /\ k - 1 \in Nat
    BY <2>1, <2>3
  <2>5. Cardinality(1..(k - 1)) = k - 1
    <3> DEFINE h == k - 1
    <3>1. h \in Nat
      BY <2>4
    <3> HIDE DEF h
    <3>2. Cardinality(1..h) = h
      BY <3>1, FirstNumbers
    <3> QED
      BY <3>2 DEF h
  <2>6. k - 1 = i - 1
    BY <1>0, <2>3, <2>4, <2>5 DEF low
  <2>7. k = i
    BY <2>3, <2>6
  <2> QED
    BY <2>7 DEF k
<1> QED
  BY <1>2, <1>7, <1>8 DEF g

\* A finite set is listed by SetToSeq, each element once.
LEMMA SetIsListed ==
  ASSUME NEW S, IsFiniteSet(S)
  PROVE  LET f == List!SetToSeq(S) IN
         /\ Cardinality(S) \in Nat /\ Len(f) = Cardinality(S)
         /\ f = [i \in 1..Cardinality(S) |-> f[i]]
         /\ \A i \in 1..Cardinality(S) : f[i] \in S
         /\ \A i, j \in 1..Cardinality(S) : f[i] = f[j] => i = j
<1> DEFINE n == Cardinality(S)
           f == List!SetToSeq(S)
<1>1. n \in Nat /\ ExistsBijection(1..n, S)
  BY FS_CardinalityType
<1>2. \A g : List!IsInjective(g) <=> \A i, j \in DOMAIN g : g[i] = g[j] => i = j
  BY DEF List!IsInjective
<1>3. \E g \in [1..n -> S] : List!IsInjective(g)
  <2>1. PICK g : g \in Bijection(1..n, S)
    BY <1>1 DEF ExistsBijection
  <2>2. g \in [1..n -> S] /\ \A i, j \in 1..n : g[i] = g[j] => i = j
    BY <2>1 DEF Bijection, Injection, IsInjective
  <2> HIDE DEF n
  <2> QED
    BY <1>2, <2>2
<1>4. f = CHOOSE g \in [1..n -> S] : List!IsInjective(g)
  BY DEF List!SetToSeq, List!Cardinality, Cardinality
<1> HIDE DEF f, n
<1>5. f \in [1..n -> S] /\ List!IsInjective(f)
  BY <1>3, <1>4
<1>6. Len(f) = n
  BY <1>1, <1>5, FunctionIsSequence
<1> QED
  BY <1>1, <1>2, <1>5, <1>6 DEF f, n

\* A row merged into its entry: still this identity, marked if a text changed, and
\* of the same value in a column that did not change.
LEMMA EntryUpdated ==
  ASSUME NEW seen, NEW e, EntryFits(e, seen), NEW r, RowFits(r, seen), r.id = e.id,
         NEW columns
  PROVE  LET u == List!UpdatedEntry(e, r, columns) IN
         /\ EntryFits(u, seen) /\ u.id = e.id
         /\ u.dirty = {} => u.text = e.text
         /\ \A c \in SortColumns : c \notin List!Changed(e, r) =>
              List!Value(u, c) = List!Value(e, c)
<1> DEFINE shown == List!Changed(e, r) \intersect columns
           base == [e EXCEPT !.image = r.image, !.user = r.user, !.cpu = r.cpu,
                             !.since = r.since, !.dirty = @ \union shown]
           text == [c \in List!Columns |->
                      IF c \in shown THEN List!Value(base, c) ELSE base.text[c]]
           marks == e.dirty \union shown
           u == List!UpdatedEntry(e, r, columns)
<1>1. u = [base EXCEPT !.text = text]
  BY DEF List!UpdatedEntry, List!Built
<1> HIDE DEF u
<1>2. base = [id |-> e.id, image |-> r.image, user |-> r.user, cpu |-> r.cpu,
              since |-> r.since, text |-> e.text, dirty |-> marks]
  <2>1. base = [e EXCEPT !.image = r.image, !.user = r.user, !.cpu = r.cpu,
                         !.since = r.since, !.dirty = marks]
    OBVIOUS
  <2> HIDE DEF base, marks
  <2> QED
    BY <2>1 DEF EntryFits
<1> DEFINE old == e.text
<1>3. base.text = old
  BY <1>2
<1>4. text = [c \in List!Columns |-> text[c]]
      /\ \A c \in List!Columns : c \notin shown => text[c] = old[c]
  <2> HIDE DEF base, shown, old
  <2> QED
    BY <1>3
<1> HIDE DEF base, text, marks, shown
<1>5. u = [id |-> e.id, image |-> r.image, user |-> r.user, cpu |-> r.cpu,
           since |-> r.since, text |-> text, dirty |-> marks]
  BY <1>1, <1>2
<1>6. /\ u.id = e.id /\ u.image = r.image /\ u.user = r.user /\ u.cpu = r.cpu
      /\ u.since = r.since /\ u.text = text /\ u.dirty = marks
      /\ u = [id |-> u.id, image |-> u.image, user |-> u.user, cpu |-> u.cpu,
              since |-> u.since, text |-> u.text, dirty |-> u.dirty]
  BY <1>5
<1>7. Known(u, seen)
  BY <1>6 DEF Known, Own, RowFits
<1>8. EntryFits(u, seen)
  BY <1>4, <1>6, <1>7 DEF EntryFits
<1>9. ASSUME u.dirty = {}
      PROVE  u.text = e.text
  <2>1. shown = {}
    BY <1>6, <1>9 DEF marks
  <2>2. text = [c \in List!Columns |-> old[c]]
    BY <1>4, <2>1
  <2>3. e.text = [c \in List!Columns |-> e.text[c]]
    BY DEF EntryFits
  <2> QED
    BY <1>6, <2>2, <2>3 DEF old
<1>10. ASSUME NEW c \in SortColumns, c \notin List!Changed(e, r)
       PROVE  List!Value(u, c) = List!Value(e, c)
  <2>1. List!Value(u, c) = List!Value(r, c)
    BY <1>6 DEF List!Value, SortColumns
  <2>2. CASE c = "pid"
    BY <1>6, <2>2 DEF List!Value
  <2>3. CASE c # "pid"
    <3>1. c \in List!Columns
      BY <2>3 DEF SortColumns, List!Columns
    <3>2. List!Value(e, c) = List!Value(r, c)
      BY <1>10, <3>1 DEF List!Changed
    <3> QED
      BY <2>1, <3>2
  <2> QED
    BY <2>2, <2>3
<1> QED
  BY <1>6, <1>8, <1>9, <1>10 DEF u

\* A row that is new becomes an entry.
LEMMA EntryMade ==
  ASSUME NEW seen, NEW r, RowFits(r, seen), NEW columns
  PROVE  /\ EntryFits(List!NewEntry(r, columns), seen)
         /\ List!NewEntry(r, columns).id = r.id
<1> DEFINE base == [id |-> r.id, image |-> r.image, user |-> r.user, cpu |-> r.cpu,
                    since |-> r.since, text |-> [c \in List!Columns |-> List!Blank],
                    dirty |-> columns]
           text == [c \in List!Columns |->
                      IF c \in columns THEN List!Value(base, c) ELSE base.text[c]]
           u == List!NewEntry(r, columns)
           blank == [c \in List!Columns |-> List!Blank]
<1>1. u = [base EXCEPT !.text = text]
  BY DEF List!NewEntry, List!Built
<1>2. base = [id |-> r.id, image |-> r.image, user |-> r.user, cpu |-> r.cpu,
              since |-> r.since, text |-> blank, dirty |-> columns]
  OBVIOUS
<1>3. text = [c \in List!Columns |-> text[c]]
  OBVIOUS
<1> HIDE DEF base, text, u, blank
<1>4. u = [id |-> r.id, image |-> r.image, user |-> r.user, cpu |-> r.cpu,
           since |-> r.since, text |-> text, dirty |-> columns]
  BY <1>1, <1>2
<1>5. /\ u.id = r.id /\ u.image = r.image /\ u.user = r.user /\ u.cpu = r.cpu
      /\ u.since = r.since /\ u.text = text
      /\ u = [id |-> u.id, image |-> u.image, user |-> u.user, cpu |-> u.cpu,
              since |-> u.since, text |-> u.text, dirty |-> u.dirty]
  BY <1>4
<1>6. Known(u, seen)
  BY <1>5 DEF Known, Own, RowFits
<1> QED
  BY <1>3, <1>5, <1>6 DEF EntryFits, u

\* Some entries and new ones after them: the identities stay apart.
Apart(as, bs) == \A i \in 1..Len(as) : \A j \in 1..Len(bs) : as[i].id.pid # bs[j].id.pid

Joined(cs, as, bs) ==
    /\ Len(cs) = Len(as) + Len(bs) /\ \A i \in 1..Len(as) : cs[i] = as[i]
    /\ \A i \in 1..Len(cs) : \/ i \in 1..Len(as) /\ cs[i] = as[i]
                             \/ \E j \in 1..Len(bs) : cs[i] = bs[j]

LEMMA EntriesJoined ==
  ASSUME NEW seen, NEW as, EntriesFit(as, seen), NEW bs, EntriesFit(bs, seen),
         Apart(as, bs)
  PROVE  EntriesFit(as \o bs, seen) /\ Joined(as \o bs, as, bs)
<1> DEFINE m == Len(as)
           n == Len(bs)
           cs == as \o bs
           S == {as[i] : i \in 1..m} \union {bs[i] : i \in 1..n}
<1>1. m \in Nat /\ n \in Nat
  BY DEF EntriesFit
<1>2. as \in Seq(S) /\ bs \in Seq(S)
  <2>1. \A i \in 1..m : as[i] \in S
    OBVIOUS
  <2>2. \A i \in 1..n : bs[i] \in S
    OBVIOUS
  <2>3. as = [i \in 1..m |-> as[i]] /\ bs = [i \in 1..n |-> bs[i]]
    BY DEF EntriesFit
  <2> HIDE DEF S, cs, m, n
  <2>4. as \in Seq(S)
    BY <1>1, <2>1, <2>3, FunctionIsSequence
  <2>5. bs \in Seq(S)
    BY <1>1, <2>2, <2>3, FunctionIsSequence
  <2> QED
    BY <2>4, <2>5
<1>3. /\ cs \in Seq(S) /\ Len(cs) = m + n
      /\ \A i \in 1..m + n : cs[i] = IF i <= m THEN as[i] ELSE bs[i - m]
  <2> HIDE DEF S
  <2> QED
    BY <1>2, ConcatProperties
<1>4. /\ \A i \in 1..m : EntryFits(as[i], seen)
      /\ \A i \in 1..n : EntryFits(bs[i], seen)
      /\ \A i, j \in 1..m : as[i].id.pid = as[j].id.pid => i = j
      /\ \A i, j \in 1..n : bs[i].id.pid = bs[j].id.pid => i = j
  BY DEF EntriesFit
<1>5. cs = [i \in 1..m + n |-> cs[i]]
  <2> HIDE DEF S, cs, m, n
  <2>1. DOMAIN cs = 1..m + n /\ cs \in [1..Len(cs) -> S]
    BY <1>3, LenProperties
  <2>2. DOMAIN cs = 1..m + n
    BY <1>3, <2>1
  <2> QED
    BY <2>1, <2>2
<1> HIDE DEF S, cs, m, n
<1>6. \A i \in 1..m + n : \/ i \in 1..m /\ cs[i] = as[i]
                          \/ i - m \in 1..n /\ cs[i] = bs[i - m]
  <2> TAKE i \in 1..m + n
  <2>1. cs[i] = IF i <= m THEN as[i] ELSE bs[i - m]
    BY <1>3
  <2>2. i <= m => i \in 1..m
    BY <1>1
  <2>3. ~(i <= m) => i - m \in 1..n
    BY <1>1
  <2> QED
    BY <2>1, <2>2, <2>3
<1>7. ASSUME NEW i \in 1..m + n, NEW j \in 1..m + n, cs[i].id.pid = cs[j].id.pid
      PROVE  i = j
  <2>1. CASE i \in 1..m /\ cs[i] = as[i] /\ j \in 1..m /\ cs[j] = as[j]
    BY <1>4, <1>7, <2>1
  <2>2. CASE i - m \in 1..n /\ cs[i] = bs[i - m] /\ j - m \in 1..n /\ cs[j] = bs[j - m]
    <3>1. i - m = j - m
      BY <1>4, <1>7, <2>2
    <3> QED
      BY <1>1, <3>1
  <2>3. CASE i \in 1..m /\ cs[i] = as[i] /\ j - m \in 1..n /\ cs[j] = bs[j - m]
    BY <1>7, <2>3 DEF m, n, Apart
  <2>4. CASE i - m \in 1..n /\ cs[i] = bs[i - m] /\ j \in 1..m /\ cs[j] = as[j]
    BY <1>7, <2>4 DEF m, n, Apart
  <2> QED
    BY <1>6, <2>1, <2>2, <2>3, <2>4
<1>8. \A i \in 1..m + n : EntryFits(cs[i], seen)
  BY <1>4, <1>6
<1>9. EntriesFit(cs, seen)
  <2>1. m + n \in Nat
    BY <1>1
  <2> QED
    BY <1>3, <1>5, <1>7, <1>8, <2>1 DEF EntriesFit
<1>10. \A i \in 1..m : cs[i] = as[i]
  <2> TAKE i \in 1..m
  <2>1. i \in 1..m + n /\ i <= m
    BY <1>1
  <2> QED
    BY <1>3, <2>1
<1>11. \A i \in 1..m + n : \/ i \in 1..m /\ cs[i] = as[i]
                           \/ \E j \in 1..n : cs[i] = bs[j]
  BY <1>6
<1> QED
  BY <1>3, <1>9, <1>10, <1>11 DEF cs, m, n, Joined

\* The rows that have no entry become entries, each once.
Added(fresh, columns) == List!SetToSeq({List!NewEntry(r, columns) : r \in fresh})

LEMMA FreshListed ==
  ASSUME NEW seen, NEW rows, RowsFit(rows, seen), NEW fresh, fresh \subseteq rows, NEW columns
  PROVE  /\ EntriesFit(Added(fresh, columns), seen)
         /\ \A i \in 1..Len(Added(fresh, columns)) :
              \E r \in fresh : Added(fresh, columns)[i].id = r.id
         /\ fresh = {} => Len(Added(fresh, columns)) = 0
<1> DEFINE f == [r \in fresh |-> List!NewEntry(r, columns)]
           S == {List!NewEntry(r, columns) : r \in fresh}
           bs == List!SetToSeq(S)
           n == Cardinality(S)
<1>1. S = {f[r] : r \in fresh} /\ DOMAIN f = fresh /\ f = [r \in fresh |-> f[r]]
  OBVIOUS
<1>2. \A r \in fresh : EntryFits(f[r], seen) /\ f[r].id = r.id
  BY EntryMade DEF RowsFit
<1> HIDE DEF f
<1>3. IsFiniteSet(S)
  <2>1. IsFiniteSet(fresh)
    BY FS_Subset DEF RowsFit
  <2> HIDE DEF S
  <2> QED
    BY <1>1, <2>1, ValuesAreFinite
<1>4. fresh = {} => n = 0
  BY FS_EmptySet
<1> HIDE DEF S
<1>5. /\ n \in Nat /\ Len(bs) = n /\ bs = [i \in 1..n |-> bs[i]]
      /\ \A i \in 1..n : bs[i] \in S
      /\ \A i, j \in 1..n : bs[i] = bs[j] => i = j
  BY <1>3, SetIsListed
<1> HIDE DEF bs, n
<1>6. \A e \in S : EntryFits(e, seen) /\ \E r \in fresh : e = f[r] /\ e.id = r.id
  BY <1>1, <1>2
<1>7. \A e, g \in S : e.id.pid = g.id.pid => e = g
  BY <1>6 DEF RowsFit
<1>8. ASSUME NEW i \in 1..n, NEW j \in 1..n, bs[i].id.pid = bs[j].id.pid
      PROVE  i = j
  <2>1. bs[i] = bs[j]
    BY <1>5, <1>7, <1>8
  <2> QED
    BY <1>5, <2>1
<1>9. EntriesFit(bs, seen)
  BY <1>5, <1>6, <1>8 DEF EntriesFit
<1> QED
  BY <1>4, <1>5, <1>6, <1>9 DEF bs, S, Added

\* The entries a snapshot leaves: fitting ones, of which one that was listed and is
\* not marked has the texts it had.
Follows(es, p, seen) ==
    /\ EntriesFit(es, seen)
    /\ \A i \in 1..Len(es) : es[i].id \in List!Listed(p) =>
         \E k \in 1..Len(p.entries) :
           /\ es[i].id = p.entries[k].id
           /\ es[i].dirty = {} => es[i].text = p.entries[k].text

\* How a snapshot is merged into the entries: which stay, in their order, with
\* their rows, and which are new.
Staying(p, rows) == {i \in DOMAIN p.entries : \E r \in rows : r.id = p.entries[i].id}
Kept(p, rows) == [i \in 1..List!Cardinality(Staying(p, rows)) |-> p.entries[
    CHOOSE k \in Staying(p, rows) :
      List!Cardinality({m \in Staying(p, rows) : m < k}) = i - 1]]
Latest(rows, id) == CHOOSE r \in rows : r.id = id
Fresh(p, rows) == {r \in rows : r.id \notin List!Listed(p)}
Merged(p, rows) ==
    [i \in DOMAIN Kept(p, rows) |->
       List!UpdatedEntry(Kept(p, rows)[i], Latest(rows, Kept(p, rows)[i].id), p.active)]
    \o Added(Fresh(p, rows), p.active)

\* Only when an entry came, went or changed in the column they are sorted by may
\* they be out of order.
MaySort(p, rows) ==
    \/ Fresh(p, rows) # {} \/ Len(Kept(p, rows)) # Len(p.entries)
    \/ \E i \in DOMAIN Kept(p, rows) :
         p.sort \in List!Changed(Kept(p, rows)[i], Latest(rows, Kept(p, rows)[i].id))

LEMMA EntriesMerged ==
  ASSUME NEW p, NEW seen, PageFits(p, seen), NEW rows, RowsFit(rows, seen)
  PROVE  /\ Follows(Merged(p, rows), p, seen)
         /\ ~MaySort(p, rows) =>
              /\ Len(Merged(p, rows)) = Len(p.entries)
              /\ \A i \in 1..Len(p.entries) :
                   /\ Merged(p, rows)[i].id = p.entries[i].id
                   /\ List!Value(Merged(p, rows)[i], p.sort) = List!Value(p.entries[i], p.sort)
<1> DEFINE n == Len(p.entries)
           staying == Staying(p, rows)
           fresh == Fresh(p, rows)
           kept == Kept(p, rows)
           m == Cardinality(staying)
           g == Places(staying)
           as == [i \in DOMAIN kept |->
                    List!UpdatedEntry(kept[i], Latest(rows, kept[i].id), p.active)]
           bs == Added(fresh, p.active)
<1>1. /\ n \in Nat /\ DOMAIN p.entries = 1..n /\ staying \subseteq 1..n
      /\ \A i \in 1..n : EntryFits(p.entries[i], seen)
      /\ \A i, j \in 1..n : p.entries[i].id.pid = p.entries[j].id.pid => i = j
      /\ p.sort \in SortColumns
  BY DEF PageFits, EntriesFit, Staying
<1>2. /\ m \in Nat
      /\ \A i \in 1..m : g[i] \in staying
      /\ \A i, j \in 1..m : g[i] = g[j] => i = j
      /\ m = n => staying = 1..n /\ \A i \in 1..n : g[i] = i
  <2> HIDE DEF g, n, staying
  <2> QED
    BY <1>1, PlacesInOrder DEF g
<1>3. /\ DOMAIN kept = 1..m /\ kept = [i \in 1..m |-> kept[i]]
      /\ \A i \in 1..m : kept[i] = p.entries[g[i]]
  <2> DEFINE place(i) == CHOOSE k \in staying : List!Cardinality({h \in staying : h < k}) = i - 1
  <2>1. List!Cardinality(staying) = m
    BY DEF List!Cardinality, Cardinality
  <2>2. kept = [i \in 1..m |-> p.entries[place(i)]]
    BY <2>1 DEF Kept
  <2>3. g = [i \in 1..m |-> place(i)]
    BY <2>1 DEF Places
  <2> HIDE DEF kept, g, place, m
  <2> QED
    BY <2>2, <2>3
<1> HIDE DEF g, kept
<1>4. Len(kept) = m
  BY <1>2, <1>3, FunctionIsSequence
<1>5. ASSUME NEW i \in 1..m
      PROVE  /\ Latest(rows, kept[i].id) \in rows /\ Latest(rows, kept[i].id).id = kept[i].id
             /\ EntryFits(kept[i], seen) /\ kept[i].id = p.entries[g[i]].id
             /\ g[i] \in 1..n
  <2>1. g[i] \in 1..n /\ \E r \in rows : r.id = kept[i].id
    BY <1>1, <1>2, <1>3 DEF Staying
  <2> QED
    BY <1>1, <1>3, <2>1 DEF Latest
<1>6. ASSUME NEW i \in 1..m
      PROVE  /\ EntryFits(as[i], seen) /\ as[i].id = kept[i].id
             /\ as[i].dirty = {} => as[i].text = kept[i].text
             /\ \A c \in SortColumns : c \notin List!Changed(kept[i], Latest(rows, kept[i].id)) =>
                  List!Value(as[i], c) = List!Value(kept[i], c)
  <2> DEFINE e == kept[i]
             r == Latest(rows, kept[i].id)
             u == List!UpdatedEntry(e, r, p.active)
  <2>1. as[i] = u
    BY <1>3
  <2>2. EntryFits(e, seen) /\ RowFits(r, seen) /\ r.id = e.id
    BY <1>5 DEF RowsFit
  <2> HIDE DEF e, r
  <2>3. /\ EntryFits(u, seen) /\ u.id = e.id
        /\ u.dirty = {} => u.text = e.text
        /\ \A c \in SortColumns : c \notin List!Changed(e, r) =>
             List!Value(u, c) = List!Value(e, c)
    BY <2>2, EntryUpdated
  <2> HIDE DEF u, as
  <2> QED
    BY <2>1, <2>3 DEF e, r
<1>a. DOMAIN as = 1..m /\ as = [i \in 1..m |-> as[i]]
  <2> DEFINE new(i) == List!UpdatedEntry(kept[i], Latest(rows, kept[i].id), p.active)
  <2>1. as = [i \in DOMAIN kept |-> new(i)]
    OBVIOUS
  <2> HIDE DEF as, new
  <2> QED
    BY <1>3, <2>1
<1> HIDE DEF as
<1>7. EntriesFit(as, seen)
  <2>1. Len(as) = m /\ as = [i \in 1..m |-> as[i]]
    BY <1>2, <1>a, FunctionIsSequence
  <2>2. ASSUME NEW i \in 1..m, NEW j \in 1..m, as[i].id.pid = as[j].id.pid
        PROVE  i = j
    <3>1. p.entries[g[i]].id.pid = p.entries[g[j]].id.pid
      BY <1>5, <1>6, <2>2
    <3>2. g[i] = g[j]
      BY <1>1, <1>5, <3>1
    <3> QED
      BY <1>2, <3>2
  <2>3. \A i \in 1..m : EntryFits(as[i], seen)
    BY <1>6
  <2> QED
    BY <1>2, <2>1, <2>2, <2>3 DEF EntriesFit
<1>8. Len(as) = m
  BY <1>2, <1>a, FunctionIsSequence
<1>9. /\ EntriesFit(bs, seen)
      /\ \A i \in 1..Len(bs) : \E r \in fresh : bs[i].id = r.id
      /\ fresh = {} => Len(bs) = 0
  <2>1. fresh \subseteq rows
    BY DEF Fresh
  <2> HIDE DEF fresh
  <2> QED
    BY <2>1, FreshListed
<1> HIDE DEF bs
<1>10. \A id : id \in List!Listed(p) <=> \E k \in 1..n : p.entries[k].id = id
  BY IndexMeans DEF PageFits
<1>11. ASSUME NEW i \in 1..Len(as), NEW j \in 1..Len(bs), as[i].id.pid = bs[j].id.pid
       PROVE  FALSE
  <2>1. PICK r \in fresh : bs[j].id = r.id
    BY <1>9
  <2>2. r \in rows /\ r.id \notin List!Listed(p)
    BY DEF Fresh
  <2>3. as[i].id \in List!Listed(p) /\ Latest(rows, kept[i].id) \in rows
        /\ Latest(rows, kept[i].id).id = as[i].id
    BY <1>5, <1>6, <1>8, <1>10
  <2>4. Latest(rows, kept[i].id) = r
    BY <1>11, <2>1, <2>2, <2>3 DEF RowsFit
  <2> QED
    BY <2>2, <2>3, <2>4
<1> DEFINE cs == as \o bs
<1>12. /\ EntriesFit(cs, seen) /\ Len(cs) = Len(as) + Len(bs)
       /\ \A i \in 1..Len(as) : cs[i] = as[i]
       /\ \A i \in 1..Len(cs) : \/ i \in 1..Len(as) /\ cs[i] = as[i]
                                \/ \E j \in 1..Len(bs) : cs[i] = bs[j]
  <2>1. Apart(as, bs)
    BY <1>11 DEF Apart
  <2>2. EntriesFit(bs, seen)
    BY <1>9
  <2>3. EntriesFit(cs, seen) /\ Joined(cs, as, bs)
    BY <1>7, <2>1, <2>2, EntriesJoined
  <2> HIDE DEF cs
  <2> QED
    BY <2>3 DEF Joined
<1> HIDE DEF cs
<1>13. Follows(cs, p, seen)
  <2> SUFFICES ASSUME NEW i \in 1..Len(cs), cs[i].id \in List!Listed(p)
               PROVE  \E k \in 1..n :
                        /\ cs[i].id = p.entries[k].id
                        /\ cs[i].dirty = {} => cs[i].text = p.entries[k].text
    BY <1>12 DEF Follows
  <2>1. CASE i \in 1..Len(as) /\ cs[i] = as[i]
    <3>1. /\ g[i] \in 1..n /\ as[i].id = p.entries[g[i]].id
          /\ as[i].dirty = {} => as[i].text = p.entries[g[i]].text
      BY <1>3, <1>5, <1>6, <1>8, <2>1
    <3> QED
      BY <2>1, <3>1
  <2>2. CASE \E j \in 1..Len(bs) : cs[i] = bs[j]
    BY <1>9, <2>2 DEF Fresh
  <2> QED
    BY <1>12, <2>1, <2>2
<1>14. ASSUME fresh = {}, m = n,
              ~\E i \in DOMAIN kept : p.sort \in List!Changed(kept[i], Latest(rows, kept[i].id))
       PROVE  /\ Len(cs) = n
              /\ \A i \in 1..n : /\ cs[i].id = p.entries[i].id
                                 /\ List!Value(cs[i], p.sort) = List!Value(p.entries[i], p.sort)
  <2>1. Len(cs) = n
    BY <1>1, <1>8, <1>9, <1>12, <1>14
  <2>2. ASSUME NEW i \in 1..n
        PROVE  /\ cs[i].id = p.entries[i].id
               /\ List!Value(cs[i], p.sort) = List!Value(p.entries[i], p.sort)
    <3>1. i \in 1..m /\ kept[i] = p.entries[i] /\ cs[i] = as[i]
      <4>1. i \in 1..m /\ g[i] = i
        BY <1>2, <1>14
      <4> QED
        BY <1>3, <1>8, <1>12, <4>1
    <3>2. p.sort \notin List!Changed(kept[i], Latest(rows, kept[i].id))
      BY <1>3, <1>14, <3>1
    <3> QED
      BY <1>1, <1>6, <3>1, <3>2
  <2> QED
    BY <2>1, <2>2
<1>15. Merged(p, rows) = cs
  BY DEF Merged, cs, as, bs, kept
<1> QED
  BY <1>3, <1>4, <1>13, <1>14, <1>15 DEF MaySort, kept

\* The selection of a page after that of another: the same, the process looked for,
\* or none when the process has left the list.
Stays(p, q) ==
    \/ q.selected = p.selected
    \/ p.find # List!None /\ q.selected = p.find
    \/ q.selected = List!None /\ p.selected \notin List!Listed(q)

\* When neither the rows nor their order changed, what is not marked is painted
\* already.
LEMMA UnmovedIsPainted ==
  ASSUME NEW p, NEW seen, Displays(p, seen), NEW x, PageFits(x, seen),
         Follows(x.entries, p, seen), x.screen = p.screen, x.displayed = p.displayed,
         x.listed = p.listed,
         x.selected = p.selected \/ (p.find # List!None /\ p.find \in List!Listed(x))
  PROVE  SpareFits(x)
<1> DEFINE n == Len(p.entries)
<1> SUFFICES ASSUME ~List!RowsMoved(x)
             PROVE  /\ \A i \in 1..Len(x.entries) :
                         x.entries[i].dirty = {} => x.screen[i] = List!Face(x.entries[i])
                    /\ x.listed = List!IndexIn(x, x.selected)
  BY DEF SpareFits
<1>1. /\ n \in Nat /\ DOMAIN p.entries = 1..n /\ EntriesFit(p.entries, seen)
      /\ \A i, j \in 1..n : p.entries[i].id.pid = p.entries[j].id.pid => i = j
      /\ EntriesFit(x.entries, seen) /\ DOMAIN x.entries = 1..Len(x.entries)
      /\ Len(x.entries) \in Nat
  BY IndexMeans DEF Displays, PageFits, EntriesFit
<1>2. p.screen = [i \in 1..n |-> List!Face(p.entries[i])]
  BY <1>1 DEF Displays, RowsShown
<1>3. Len(x.entries) = n
  <2>1. Len(p.screen) = n
    <3> DEFINE f == p.screen
    <3>1. f = [i \in 1..n |-> f[i]]
      BY <1>2
    <3> HIDE DEF f, n
    <3> QED
      BY <1>1, <3>1, FunctionIsSequence DEF f
  <2> QED
    BY <2>1 DEF List!RowsMoved
<1>4. \A i \in 1..n : p.entries[i].id = x.entries[i].id
  <2>1. List!RowIds(p) = List!RowIds(x)
    BY DEF List!RowsMoved, Displays, RowsShown
  <2>2. \A i \in 1..n : List!RowIds(p)[i] = p.entries[i].id
    BY <1>1 DEF List!RowIds
  <2>3. \A i \in 1..n : List!RowIds(x)[i] = x.entries[i].id
    BY <1>1, <1>3 DEF List!RowIds
  <2> QED
    BY <2>1, <2>2, <2>3
<1>5. /\ \A id : id \in List!Listed(p) <=> id \in List!Listed(x)
      /\ \A id : List!IndexIn(p, id) = List!IndexIn(x, id)
  <2>1. SameIds(p, x)
    BY <1>3, <1>4 DEF SameIds
  <2> QED
    BY <1>1, <2>1, IndexAgrees
<1>6. ASSUME NEW i \in 1..n, x.entries[i].dirty = {}
      PROVE  x.screen[i] = List!Face(x.entries[i])
  <2>1. x.entries[i].id \in List!Listed(p)
    BY <1>1, <1>4, IndexMeans
  <2>2. PICK k \in 1..n : x.entries[i].id = p.entries[k].id /\ x.entries[i].text = p.entries[k].text
    BY <1>3, <1>6, <2>1 DEF Follows
  <2>3. k = i
    BY <1>1, <1>4, <2>2
  <2> QED
    BY <1>2, <2>2, <2>3 DEF List!Face
<1>7. x.listed = List!IndexIn(x, x.selected)
  <2>1. x.selected = p.selected
    BY <1>5 DEF Displays, RowsShown
  <2> QED
    BY <1>5, <2>1 DEF Displays, RowsShown
<1> QED
  BY <1>3, <1>6, <1>7

\* apply_process_snapshot: the page shows what is known, in order, and the selection
\* stays with its process.
LEMMA Applied ==
  ASSUME NEW p, NEW seen, Displays(p, seen), NEW rows, RowsFit(rows, seen)
  PROVE  Displays(List!Apply(p, rows), seen) /\ Stays(p, List!Apply(p, rows))
<1> DEFINE es == Merged(p, rows)
           m == [p EXCEPT !.entries = es]
           s == IF MaySort(p, rows) THEN List!Resort(m) ELSE m
           found == IF p.find \in List!Listed(s) THEN p.find ELSE List!None
           previous == List!Or(List!CurrentSelected(p), p.selected)
           sel == List!Or(found, previous)
           x == [s EXCEPT !.find = List!None, !.selected = sel]
           q == List!Apply(p, rows)
<1>1. q = List!Rebuild(x)
  BY DEF List!Apply, Merged, MaySort, Kept, Staying, Latest, Fresh, Added
<1>2. PageFits(p, seen) /\ RowsInOrder(p) /\ RowsShown(p)
  BY DEF Displays
<1>3. /\ Follows(es, p, seen)
      /\ ~MaySort(p, rows) =>
           /\ Len(es) = Len(p.entries)
           /\ \A i \in 1..Len(p.entries) :
                /\ es[i].id = p.entries[i].id
                /\ List!Value(es[i], p.sort) = List!Value(p.entries[i], p.sort)
  BY <1>2, EntriesMerged
<1> HIDE DEF es, q
<1>4. /\ PageFits(m, seen) /\ m.entries = es /\ m.displayed = p.displayed
      /\ m.screen = p.screen /\ m.sort = p.sort /\ m.descending = p.descending
      /\ m.listed = p.listed /\ m.selected = p.selected /\ m.find = p.find
  BY <1>2, <1>3, EntriesReplaced DEF Follows
<1> HIDE DEF m
<1>5. /\ PageFits(s, seen) /\ Follows(s.entries, p, seen) /\ RowsInOrder(s)
      /\ s.displayed = p.displayed /\ s.screen = p.screen /\ s.listed = p.listed
      /\ s.selected = p.selected /\ s.find = p.find
  <2>1. CASE MaySort(p, rows)
    <3> DEFINE r == List!Resort(m)
               sorted == r.entries
    <3>1. /\ EntriesFit(sorted, seen) /\ r = [m EXCEPT !.entries = sorted]
          /\ RowsInOrder(r)
          /\ \A i \in 1..Len(sorted) : \E k \in 1..Len(m.entries) : sorted[i] = m.entries[k]
      BY <1>4, ResortSorts
    <3> HIDE DEF r
    <3>2. /\ PageFits(r, seen) /\ r.displayed = m.displayed
          /\ r.screen = m.screen /\ r.listed = m.listed
          /\ r.selected = m.selected /\ r.find = m.find
      <4> HIDE DEF sorted
      <4> QED
        BY <1>4, <3>1, EntriesReplaced
    <3>3. Follows(sorted, p, seen)
      <4> HIDE DEF sorted
      <4> QED
        BY SMTT(60), <1>3, <1>4, <3>1 DEF Follows
    <3>4. s = r
      BY <2>1 DEF r
    <3> QED
      BY <1>4, <3>1, <3>2, <3>3, <3>4
  <2>2. CASE ~MaySort(p, rows)
    <3>1. s = m
      BY <2>2
    <3>2. RowsInOrder(m)
      <4> SUFFICES ASSUME NEW i \in 1..Len(p.entries), NEW j \in 1..Len(p.entries), i < j
                   PROVE  List!Before(m, es[i], es[j])
        BY <1>3, <1>4, <2>2 DEF RowsInOrder
      <4>1. List!Before(p, p.entries[i], p.entries[j]) /\ p.sort \in SortColumns
        BY <1>2 DEF RowsInOrder, PageFits
      <4>2. /\ es[i].id.pid = p.entries[i].id.pid /\ es[j].id.pid = p.entries[j].id.pid
            /\ List!Value(es[i], p.sort) = List!Value(p.entries[i], p.sort)
            /\ List!Value(es[j], p.sort) = List!Value(p.entries[j], p.sort)
        BY <1>3, <2>2
      <4> QED
        BY <1>4, <4>1, <4>2, BeforeAgrees
    <3> QED
      BY <1>3, <1>4, <3>1, <3>2
  <2> QED
    BY <2>1, <2>2
<1> HIDE DEF s
<1>6. previous = p.selected
  BY CurrentIsSelected
<1> HIDE DEF previous, sel
<1> DEFINE nobody == List!None
<1>7. x = [entries |-> s.entries, displayed |-> s.displayed, screen |-> s.screen,
           active |-> s.active, sort |-> s.sort, descending |-> s.descending,
           listed |-> s.listed, selected |-> sel, find |-> nobody]
  <2>1. x = [s EXCEPT !.find = nobody, !.selected = sel]
    OBVIOUS
  <2> HIDE DEF x, nobody
  <2> QED
    BY <1>5, <2>1 DEF PageFits
<1> HIDE DEF x
<1>8. /\ x.entries = s.entries /\ x.displayed = s.displayed /\ x.screen = s.screen
      /\ x.sort = s.sort /\ x.descending = s.descending /\ x.listed = s.listed
      /\ x.selected = sel /\ x.find = List!None
  <2>1. /\ x.entries = s.entries /\ x.displayed = s.displayed /\ x.screen = s.screen
        /\ x.sort = s.sort /\ x.descending = s.descending /\ x.listed = s.listed
        /\ x.selected = sel /\ x.find = nobody /\ x.active = s.active
    <3> HIDE DEF nobody
    <3> QED
      BY <1>7
  <2> QED
    BY <2>1
<1>9. PageFits(x, seen)
  <2>1. x.active = s.active
    <3> HIDE DEF nobody
    <3> QED
      BY <1>7
  <2> HIDE DEF nobody
  <2> QED
    BY <1>5, <1>7, <1>8, <2>1 DEF PageFits
<1>10. RowsInOrder(x)
  <2> SUFFICES ASSUME NEW i \in 1..Len(x.entries), NEW j \in 1..Len(x.entries), i < j
               PROVE  List!Before(x, x.entries[i], x.entries[j])
    BY DEF RowsInOrder
  <2>1. List!Before(s, x.entries[i], x.entries[j])
    BY <1>5, <1>8 DEF RowsInOrder
  <2> QED
    BY <1>8, <2>1 DEF List!Before
<1>11. \A id : id \in List!Listed(x) <=> id \in List!Listed(s)
  BY <1>8 DEF List!Listed
<1>12. \/ found = List!None /\ sel = p.selected
       \/ p.find # List!None /\ p.find \in List!Listed(s) /\ sel = p.find
  BY <1>6 DEF sel, List!Or
<1>13. SpareFits(x)
  <2>1. Follows(x.entries, p, seen)
    BY <1>5, <1>8
  <2>2. x.selected = p.selected \/ (p.find # List!None /\ p.find \in List!Listed(x))
    BY <1>8, <1>11, <1>12
  <2> QED
    BY <1>5, <1>8, <1>9, <2>1, <2>2, UnmovedIsPainted
<1>14. /\ Displays(q, seen)
       /\ \A id : id \in List!Listed(q) <=> id \in List!Listed(x)
       /\ q.selected = IF x.selected \in List!Listed(x) THEN x.selected ELSE List!None
  BY <1>1, <1>8, <1>9, <1>10, <1>13, RebuildShows
<1>15. Stays(p, q)
  BY <1>8, <1>11, <1>12, <1>14 DEF Stays
<1> QED
  BY <1>14, <1>15 DEF q

\* The user selects a row, or none.
LEMMA RowSelected ==
  ASSUME NEW p, NEW seen, Displays(p, seen), NEW i, NEW id,
         (i = 0 /\ id = List!None) \/ (i \in 1..Len(p.entries) /\ id = p.entries[i].id),
         NEW q, q = [p EXCEPT !.listed = i, !.selected = id]
  PROVE  Displays(q, seen)
<1>1. q = [entries |-> p.entries, displayed |-> p.displayed, screen |-> p.screen,
           active |-> p.active, sort |-> p.sort, descending |-> p.descending,
           listed |-> i, selected |-> id, find |-> p.find]
  BY DEF Displays, PageFits
<1>2. /\ q.entries = p.entries /\ q.displayed = p.displayed /\ q.screen = p.screen
      /\ q.active = p.active /\ q.sort = p.sort /\ q.descending = p.descending
      /\ q.listed = i /\ q.selected = id /\ q.find = p.find
  BY <1>1
<1>3. PageFits(q, seen)
  BY <1>1, <1>2 DEF Displays, PageFits
<1>4. RowsInOrder(q)
  BY <1>2 DEF Displays, RowsInOrder, List!Before
<1>5. List!Listed(q) = List!Listed(p) /\ List!RowIds(q) = List!RowIds(p)
  BY <1>2 DEF List!Listed, List!RowIds
<1>6. i = List!IndexIn(q, id) /\ (id # List!None => id \in List!Listed(q))
  <2>1. EntriesFit(q.entries, seen)
    BY <1>3 DEF PageFits
  <2>2. CASE i = 0 /\ id = List!None
    BY <2>1, <2>2, IndexMeans
  <2>3. CASE i \in 1..Len(p.entries) /\ id = p.entries[i].id
    <3>1. i \in 1..Len(q.entries) /\ id = q.entries[i].id
      BY <1>2, <2>3
    <3> QED
      BY <2>1, <3>1, IndexMeans
  <2> QED
    BY <2>2, <2>3
<1>7. RowsShown(q)
  BY <1>2, <1>5, <1>6 DEF Displays, RowsShown
<1> QED
  BY <1>3, <1>4, <1>7 DEF Displays

\* A process that is not listed is looked for.
LEMMA LookedFor ==
  ASSUME NEW p, NEW seen, Displays(p, seen), NEW id, id \notin List!Listed(p),
         NEW q, q = [p EXCEPT !.find = id]
  PROVE  Displays(q, seen)
<1>1. q = [entries |-> p.entries, displayed |-> p.displayed, screen |-> p.screen,
           active |-> p.active, sort |-> p.sort, descending |-> p.descending,
           listed |-> p.listed, selected |-> p.selected, find |-> id]
  BY DEF Displays, PageFits
<1>2. /\ q.entries = p.entries /\ q.displayed = p.displayed /\ q.screen = p.screen
      /\ q.active = p.active /\ q.sort = p.sort /\ q.descending = p.descending
      /\ q.listed = p.listed /\ q.selected = p.selected /\ q.find = id
  BY <1>1
<1>3. PageFits(q, seen)
  BY <1>1, <1>2 DEF Displays, PageFits
<1>4. RowsInOrder(q)
  BY <1>2 DEF Displays, RowsInOrder, List!Before
<1>5. /\ List!Listed(q) = List!Listed(p) /\ List!RowIds(q) = List!RowIds(p)
      /\ List!IndexIn(q, q.selected) = List!IndexIn(p, p.selected)
  BY <1>2 DEF List!Listed, List!RowIds, List!IndexIn
<1>6. RowsShown(q)
  BY <1>2, <1>5 DEF Displays, RowsShown
<1> QED
  BY <1>3, <1>4, <1>6 DEF Displays

\* Another set of columns: every row is painted with the texts it has.
LEMMA ColumnsSetUp ==
  ASSUME NEW p, NEW seen, PageFits(p, seen), RowsInOrder(p), NEW columns,
         p.displayed = List!RowIds(p), p.listed = List!IndexIn(p, p.selected),
         DOMAIN p.screen = DOMAIN p.entries,
         p.selected # List!None => p.selected \in List!Listed(p),
         p.find # List!None => p.find \notin List!Listed(p)
  PROVE  /\ Displays(List!SetupColumns(p, columns), seen)
         /\ List!SetupColumns(p, columns).selected = p.selected
         /\ List!SetupColumns(p, columns).find = p.find
<1> DEFINE painted == [i \in DOMAIN p.entries |-> List!Face(p.entries[i])]
           q == List!SetupColumns(p, columns)
<1>1. q = [p EXCEPT !.active = columns, !.screen = painted]
  BY DEF List!SetupColumns
<1> HIDE DEF q, painted
<1>2. q = [entries |-> p.entries, displayed |-> p.displayed, screen |-> painted,
           active |-> columns, sort |-> p.sort, descending |-> p.descending,
           listed |-> p.listed, selected |-> p.selected, find |-> p.find]
  BY <1>1 DEF PageFits
<1>3. /\ q.entries = p.entries /\ q.displayed = p.displayed /\ q.screen = painted
      /\ q.active = columns /\ q.sort = p.sort /\ q.descending = p.descending
      /\ q.listed = p.listed /\ q.selected = p.selected /\ q.find = p.find
  BY <1>2
<1>4. PageFits(q, seen)
  BY <1>2, <1>3 DEF PageFits
<1>5. RowsInOrder(q)
  BY <1>3 DEF RowsInOrder, List!Before
<1>6. /\ List!Listed(q) = List!Listed(p) /\ List!RowIds(q) = List!RowIds(p)
      /\ List!IndexIn(q, q.selected) = List!IndexIn(p, p.selected)
  BY <1>3 DEF List!Listed, List!RowIds, List!IndexIn
<1>7. q.screen = [i \in DOMAIN q.entries |-> List!Face(q.entries[i])]
  BY <1>3 DEF painted
<1>8. RowsShown(q)
  BY <1>3, <1>6, <1>7 DEF RowsShown
<1> QED
  BY <1>3, <1>4, <1>5, <1>8 DEF Displays, q

\* A click on a column sorts the rows; the selection and the process looked for
\* stay.
ToSort(p, c, down) == [p EXCEPT !.sort = c, !.descending = down,
                                !.selected = List!Or(List!CurrentSelected(p), @)]

LEMMA ColumnClicked ==
  ASSUME NEW p, NEW seen, Displays(p, seen), NEW c \in List!Columns, NEW down
  PROVE  LET q == List!Rebuild(List!Resort(ToSort(p, c, down))) IN
         Displays(q, seen) /\ q.selected = p.selected /\ q.find = p.find
<1> DEFINE sel == List!Or(List!CurrentSelected(p), p.selected)
           x == ToSort(p, c, down)
           r == List!Resort(x)
           q == List!Rebuild(r)
<1>1. sel = p.selected
  BY CurrentIsSelected
<1> HIDE DEF sel, x
<1>2. x = [entries |-> p.entries, displayed |-> p.displayed, screen |-> p.screen,
           active |-> p.active, sort |-> c, descending |-> down,
           listed |-> p.listed, selected |-> sel, find |-> p.find]
  <2>1. x = [p EXCEPT !.sort = c, !.descending = down, !.selected = sel]
    BY DEF sel, x, ToSort
  <2> QED
    BY <2>1 DEF Displays, PageFits
<1>3. /\ x.entries = p.entries /\ x.displayed = p.displayed /\ x.screen = p.screen
      /\ x.active = p.active /\ x.sort = c /\ x.descending = down
      /\ x.listed = p.listed /\ x.selected = p.selected /\ x.find = p.find
  BY <1>1, <1>2
<1>4. PageFits(x, seen)
  <2>1. c \in SortColumns
    BY DEF SortColumns, List!Columns
  <2> QED
    BY <1>1, <1>2, <1>3, <2>1 DEF Displays, PageFits
<1>5. /\ EntriesFit(r.entries, seen) /\ r = [x EXCEPT !.entries = r.entries]
      /\ RowsInOrder(r)
      /\ \A i \in 1..Len(r.entries) : \E k \in 1..Len(x.entries) : r.entries[i] = x.entries[k]
      /\ \A k \in 1..Len(x.entries) : \E i \in 1..Len(r.entries) : r.entries[i] = x.entries[k]
  BY <1>4, ResortSorts
<1>6. /\ PageFits(r, seen) /\ r.displayed = p.displayed /\ r.screen = p.screen
      /\ r.listed = p.listed /\ r.selected = p.selected /\ r.find = p.find
  <2> DEFINE sorted == r.entries
  <2>1. r = [x EXCEPT !.entries = sorted] /\ EntriesFit(sorted, seen)
    BY <1>5
  <2> HIDE DEF r, sorted
  <2> QED
    BY <1>3, <1>4, <2>1, EntriesReplaced
<1> HIDE DEF r
<1>7. \A id : id \in List!Listed(r) <=> id \in List!Listed(p)
  <2>1. \A id : id \in List!Listed(r) <=> \E i \in 1..Len(r.entries) : r.entries[i].id = id
    BY <1>5, IndexMeans
  <2>2. \A id : id \in List!Listed(p) <=> \E i \in 1..Len(p.entries) : p.entries[i].id = id
    BY IndexMeans DEF Displays, PageFits
  <2>3. ASSUME NEW id, id \in List!Listed(r)
        PROVE  id \in List!Listed(p)
    <3>1. PICK i \in 1..Len(r.entries) : r.entries[i].id = id
      BY <2>1, <2>3
    <3>2. PICK k \in 1..Len(x.entries) : r.entries[i] = x.entries[k]
      BY <1>5
    <3>3. k \in 1..Len(p.entries) /\ p.entries[k].id = id
      BY <1>3, <3>1, <3>2
    <3> QED
      BY <2>2, <3>3
  <2>4. ASSUME NEW id, id \in List!Listed(p)
        PROVE  id \in List!Listed(r)
    <3>1. PICK k \in 1..Len(p.entries) : p.entries[k].id = id
      BY <2>2, <2>4
    <3>2. k \in 1..Len(x.entries) /\ x.entries[k].id = id
      BY <1>3, <3>1
    <3>3. PICK i \in 1..Len(r.entries) : r.entries[i] = x.entries[k]
      BY <1>5, <3>2
    <3> QED
      BY <2>1, <3>2, <3>3
  <2> QED
    BY <2>3, <2>4
<1>8. Follows(r.entries, p, seen)
  BY ZenonT(60), <1>3, <1>5 DEF Follows
<1>9. SpareFits(r)
  BY <1>6, <1>8, UnmovedIsPainted
<1>10. r.find # List!None => r.find \notin List!Listed(r)
  BY <1>6, <1>7 DEF Displays, RowsShown
<1>11. /\ Displays(q, seen) /\ q.find = r.find
       /\ q.selected = IF r.selected \in List!Listed(r) THEN r.selected ELSE List!None
  BY <1>5, <1>6, <1>9, <1>10, RebuildShows
<1>12. q.selected = p.selected
  BY <1>6, <1>7, <1>11 DEF Displays, RowsShown
<1> QED
  BY <1>6, <1>11, <1>12 DEF r, x

\* On return with other columns all texts are rebuilt and painted.
Redone(p) == [p EXCEPT !.entries = [i \in DOMAIN @ |->
                [List!Built(@[i], p.active) EXCEPT !.dirty = p.active]]]

LEMMA Returned ==
  ASSUME NEW p, NEW seen, Displays(p, seen)
  PROVE  /\ Displays(List!SetupColumns(Redone(p), p.active), seen)
         /\ List!SetupColumns(Redone(p), p.active).selected = p.selected
<1> DEFINE n == Len(p.entries)
           m == Redone(p)
           rebuilt(i) == [List!Built(p.entries[i], p.active) EXCEPT !.dirty = p.active]
           es == [i \in 1..n |-> rebuilt(i)]
<1>1. /\ n \in Nat /\ DOMAIN p.entries = 1..n
      /\ \A i \in 1..n : EntryFits(p.entries[i], seen)
      /\ \A i, j \in 1..n : p.entries[i].id.pid = p.entries[j].id.pid => i = j
      /\ EntriesFit(p.entries, seen)
  BY IndexMeans DEF Displays, PageFits, EntriesFit
<1>2. m = [p EXCEPT !.entries = es]
  <2>1. m = [p EXCEPT !.entries = [i \in DOMAIN p.entries |->
                [List!Built(p.entries[i], p.active) EXCEPT !.dirty = p.active]]]
    BY DEF Redone
  <2> QED
    BY <1>1, <2>1
<1> HIDE DEF m
<1>3. ASSUME NEW i \in 1..n
      PROVE  /\ EntryFits(rebuilt(i), seen) /\ rebuilt(i).id = p.entries[i].id
             /\ \A c \in SortColumns : List!Value(rebuilt(i), c) = List!Value(p.entries[i], c)
  <2> DEFINE e == p.entries[i]
             text == [c \in List!Columns |->
                        IF c \in p.active THEN List!Value(e, c) ELSE e.text[c]]
             f == rebuilt(i)
             marks == p.active
  <2>1. f = [[e EXCEPT !.text = text] EXCEPT !.dirty = marks]
    BY DEF List!Built
  <2>2. EntryFits(e, seen)
    BY <1>1
  <2>3. text = [c \in List!Columns |-> text[c]]
    OBVIOUS
  <2> HIDE DEF e, f, text, marks
  <2>4. f = [id |-> e.id, image |-> e.image, user |-> e.user, cpu |-> e.cpu,
             since |-> e.since, text |-> text, dirty |-> marks]
    BY <2>1, <2>2 DEF EntryFits
  <2>5. /\ f.id = e.id /\ f.image = e.image /\ f.user = e.user /\ f.cpu = e.cpu
        /\ f.since = e.since /\ f.text = text
        /\ f = [id |-> f.id, image |-> f.image, user |-> f.user, cpu |-> f.cpu,
                since |-> f.since, text |-> f.text, dirty |-> f.dirty]
    BY <2>4
  <2>6. Known(f, seen)
    BY <2>2, <2>5 DEF EntryFits, Known, Own
  <2>7. EntryFits(f, seen)
    BY <2>3, <2>5, <2>6 DEF EntryFits
  <2>8. \A c \in SortColumns : List!Value(f, c) = List!Value(e, c)
    BY <2>5 DEF List!Value, SortColumns
  <2> QED
    BY <2>5, <2>7, <2>8 DEF e, f
<1> HIDE DEF rebuilt
<1>4. /\ Len(es) = n /\ DOMAIN es = 1..n /\ es = [i \in 1..n |-> es[i]]
      /\ \A i \in 1..n : es[i] = rebuilt(i)
  <2>1. DOMAIN es = 1..n /\ es = [i \in 1..n |-> es[i]] /\ \A i \in 1..n : es[i] = rebuilt(i)
    OBVIOUS
  <2> HIDE DEF es, n
  <2> QED
    BY <1>1, <2>1, FunctionIsSequence
<1> HIDE DEF es, n
<1>5. EntriesFit(es, seen)
  BY <1>1, <1>3, <1>4 DEF EntriesFit
<1>6. /\ PageFits(m, seen) /\ m.entries = es /\ m.displayed = p.displayed
      /\ m.screen = p.screen /\ m.sort = p.sort /\ m.descending = p.descending
      /\ m.listed = p.listed /\ m.selected = p.selected /\ m.find = p.find
  BY <1>2, <1>5, EntriesReplaced DEF Displays
<1>7. /\ \A id : id \in List!Listed(p) <=> id \in List!Listed(m)
      /\ \A id : List!IndexIn(p, id) = List!IndexIn(m, id)
  <2>1. SameIds(p, m)
    BY <1>3, <1>4, <1>6 DEF SameIds, n
  <2> QED
    BY <1>1, <1>5, <1>6, <2>1, IndexAgrees
<1>8. RowsInOrder(m)
  <2> SUFFICES ASSUME NEW i \in 1..n, NEW j \in 1..n, i < j
               PROVE  List!Before(m, es[i], es[j])
    BY <1>4, <1>6 DEF RowsInOrder
  <2>1. List!Before(p, p.entries[i], p.entries[j]) /\ p.sort \in SortColumns
    BY DEF RowsInOrder, Displays, PageFits, n
  <2>2. /\ es[i].id.pid = p.entries[i].id.pid /\ es[j].id.pid = p.entries[j].id.pid
        /\ List!Value(es[i], p.sort) = List!Value(p.entries[i], p.sort)
        /\ List!Value(es[j], p.sort) = List!Value(p.entries[j], p.sort)
    BY <1>3, <1>4, <2>1
  <2> QED
    BY <1>6, <2>1, <2>2, BeforeAgrees
<1>9. m.displayed = List!RowIds(m) /\ DOMAIN m.screen = DOMAIN m.entries
  <2>1. List!RowIds(m) = [i \in 1..n |-> es[i].id]
    BY <1>4, <1>6 DEF List!RowIds
  <2>2. List!RowIds(p) = [i \in 1..n |-> p.entries[i].id]
    BY <1>1 DEF List!RowIds
  <2>3. [i \in 1..n |-> es[i].id] = [i \in 1..n |-> p.entries[i].id]
    BY <1>3, <1>4
  <2>4. DOMAIN p.screen = 1..n
    BY <1>1 DEF Displays, RowsShown
  <2> QED
    BY <1>4, <1>6, <2>1, <2>2, <2>3, <2>4 DEF Displays, RowsShown
<1>10. /\ m.listed = List!IndexIn(m, m.selected)
       /\ m.selected # List!None => m.selected \in List!Listed(m)
       /\ m.find # List!None => m.find \notin List!Listed(m)
  BY <1>6, <1>7 DEF Displays, RowsShown
<1> QED
  BY <1>6, <1>8, <1>9, <1>10, ColumnsSetUp DEF m

-----------------------------------------------------------------------------
(* The process list: its steps.                                             *)

\* Draining the worker applies what it has, or changes nothing.
LEMMA DrainedShows ==
  ASSUME SamplerInv, NEW p, Displays(p, Lived)
  PROVE  Displays(List!Drained(p), Lived) /\ Stays(p, List!Drained(p))
<1>1. RowsFit(listWorker.rows, Lived)
  BY DEF SamplerInv, WorkerFits
<1>2. CASE listWorker.at = "done" /\ listWorker.ok
  <2>1. List!Drained(p) = List!Apply(p, listWorker.rows)
    BY <1>2 DEF List!Drained
  <2> QED
    BY <1>1, <2>1, Applied
<1>3. CASE ~(listWorker.at = "done" /\ listWorker.ok)
  <2>1. List!Drained(p) = p
    BY <1>3 DEF List!Drained
  <2> QED
    BY <2>1 DEF Stays
<1> QED
  BY <1>2, <1>3

\* The page changes while the sampler's own state rests.
LEMMA PageMoves ==
  ASSUME ListInv, UNCHANGED <<alive, past, baseline, systemTime, names>>,
         listWorker' \in {listWorker, List!DrainedWorker, List!Asked(List!DrainedWorker)},
         Displays(listPage', Lived)
  PROVE  ListInv'
<1>1. SamplerInv'
  BY PageTakes DEF ListInv
<1>2. Lived' = Lived
  BY DEF Lived
<1> QED
  BY <1>1, <1>2 DEF ListInv

\* A refresh asked for from a page that displays.
LEMMA Refreshed ==
  ASSUME ListInv, UNCHANGED <<alive, past, baseline, systemTime, names>>,
         NEW p, Displays(p, Lived), List!RefreshFrom(p)
  PROVE  ListInv' /\ Stays(p, listPage')
<1>1. /\ listPage' = List!Drained(p)
      /\ listWorker' = List!Asked(List!DrainedWorker)
  BY DEF List!RefreshFrom
<1>2. Displays(listPage', Lived) /\ Stays(p, listPage')
  BY <1>1, DrainedShows DEF ListInv
<1> QED
  BY <1>1, <1>2, PageMoves

\* The processes of the machine and the sampler leave the page alone.
LEMMA SamplerSteps ==
  ASSUME ListInv,
         \/ \E p \in Processes : List!StartProcess(p) \/ List!ExitProcess(p)
         \/ List!Snapshot \/ \E p \in listWorker.left : List!OpenRow(p)
         \/ List!Merge \/ List!CollectFails \/ List!CollectPanics
  PROVE  ListInv' /\ listPage' = listPage
<1>1. listPage' = listPage
  BY DEF List!StartProcess, List!ExitProcess, List!Snapshot, List!OpenRow, List!Merge,
         List!CollectFails, List!CollectPanics
<1>2. SamplerInv' /\ Grown(Lived, Lived')
  <2>1. CASE \E p \in Processes : List!StartProcess(p) \/ List!ExitProcess(p)
    BY SMTT(60), <2>1, MachineMoves DEF ListInv
  <2>2. UNCHANGED <<alive, past>> => Grown(Lived, Lived')
    BY DEF Grown, Lived
  <2>3. CASE List!Snapshot
    BY <2>2, <2>3, SnapshotTaken DEF ListInv, List!Snapshot, List!world
  <2>4. CASE \E p \in listWorker.left : List!OpenRow(p)
    BY <2>2, <2>4, RowOpened DEF ListInv, List!OpenRow, List!world
  <2>5. CASE List!Merge
    BY ZenonT(60), <2>2, <2>5, MergeDone DEF ListInv, List!Merge, List!world
  <2>6. CASE List!CollectFails \/ List!CollectPanics
    BY <2>2, <2>6, CollectorFails DEF ListInv, List!CollectFails, List!CollectPanics,
                                      List!world
  <2> QED
    BY <2>1, <2>3, <2>4, <2>5, <2>6
<1>3. Displays(listPage, Lived')
  BY <1>2, PageStays DEF ListInv, Displays
<1> QED
  BY SMTT(60), <1>1, <1>2, <1>3 DEF ListInv

\* A process that is listed is found.
LEMMA RowFound ==
  ASSUME NEW p, NEW seen, Displays(p, seen), NEW id, id \in List!Listed(p)
  PROVE  Displays([p EXCEPT !.selected = id, !.listed = List!IndexIn(p, id)], seen)
<1>1. PICK i \in 1..Len(p.entries) : p.entries[i].id = id
  BY IndexMeans DEF Displays, PageFits
<1>2. List!IndexIn(p, id) = i
  BY <1>1, IndexMeans DEF Displays, PageFits
<1> DEFINE q == [p EXCEPT !.selected = id, !.listed = i]
           r == [p EXCEPT !.listed = i, !.selected = id]
<1>3. p = [entries |-> p.entries, displayed |-> p.displayed, screen |-> p.screen,
           active |-> p.active, sort |-> p.sort, descending |-> p.descending,
           listed |-> p.listed, selected |-> p.selected, find |-> p.find]
  BY DEF Displays, PageFits
<1>4. /\ q = [p EXCEPT !.selected = id, !.listed = i]
      /\ r = [p EXCEPT !.listed = i, !.selected = id]
  OBVIOUS
<1> HIDE DEF q, r
<1>5. q = [entries |-> p.entries, displayed |-> p.displayed, screen |-> p.screen,
           active |-> p.active, sort |-> p.sort, descending |-> p.descending,
           listed |-> i, selected |-> id, find |-> p.find]
  BY <1>3, <1>4
<1>6. r = [entries |-> p.entries, displayed |-> p.displayed, screen |-> p.screen,
           active |-> p.active, sort |-> p.sort, descending |-> p.descending,
           listed |-> i, selected |-> id, find |-> p.find]
  BY <1>3, <1>4
<1>7. Displays(r, seen)
  BY <1>1, <1>4, RowSelected
<1> QED
  BY <1>2, <1>5, <1>6, <1>7 DEF q, r

\* The user selects a row, or has a process found.
LEMMA UserSteps ==
  ASSUME ListInv, List!UserStep
  PROVE  ListInv'
<1>1. /\ Displays(listPage, Lived) /\ EntriesFit(listPage.entries, Lived)
      /\ Len(listPage.entries) \in Nat
  BY DEF ListInv, Displays, PageFits, EntriesFit
<1>2. ASSUME NEW i \in 0..Len(listPage.entries), List!SelectRow(i)
      PROVE  ListInv'
  <2> DEFINE id == IF i = 0 THEN List!None ELSE listPage.entries[i].id
             q == [listPage EXCEPT !.listed = i, !.selected = id]
  <2>1. listPage' = q
    BY <1>2 DEF List!SelectRow
  <2>2. UNCHANGED <<alive, past, baseline, systemTime, names, listWorker>>
    BY <1>2 DEF List!SelectRow, List!world, List!sampler
  <2>3. \/ i = 0 /\ id = List!None
        \/ i \in 1..Len(listPage.entries) /\ id = listPage.entries[i].id
    BY <1>1
  <2> HIDE DEF id
  <2>4. Displays(q, Lived)
    BY <1>1, <2>3, RowSelected
  <2> QED
    BY <2>1, <2>2, <2>4, PageMoves
<1>3. ASSUME NEW p \in Processes, List!FindProcess(p)
      PROVE  ListInv'
  <2> DEFINE id == List!Identity(PidOf[p], p)
             q == [listPage EXCEPT !.selected = id, !.listed = List!IndexIn(listPage, id)]
             x == [listPage EXCEPT !.find = id]
  <2>1. UNCHANGED <<alive, past, baseline, systemTime, names>>
    BY <1>3 DEF List!FindProcess, List!world, List!sampler
  <2>2. CASE id \in List!Listed(listPage)
    <3>1. listPage' = q /\ listWorker' = listWorker
      BY <1>3, <2>2 DEF List!FindProcess
    <3>2. Displays(q, Lived)
      BY <1>1, <2>2, RowFound
    <3> QED
      BY <2>1, <3>1, <3>2, PageMoves
  <2>3. CASE id \notin List!Listed(listPage)
    <3>1. List!RefreshFrom(x)
      BY <1>3, <2>3 DEF List!FindProcess
    <3> HIDE DEF id
    <3>2. Displays(x, Lived)
      BY <1>1, <2>3, LookedFor
    <3> QED
      BY <2>1, <3>1, <3>2, Refreshed
  <2> QED
    BY <2>2, <2>3
<1> QED
  BY <1>2, <1>3 DEF List!UserStep

\* The columns: a click sorts, a pick and a return repaint.
LEMMA ColumnSteps ==
  ASSUME ListInv,
         \/ \E c \in List!Columns : List!ColumnClick(c)
         \/ \E columns \in SUBSET List!Columns : List!PickColumns(columns)
         \/ List!LeaveAndReturn
  PROVE  ListInv' /\ Stays(listPage, listPage')
<1>1. /\ Displays(listPage, Lived) /\ PageFits(listPage, Lived) /\ RowsInOrder(listPage)
      /\ RowsShown(listPage)
  BY DEF ListInv, Displays
<1>2. ASSUME NEW c \in List!Columns, List!ColumnClick(c)
      PROVE  ListInv' /\ Stays(listPage, listPage')
  <2> DEFINE down == IF listPage.sort = c THEN ~listPage.descending ELSE TRUE
             q == List!Rebuild(List!Resort(ToSort(listPage, c, down)))
  <2>1. UNCHANGED <<alive, past, baseline, systemTime, names>>
    BY <1>2 DEF List!ColumnClick, List!world, List!sampler
  <2>2. List!RefreshFrom(q)
    BY <1>2 DEF List!ColumnClick, ToSort
  <2> HIDE DEF down
  <2>3. Displays(q, Lived) /\ q.selected = listPage.selected /\ q.find = listPage.find
    BY <1>1, ColumnClicked
  <2> HIDE DEF q
  <2>4. ListInv' /\ Stays(q, listPage')
    BY <2>1, <2>2, <2>3, Refreshed
  <2> QED
    BY <2>3, <2>4 DEF Stays
<1>3. ASSUME NEW columns \in SUBSET List!Columns, List!PickColumns(columns)
      PROVE  ListInv' /\ Stays(listPage, listPage')
  <2> DEFINE q == List!SetupColumns(listPage, columns \union {"image"})
  <2>1. UNCHANGED <<alive, past, baseline, systemTime, names>>
    BY <1>3 DEF List!PickColumns, List!world, List!sampler
  <2>2. List!RefreshFrom(q)
    BY <1>3 DEF List!PickColumns
  <2>3. DOMAIN listPage.screen = DOMAIN listPage.entries
    BY <1>1 DEF RowsShown
  <2>4. Displays(q, Lived) /\ q.selected = listPage.selected /\ q.find = listPage.find
    BY <1>1, <2>3, ColumnsSetUp DEF RowsShown
  <2> HIDE DEF q
  <2>5. ListInv' /\ Stays(q, listPage')
    BY <2>1, <2>2, <2>4, Refreshed
  <2> QED
    BY <2>4, <2>5 DEF Stays
<1>4. ASSUME List!LeaveAndReturn
      PROVE  ListInv' /\ Stays(listPage, listPage')
  <2>1. UNCHANGED <<alive, past, baseline, systemTime, names, listWorker>>
    BY <1>4 DEF List!LeaveAndReturn, List!world, List!sampler
  <2>2. listPage' = List!SetupColumns(Redone(listPage), listPage.active)
    BY <1>4 DEF List!LeaveAndReturn, Redone
  <2>3. Displays(listPage', Lived) /\ listPage'.selected = listPage.selected
    BY <1>1, <2>2, Returned
  <2> QED
    BY <2>1, <2>3, PageMoves DEF Stays
<1> QED
  BY <1>2, <1>3, <1>4

\* A step keeps the invariant, and the selection with its process unless the user
\* chose another.
LEMMA ListSteps ==
  ASSUME ListInv, List!Next
  PROVE  ListInv' /\ (Stays(listPage, listPage') \/ List!UserStep)
<1>1. CASE \/ \E p \in Processes : List!StartProcess(p) \/ List!ExitProcess(p)
           \/ List!Snapshot \/ \E p \in listWorker.left : List!OpenRow(p)
           \/ List!Merge \/ List!CollectFails \/ List!CollectPanics
  BY <1>1, SamplerSteps DEF Stays
<1>2. CASE List!Complete
  <2>1. /\ UNCHANGED <<alive, past, baseline, systemTime, names>>
        /\ listPage' = List!Drained(listPage) /\ listWorker' = List!DrainedWorker
    BY <1>2 DEF List!Complete, List!world, List!sampler
  <2>2. Displays(listPage', Lived) /\ Stays(listPage, listPage')
    BY <2>1, DrainedShows DEF ListInv
  <2> QED
    BY <2>1, <2>2, PageMoves
<1>3. CASE List!TimerEvent
  <2>1. /\ UNCHANGED <<alive, past, baseline, systemTime, names>>
        /\ List!RefreshFrom(listPage) /\ Displays(listPage, Lived)
    BY <1>3 DEF List!TimerEvent, List!world, List!sampler, ListInv
  <2> QED
    BY <2>1, Refreshed
<1>4. CASE List!UserStep
  BY <1>4, UserSteps
<1>5. CASE \/ \E c \in List!Columns : List!ColumnClick(c)
           \/ \E columns \in SUBSET List!Columns : List!PickColumns(columns)
           \/ List!LeaveAndReturn
  BY <1>5, ColumnSteps
<1>6. CASE List!DragColumn
  <2>1. UNCHANGED <<alive, past, baseline, systemTime, names, listWorker, listPage>>
    BY <1>6 DEF List!DragColumn, List!world, List!sampler
  <2> QED
    BY <2>1 DEF ListInv, SamplerInv, MachineInv, Lived, Stays
<1> QED
  BY <1>1, <1>2, <1>3, <1>4, <1>5, <1>6 DEF List!Next

\* An empty list and an idle worker.
LEMMA ListStarts ==
  ASSUME List!Init
  PROVE  ListInv
<1>1. SamplerInv
  <2>1. MachineInv
    BY ProcessesAssumption DEF List!Init, MachineInv
  <2>2. listWorker = List!Idle /\ baseline = << >> /\ names = << >>
    BY DEF List!Init
  <2>3. RowsFit({}, Lived)
    BY FS_EmptySet DEF RowsFit
  <2>4. WorkerFits(listWorker, Lived)
    BY <2>2, <2>3 DEF List!Idle, WorkerFits, ListingFits
  <2>5. BaselinesFit(baseline, systemTime) /\ NamesFit(names, Lived)
    BY <2>2 DEF BaselinesFit, NamesFit
  <2> QED
    BY <2>1, <2>4, <2>5 DEF SamplerInv
<1>2. PICK s \in {"pid", "cpu"} : listPage =
        [entries |-> << >>, displayed |-> << >>, screen |-> << >>,
         active |-> {"image", "cpu"}, sort |-> s, descending |-> s = "cpu",
         listed |-> 0, selected |-> List!None, find |-> List!None]
  BY DEF List!Init
<1> DEFINE p == listPage
           down == (s = "cpu")
           columns == {"image", "cpu"}
           none == List!None
<1>3. p = [entries |-> << >>, displayed |-> << >>, screen |-> << >>,
           active |-> columns, sort |-> s, descending |-> down,
           listed |-> 0, selected |-> none, find |-> none]
  BY <1>2
<1> HIDE DEF p, down, columns, none
<1>4. /\ p.entries = << >> /\ p.displayed = << >> /\ p.screen = << >> /\ p.active = columns
      /\ p.sort = s /\ p.descending = down /\ p.listed = 0 /\ p.selected = none
      /\ p.find = none
  BY <1>3
<1>5. EntriesFit(p.entries, Lived)
  <2>1. Len(p.entries) = 0 /\ 1..Len(p.entries) = {}
    BY <1>4
  <2>2. p.entries = [i \in 1..Len(p.entries) |-> p.entries[i]]
    BY <1>4, <2>1
  <2> QED
    BY <2>1, <2>2 DEF EntriesFit
<1>6. PageFits(p, Lived)
  BY <1>3, <1>4, <1>5 DEF PageFits, SortColumns
<1>7. DOMAIN p.entries = {} /\ Len(p.entries) = 0 /\ List!Listed(p) = {}
  BY <1>4 DEF List!Listed
<1>8. RowsShown(p)
  <2>1. /\ p.screen = [i \in DOMAIN p.entries |-> List!Face(p.entries[i])]
        /\ p.displayed = List!RowIds(p)
    BY <1>4, <1>7 DEF List!RowIds
  <2>2. List!IndexIn(p, p.selected) = 0
    BY <1>7 DEF List!IndexIn
  <2> QED
    BY <1>4, <2>1, <2>2 DEF RowsShown, none
<1>9. RowsInOrder(p)
  BY <1>7 DEF RowsInOrder
<1> QED
  BY <1>1, <1>6, <1>8, <1>9 DEF ListInv, Displays, p

ProcessesInv == which = "processes" => ListInv

\* The list is right in every state, and the selection stays in every step.
LEMMA ListInvariance == ListsSpec => []ProcessesInv
<1>1. ListsInit => ProcessesInv
  BY ListStarts DEF ListsInit, ProcessesInv
<1>2. ProcessesInv /\ [ListsNext]_<<which, vars, processesVars, networkVars>> => ProcessesInv'
  <2> SUFFICES ASSUME ProcessesInv, [ListsNext]_<<which, vars, processesVars, networkVars>>,
                      which' = "processes"
               PROVE  ListInv'
    BY DEF ProcessesInv
  <2>1. CASE which = "processes" /\ List!Next
    BY <2>1, ListSteps DEF ProcessesInv
  <2>2. CASE UNCHANGED <<which, processesVars>>
    BY <2>2 DEF ProcessesInv, ListInv, SamplerInv, MachineInv, Lived, processesVars
  <2> QED
    BY <2>1, <2>2 DEF ListsNext
<1> QED
  BY <1>1, <1>2, PTL DEF ListsSpec

\* The row painted at an index is the entry there, under its identity and with its
\* texts, whichever repaints were spared, and the rows are in order.
THEOREM RowsAreShown == ListsSpec => []RowsAreTrue
<1>1. ProcessesInv => RowsAreTrue
  <2> SUFFICES ASSUME ListInv
               PROVE  List!RowsAreWhatTheyShow /\ List!RowsAreSorted
    BY DEF ProcessesInv, RowsAreTrue
  <2>1. DOMAIN listPage.entries = 1..Len(listPage.entries)
    BY IndexMeans DEF ListInv, Displays, PageFits
  <2> QED
    BY <2>1 DEF ListInv, Displays, RowsShown, RowsInOrder, List!RowsAreWhatTheyShow,
                List!RowsAreSorted
<1> QED
  BY <1>1, ListInvariance, PTL

\* The shares of all rows span one interval, and an account is that of the process
\* whose identity the row has or, where that one has ended or is not known, of a
\* process with the row's PID and image.
THEOREM AccountsAreTrue == ListsSpec => []SharesAndAccounts
<1>1. ProcessesInv => SharesAndAccounts
  <2> SUFFICES ASSUME ListInv
               PROVE  List!SharesSpanOneInterval /\ List!AccountsAreTheirOwn
    BY DEF ProcessesInv, SharesAndAccounts
  <2>1. \A i \in DOMAIN listPage.entries : Known(listPage.entries[i], Lived)
    BY IndexMeans DEF ListInv, Displays, PageFits, EntriesFit, EntryFits
  <2> QED
    BY <2>1 DEF Known, Own, Lived, List!SharesSpanOneInterval, List!AccountsAreTheirOwn
<1> QED
  BY <1>1, ListInvariance, PTL

\* The selection changes by the user, by a process that was looked for, or when its
\* process has left the list.
THEOREM SelectionStays == ListsSpec => SelectionStaysWithItsProcess
<1> DEFINE Explained == [listPage'.selected # listPage.selected =>
                       \/ List!UserStep
                       \/ listPage.find # List!None /\ listPage'.selected = listPage.find
                       \/ /\ listPage'.selected = List!None
                          /\ listPage.selected \notin List!Listed(listPage')]_(List!vars)
<1>1. ProcessesInv /\ [ListsNext]_<<which, vars, processesVars, networkVars>> => Explained
  <2> SUFFICES ASSUME ProcessesInv, [ListsNext]_<<which, vars, processesVars, networkVars>>
               PROVE  Explained
    OBVIOUS
  <2>1. CASE which = "processes" /\ List!Next
    <3>1. Stays(listPage, listPage') \/ List!UserStep
      BY <2>1, ListSteps DEF ProcessesInv
    <3> QED
      BY <3>1 DEF Stays
  <2>2. CASE UNCHANGED processesVars
    BY <2>2 DEF processesVars, List!vars, List!world, List!sampler
  <2> QED
    BY <2>1, <2>2 DEF ListsNext
<1> QED
  BY <1>1, ListInvariance, PTL DEF ListsSpec, SelectionStaysWithItsProcess,
                                   List!SelectionStaysWithItsProcess

================================================================================
