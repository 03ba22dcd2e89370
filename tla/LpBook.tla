------------------------------- MODULE LpBook -------------------------------
(***************************************************************************)
(* What a matcher context promises the LP that deploys it, without a word  *)
(* of prices, payloads or errors: a book is bound once, for good, to one   *)
(* LP and one cap; only an open book trades, and no sequence of fills      *)
(* takes its position over the cap.                                        *)
(***************************************************************************)
EXTENDS Integers

CONSTANTS
  Books,      (* names of books                                            *)
  Owners,     (* keys that may own one                                     *)
  NOBODY,     (* the key of a book that is not bound                       *)
  Positions,  (* positions a book can hold                                 *)
  Caps        (* caps a book can have; 0 is no cap                         *)

VARIABLE book

Unbound == [owner |-> NOBODY, door |-> "closed", cap |-> 0, position |-> 0]

LBInit == book = [b \in Books |-> Unbound]

(* A step says what the new entry may be; the rest of the book stays.      *)
Replace(b) == book' = [book EXCEPT ![b] = book'[b]]

Bind(b) ==
  /\ book[b] = Unbound
  /\ book'[b].owner \in Owners \ {NOBODY}
  /\ book'[b].door \in {"open", "closed"}
  /\ book'[b].cap \in Caps
  /\ book'[b].position = 0
  /\ Replace(b)

Trade(b) ==
  /\ book[b].door = "open"
  /\ book'[b] = [book[b] EXCEPT !.position = book'[b].position]
  /\ book'[b].position \in Positions
  /\ book[b].cap # 0 => book'[b].position \in -book[b].cap .. book[b].cap
  /\ Replace(b)

LBNext == \E b \in Books : Bind(b) \/ Trade(b)

LBSpec == LBInit /\ [][LBNext]_book
=============================================================================
