---------------------------- MODULE CasRegister ----------------------------
(***************************************************************************)
(* What the register of one pile promises to its clients, without saying   *)
(* how: a compare-and-set store.  A client asks for a commit on top of the *)
(* version it last saw; the commit either takes effect in one indivisible  *)
(* step, on exactly that version, or leaves no trace.  Values change in no *)
(* other way, and the ledger only ever grows, with the values.             *)
(*                                                                         *)
(* This is the promise of service.py's commit_approved ("Fails without     *)
(* writing if the register moved since expected_version"), stated apart    *)
(* from the transaction, the row lock and the item queue of module Gate,   *)
(* which implements it.                                                    *)
(***************************************************************************)
EXTENDS Naturals, Sequences

CONSTANTS
  Clients,    \* who may commit
  Store,      \* the contents a register may have
  Empty,      \* the contents of a new register
  None        \* the absence of a pending commit

VARIABLES
  version,    \* register_version of the pile
  contents,   \* what the register states, a member of Store
  ledger,     \* the append-only history
  bid         \* Clients -> the version its commit in flight rests on, or None

vars == <<version, contents, ledger, bid>>

Init ==
  /\ version = 0
  /\ contents = Empty
  /\ ledger = << >>
  /\ bid = [c \in Clients |-> None]

(* A client's commit starts; it names the version it believes current. *)
Bid(c) ==
  /\ bid[c] = None
  /\ bid'[c] \in Nat
  /\ bid' = [bid EXCEPT ![c] = bid'[c]]
  /\ UNCHANGED <<version, contents, ledger>>

(* The commit takes effect, which it may only do on the version it named. *)
Win(c) ==
  /\ bid[c] = version
  /\ version' = version + 1
  /\ contents' \in Store
  /\ Len(ledger) <= Len(ledger')
  /\ \A i \in 1 .. Len(ledger) : ledger'[i] = ledger[i]
  /\ bid' = [bid EXCEPT ![c] = None]

(* The commit is refused, or the process serving it dies: nothing happened. *)
Lose(c) ==
  /\ bid[c] # None
  /\ bid' = [bid EXCEPT ![c] = None]
  /\ UNCHANGED <<version, contents, ledger>>

Next == \E c \in Clients : Bid(c) \/ Win(c) \/ Lose(c)

Spec == Init /\ [][Next]_vars
=============================================================================
