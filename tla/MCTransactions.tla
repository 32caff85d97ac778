--------------------------- MODULE MCTransactions ---------------------------
(* Small scenarios for Transactions: which clients start, and how often each kind of event may happen. *)
EXTENDS Transactions, TLC

CONSTANTS idem, first, second, other, tidA, tidB, noTid, r1, r2

MCClients == {idem, first, second, other}

\* `second` is another instance of `first`'s application; `other` has a transactional id of its own.
MCTidOf == [c \in MCClients |-> CASE c = idem -> noTid [] c = other -> tidB [] OTHER -> tidA]

Starts(f) == [c \in MCClients |-> IF c \in DOMAIN f THEN f[c] ELSE 0]
Quiet == [send |-> 0, resend |-> 0, txn |-> 0, offsets |-> 0, timeout |-> 0, fail |-> 0, crash |-> 0,
          init |-> Starts(<<>>)]

MCBudgets == {
  \* one idempotent producer: failures and crashes with a retry, then a run past i32::MAX
  [Quiet EXCEPT !.init = Starts(idem :> 1), !.send = 4, !.resend = 1, !.fail = 1],
  [Quiet EXCEPT !.init = Starts(idem :> 1), !.send = 3, !.resend = 1, !.crash = 1],
  [Quiet EXCEPT !.init = Starts(idem :> 1), !.send = 6],
  \* one transactional client, fresh epoch per transaction, failures with a retry
  [Quiet EXCEPT !.init = Starts(first :> 2), !.txn = 2, !.send = 2, !.offsets = 1],
  [Quiet EXCEPT !.init = Starts(first :> 2), !.txn = 1, !.send = 1, !.resend = 1, !.offsets = 1, !.fail = 2],
  \* two transactions that overlap
  [Quiet EXCEPT !.init = Starts((first :> 1) @@ (other :> 1)), !.txn = 2, !.send = 2, !.offsets = 1],
  \* a second instance takes the transactional id over; calls are abandoned and retried
  [Quiet EXCEPT !.init = Starts((first :> 1) @@ (second :> 1)), !.txn = 2, !.send = 2],
  [Quiet EXCEPT !.init = Starts(first :> 2), !.txn = 1, !.send = 1, !.timeout = 1, !.crash = 1] }

\* one client that runs two transactions under one epoch, as a client does after a successful EndTxn
MCReuseBudgets == {[Quiet EXCEPT !.init = Starts(first :> 1), !.txn = 2, !.send = 2]}

MCSymmetry == Permutations({r1, r2})
=============================================================================
