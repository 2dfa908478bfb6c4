--------------------------- MODULE CapacityLedger ---------------------------
(***************************************************************************)
(* The capacity ledger of services/capacity_ledger.py and                  *)
(* services/atomic_ledger.py: one row of bill credits per identity, changed *)
(* by single guarded UPDATE statements.  The columns in_progress_credits,   *)
(* confirmed_progress_credits and pending_settlement_credits of             *)
(* CapacityModel are written by no code and stay 0, so they are left out.   *)
(* Amounts count the token's minor units, which makes the 1e-9 tolerances   *)
(* of the guards vanish.                                                    *)
(***************************************************************************)
EXTENDS Integers

Buckets == {"available_credits", "reserved_credits", "disputed_credits"}

Columns == Buckets \cup {"total_locked_usdc", "total_bill_credits",
                         "burned_credits", "released_credits"}

EmptyRow == [c \in Columns |-> 0]

active_credits(row) ==
    row["available_credits"] + row["reserved_credits"] + row["disputed_credits"]

responsibility_credits(row) ==
    row["reserved_credits"] + row["disputed_credits"]

capacity_conservation_gap(row) ==
    \/ row["total_bill_credits"] # active_credits(row)
    \/ row["total_locked_usdc"] < active_credits(row)

(* The derived columns recomputed from the buckets when they disagree. *)
heal_capacity_conservation(row) ==
    IF capacity_conservation_gap(row)
    THEN [row EXCEPT
            !["total_bill_credits"] = active_credits(row),
            !["total_locked_usdc"] =
                IF @ > active_credits(row) THEN @ ELSE active_credits(row)]
    ELSE row

assert_can_release_locked_funds(row, n) ==
    /\ row["available_credits"] >= n
    /\ responsibility_credits(row) = 0

-----------------------------------------------------------------------------
(* The two shapes of delta that apply_delta is called with besides a lock:  *)
(* credits moved between two buckets, and credits paid out of a bucket.     *)

(* Mutant: the bucket credited is not debited elsewhere. *)
MovedFromNowhere(row, from, to, n) ==
    heal_capacity_conservation([row EXCEPT ![to] = @ + n])

Moved(row, from, to, n) ==
    heal_capacity_conservation([row EXCEPT ![from] = @ - n, ![to] = @ + n])

PaidOut(row, from, n, burned, released) ==
    [row EXCEPT ![from] = @ - n,
                !["total_bill_credits"] = @ - n,
                !["total_locked_usdc"] = @ - n,
                !["burned_credits"] = @ + burned,
                !["released_credits"] = @ + released]

Locked(row, n) ==
    [row EXCEPT !["total_locked_usdc"] = @ + n,
                !["total_bill_credits"] = @ + n,
                !["available_credits"] = @ + n]

(* The guards every payment puts into its WHERE clause. *)
Covers(row, from, n) ==
    /\ row[from] >= n
    /\ row["total_bill_credits"] >= n
    /\ row["total_locked_usdc"] >= n
=============================================================================
