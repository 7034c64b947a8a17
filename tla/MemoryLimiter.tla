---------------------------- MODULE MemoryLimiter ----------------------------
(***************************************************************************)
(* The resource limiter of a wasmtime store (MemoryLimiter in              *)
(* crates/wasmtime-backend/src/store.rs): one budget of bytes shared by    *)
(* the linear memories and the tables of every instance the store ever     *)
(* creates, and the statistics of the requests it turned down.  wasmtime   *)
(* asks it before it creates or grows a memory or a table.  Nothing ever   *)
(* gives bytes back.                                                       *)
(***************************************************************************)
EXTENDS Integers

CONSTANTS
    TotalLimit,  \* total_memory_limit of the core configuration, in bytes
    EntrySize,   \* size_of::<usize>(): what one table entry costs
    MaxRejects   \* bound of the model: rejections counted between two clears

ASSUME LimiterAssumption ==
    /\ TotalLimit \in Nat
    /\ EntrySize \in Nat
    /\ MaxRejects \in Nat

VARIABLES
    remaining,   \* remaining_memory
    rejects      \* allocation_stats.allocation_rejects

limiterVars == <<remaining, rejects>>

LimiterTypeOK ==
    /\ remaining \in 0..TotalLimit
    /\ rejects \in 0..MaxRejects

(* MemoryLimiter::new, called by set_total_memory_limit. *)
LimiterInit ==
    /\ remaining = TotalLimit
    /\ rejects = 0

-----------------------------------------------------------------------------

(* checked_sub(amount) of try_alloc succeeds. *)
Fits(amount) == amount <= remaining

(* Mutant of Charge: wrapping instead of checked subtraction. *)
ChargeUnchecked(amount) ==
    /\ remaining' = remaining - amount
    /\ UNCHANGED rejects

(* try_alloc returns true. *)
Charge(amount) ==
    /\ Fits(amount)
    /\ remaining' = remaining - amount
    /\ UNCHANGED rejects

(* try_alloc returns false through count_allocation_reject. *)
Refuse(amount) ==
    /\ ~Fits(amount)
    /\ rejects < MaxRejects
    /\ rejects' = rejects + 1
    /\ UNCHANGED remaining

(* Mutant of TableRequest: entries taken for bytes. *)
TableRequestInEntries(current, desired) == desired - current

(* What memory_growing and table_growing ask of try_alloc; the maximum     *)
(* that wasmtime passes along is ignored by both.                          *)
MemoryRequest(current, desired) == desired - current
TableRequest(current, desired)  == (desired - current) * EntrySize

ClearStats ==
    /\ rejects' = 0
    /\ UNCHANGED remaining

=============================================================================
