------------------------------ MODULE PageWrites ------------------------------
(***************************************************************************)
(* How the library writes into code and table pages (mem.rs and the slot   *)
(* writes of iat.rs, eat.rs and vtable.rs): lift the protection of every   *)
(* page, copy, put each page's own protection back.  Other threads keep    *)
(* executing in these pages, and other hooks write to the same ones.       *)
(***************************************************************************)
EXTENDS Naturals, Sequences, FiniteSets

CONSTANTS
    Writers,            \* threads that install, toggle or remove hooks
    NumPages,
    MAX_BATCH_PAGES,    \* pages one batch tracks
    Refusals              \* "change" and "restore": the system may refuse to

Pages == 1 .. NumPages

ASSUME PageWritesAssumption ==
    /\ NumPages \in Nat /\ MAX_BATCH_PAGES \in Nat \ {0}
    /\ Refusals \subseteq {"change", "restore"} /\ "free" \notin Writers

VARIABLES
    orig,     \* [Pages -> the protection the program gave the page]
    prot,     \* [Pages -> its protection now]
    data,     \* [Pages -> who wrote the library's bytes there last]
    pc,       \* [Writers -> where the write is]
    job,      \* [Writers -> kind and pages of its write, what the first held before]
    chunk,    \* [Writers -> first page of the current batch]
    saved,    \* [Writers -> protections saved so far in this batch]
    owner     \* holder of the code lock, or "free"

writeVars == <<orig, prot, data, pc, job, chunk, saved, owner>>

(* Protections that grant something; R, W and X as letters of a set. *)
Prots == {{"R"}, {"R", "W"}, {"R", "X"}, {"R", "W", "X"}}

NoJob == [kind |-> "none", first |-> 1, last |-> 1, prev |-> "program"]

WritesInit ==
    /\ orig \in [Pages -> Prots]
    /\ prot = orig
    /\ data = [p \in Pages |-> "program"]
    /\ pc = [t \in Writers |-> "idle"]
    /\ job = [t \in Writers |-> NoJob]
    /\ chunk = [t \in Writers |-> 1]
    /\ saved = [t \in Writers |-> <<>>]
    /\ owner = "free"

AdjustExecute_Stamp(old, new) == new

(* Execute permission stays with a page that has it. *)
AdjustExecute(old, new) == IF "X" \in old THEN new \cup {"X"} ELSE new

(* One batch ends after MAX_BATCH_PAGES pages or with the range. *)
BatchEnd(t) == LET end == chunk[t] + MAX_BATCH_PAGES - 1
               IN  IF end < job[t].last THEN end ELSE job[t].last

Batch(t) == chunk[t] .. BatchEnd(t)

with_code_lock_Free(t) == TRUE

with_code_lock(t) == owner = "free"

(* A write of one batch after another, under the code lock. *)
write(t, kind, first, last) ==
    /\ pc[t] = "idle"
    /\ with_code_lock(t)
    /\ owner' = t
    /\ job' = [job EXCEPT ![t] = [kind |-> kind, first |-> first, last |-> last,
                                  prev |-> data[first]]]
    /\ chunk' = [chunk EXCEPT ![t] = first]
    /\ saved' = [saved EXCEPT ![t] = <<>>]
    /\ pc' = [pc EXCEPT ![t] = "change"]
    /\ UNCHANGED <<orig, prot, data>>

(* A patch or a breakpoint: bytes that may straddle pages. *)
write_code_bytes(t) ==
    \E first, last \in Pages : first <= last /\ write(t, "patch", first, last)

(* The slots of the three kinds of table hook each lie in one page. *)
hook_import(t) == \E page \in Pages : write(t, "import", page, page)

write_slot_locked(t) == \E page \in Pages : write(t, "vtable", page, page)

write_export_slot(t) == \E page \in Pages : write(t, "export", page, page)

(* PageProtections::change, page by page. *)
change(t) ==
    LET page == chunk[t] + Len(saved[t])
    IN  /\ pc[t] = "change" /\ page \in Batch(t)
        /\ \/ /\ saved' = [saved EXCEPT ![t] = Append(@, prot[page])]
              /\ prot' = [prot EXCEPT ![page] = AdjustExecute(@, {"R", "W"})]
              /\ UNCHANGED pc
           \/ /\ "change" \in Refusals
              /\ pc' = [pc EXCEPT ![t] = "undo"]
              /\ UNCHANGED <<saved, prot>>
        /\ UNCHANGED <<orig, data, job, chunk, owner>>

changed(t) ==
    /\ pc[t] = "change" /\ Len(saved[t]) = Cardinality(Batch(t))
    /\ pc' = [pc EXCEPT ![t] = "copy"]
    /\ UNCHANGED <<orig, prot, data, job, chunk, saved, owner>>

copy(t) ==
    /\ pc[t] = "copy"
    /\ data' = [p \in Pages |-> IF p \in Batch(t) THEN t ELSE data[p]]
    /\ pc' = [pc EXCEPT ![t] = "restore"]
    /\ UNCHANGED <<orig, prot, job, chunk, saved, owner>>

(* PageProtections::restore: each page gets its own protection back. *)
Restored(t) == [p \in Pages |->
    IF p - chunk[t] + 1 \in DOMAIN saved[t] THEN saved[t][p - chunk[t] + 1] ELSE prot[p]]

(* A slot whose page cannot be given its protection back is written back,  *)
(* the protection is tried once more and the call fails; a patch ignores   *)
(* the refusal.                                                            *)
restore(t) ==
    /\ pc[t] = "restore"
    /\ \E refused, again \in {FALSE, "restore" \in Refusals} :
          LET slot == job[t].kind # "patch"
          IN  /\ prot' = IF refused /\ (slot => again) THEN prot ELSE Restored(t)
              /\ data' = IF refused /\ slot THEN [data EXCEPT ![job[t].first] = job[t].prev]
                                            ELSE data
    /\ pc' = [pc EXCEPT ![t] = "next"]
    /\ UNCHANGED <<orig, job, chunk, saved, owner>>

next_batch(t) ==
    /\ pc[t] = "next" /\ BatchEnd(t) < job[t].last
    /\ chunk' = [chunk EXCEPT ![t] = BatchEnd(t) + 1]
    /\ saved' = [saved EXCEPT ![t] = <<>>]
    /\ pc' = [pc EXCEPT ![t] = "change"]
    /\ UNCHANGED <<orig, prot, data, job, owner>>

Finish(t) == /\ owner' = "free"
             /\ job' = [job EXCEPT ![t] = NoJob]
             /\ chunk' = [chunk EXCEPT ![t] = 1]
             /\ saved' = [saved EXCEPT ![t] = <<>>]
             /\ pc' = [pc EXCEPT ![t] = "idle"]

written(t) ==
    /\ pc[t] = "next" /\ BatchEnd(t) = job[t].last
    /\ Finish(t)
    /\ UNCHANGED <<orig, prot, data>>

(* A page refused: those already changed get their protection back and the *)
(* write fails.  Earlier batches stay written.                             *)
undo(t) ==
    /\ pc[t] = "undo"
    /\ prot' = Restored(t)
    /\ Finish(t)
    /\ UNCHANGED <<orig, data>>

WritesNext == \E t \in Writers :
    \/ write_code_bytes(t)
    \/ hook_import(t) \/ write_slot_locked(t) \/ write_export_slot(t)
    \/ change(t) \/ changed(t) \/ copy(t) \/ restore(t) \/ next_batch(t)
    \/ written(t) \/ undo(t)

WritesSpec == WritesInit /\ [][WritesNext]_writeVars

-----------------------------------------------------------------------------
(* No thread faults because of a write: while a thread copies, every page  *)
(* of its batch is writable, and a page the program executes from is       *)
(* executable at every moment, so threads inside it run on.                *)
NobodyFaults ==
    /\ \A t \in Writers : pc[t] = "copy" => \A p \in Batch(t) : "W" \in prot[p]
    /\ \A p \in Pages : "X" \in orig[p] => "X" \in prot[p]

(* When no write is in progress every page has the protection the program  *)
(* gave it, also after a write that failed halfway, straddled pages of     *)
(* different protections or shared a page with another hook's write.       *)
ProtectionsComeBack ==
    (\A t \in Writers : pc[t] = "idle") => prot = orig
=============================================================================
