----------------------------- MODULE CloudBuffer -----------------------------
(***************************************************************************)
(* The shipper's buffer on disk (src/collector/cloud_buffer.go): one file  *)
(* per batch that could not be delivered, oldest first, with a limit that  *)
(* only batches of traces are removed to keep.                             *)
(*                                                                         *)
(* A batch has a body: a sequence of records, each given as the set of     *)
(* traces it speaks of.  A trace record speaks of one; a minute of an      *)
(* aggregates batch speaks of all it counts.  The limit is in records.     *)
(***************************************************************************)
EXTENDS Integers, Sequences, FiniteSets, SequencesExt

CONSTANTS
  MaxTraces,   \* bound: traces observed
  BufferMax    \* maxBytes, in records

ASSUME BufferAssumption ==
  /\ MaxTraces \in Nat
  /\ BufferMax \in Nat

Traces == 1 .. MaxTraces
Kinds  == {"traces", "aggregates"}
Bodies == Seq(SUBSET Traces)

VARIABLES
  disk,     \* the directory: batch id -> file.  A name begins with the time it was stored, and
            \*   one goroutine draws an id and stores under it: names sort as the ids do
  trimmed   \* b.dropped: traces removed for the limit since TakeDropped

bufferVars == <<disk, trimmed>>

\* bufferedFile; also a batch that is not on disk.
File == [kind : Kinds, body : Bodies]

BufferTypeOK ==
  /\ IsFiniteSet(DOMAIN disk) /\ DOMAIN disk \subseteq Nat
  /\ disk \in [DOMAIN disk -> File]
  /\ trimmed \in Nat

BufferInit ==
  /\ disk = <<>>
  /\ trimmed = 0

\* The traces a body speaks of.
Covered(body) == UNION {body[k] : k \in DOMAIN body}

\* The records in some of the files.
Weight(files, some) == SumFunctionOnSet([id \in DOMAIN files |-> Len(files[id].body)], some)

OfKind(files, kind) == {id \in DOMAIN files : files[id].kind = kind}

CoveredBy(files, some) == UNION {Covered(files[id].body) : id \in some}

CoveredIn(files, kind) == CoveredBy(files, OfKind(files, kind))

TraceRecords(files) == Weight(files, OfKind(files, "traces"))

\* Oldest first: by name, or by time.
InOrder(S) ==
  CHOOSE q \in [1 .. Cardinality(S) -> S] : \A i, j \in DOMAIN q : i < j => q[i] < q[j]

Without(files, gone) == Restrict(files, DOMAIN files \ gone)

Remaining(files, gone) ==
  [kept  |-> Without(files, gone),
   gone  |-> CoveredBy(files, gone),
   count |-> Weight(files, gone)]

\* Mutant: what is oldest goes, whatever it is.
TrimAny(files) ==
  Remaining(files, {id \in DOMAIN files :
                      Weight(files, {j \in DOMAIN files : j >= id}) > BufferMax})

\* trimLocked: from the oldest on, a batch of traces goes if what is left when its turn comes
\* is over the limit.
Trim(files) ==
  Remaining(files, {id \in DOMAIN files :
                      /\ files[id].kind = "traces"
                      /\ Weight(files, {j \in DOMAIN files :
                                          files[j].kind # "traces" \/ j >= id}) > BufferMax})

\* Store: a temporary file renamed into place, then the limit.
Stored(kind, id, body) ==
  Trim([j \in DOMAIN disk \cup {id} |->
          IF j = id THEN [kind |-> kind, body |-> body] ELSE disk[j]])

\* Remove: also when there is no such file.
Removed(id) == Without(disk, {id})

=============================================================================
