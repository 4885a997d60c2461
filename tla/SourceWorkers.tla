----------------------------- MODULE SourceWorkers -----------------------------
(***************************************************************************)
(* The workers that read a capture's database, and the check of what the   *)
(* descriptor worker answers (src/src/inspection/WorkerConfinement.cpp,    *)
(* ResourceWorker.cpp, DescriptorWorker.cpp, DescriptorRead.cpp).          *)
(*                                                                         *)
(* A byte is named by where it is stored: <<version of data.bin, handle,   *)
(* index>>.  data.bin.rec tells where payloads begin and end.  An object   *)
(* is named by its type and its serialized id; id 0 is a null handle.      *)
(***************************************************************************)
EXTENDS Naturals, SequencesExt

CONSTANTS
  MaxBlob,         \* the largest resource (16 MiB)
  MaxLength,       \* the longest range of a read (64 KiB)
  MaxCapacity,     \* the room for hydrated writes (64 KiB)
  StructBytes,     \* sizeof(VkWriteDescriptorSet)
  MaxWrites,       \* writes of an update (64)
  MaxExtent,       \* descriptors of a write (128)
  MaxDescriptors,  \* descriptors of an update (512)
  MaxObjects,      \* objects of an update (1024)
  MaxWord,         \* the largest 64-bit number, VK_WHOLE_SIZE
  Blobs,           \* [handles -> bytes of the payload]
  Updates          \* [handles -> update], the payloads that are updates

Listed(s) == s \in Seq(ToSet(s))

\* A write of an update names its set, and its buffers or images in order.
ASSUME WorkersAssumption ==
  /\ MaxBlob \in Nat /\ \A h \in DOMAIN Blobs : Blobs[h] \in Nat
  /\ \A h \in DOMAIN Updates : LET writes == Updates[h].writes IN
       /\ Updates[h].bytes \in Nat /\ Listed(writes)
       /\ \A i \in DOMAIN writes :
            /\ {"dst", "buffers", "images"} \subseteq DOMAIN writes[i]
            /\ Listed(writes[i].buffers) /\ Listed(writes[i].images)
            /\ \A k \in DOMAIN writes[i].buffers : "buffer" \in DOMAIN writes[i].buffers[k]
            /\ \A k \in DOMAIN writes[i].images : {"view", "sampler"} \subseteq DOMAIN writes[i].images[k]

Sum(xs) == FoldLeft(LAMBDA x, y : x + y, 0, xs)
Least(a, b) == IF a <= b THEN a ELSE b

Opaque == DOMAIN Blobs
Write  == DOMAIN Updates

\* The bytes of a payload; other records end one byte earlier.
Extent(handle, rec) ==
  LET bytes == IF handle \in Opaque THEN Blobs[handle] ELSE Updates[handle].bytes
  IN IF rec = 0 THEN bytes ELSE bytes - 1

Slice(data, handle, offset, count) == [i \in 1..count |-> <<data, handle, offset + i - 1>>]

\* Damaged data names other objects: version 0 is what was captured.
WritesAt(handle, data) ==
  IF data = 0 THEN Updates[handle].writes
  ELSE [i \in DOMAIN Updates[handle].writes |->
          [Updates[handle].writes[i] EXCEPT !.binding = @ + data]]

-----------------------------------------------------------------------------
(* Confinement: every step must succeed before the database is opened.     *)

Confines(host) ==
  /\ host.headers /\ host.x86_64   \* built with Landlock, seccomp of this platform
  /\ host.limits                   \* descriptors closed, privileges and limits dropped
  /\ host.landlock >= 3            \* reads of two regular files, and nothing else

-----------------------------------------------------------------------------
(* The resource worker.                                                    *)

ResourceArgumentsOk(r) ==
  r.offset <= MaxBlob /\ r.length \in 1..MaxLength /\ r.declared <= MaxBlob

ResourceAnswers(host, r, total) ==
  /\ Confines(host) /\ ResourceArgumentsOk(r)
  /\ total \in 1..MaxBlob /\ r.declared \in {0, total}
  /\ r.offset <= total

Returned(r, total) == Least(r.length, total - r.offset)

\* <<>> is a worker that exits with 2.
ResourceWorker(host, r, data, rec) ==
  LET total == Extent(r.handle, rec)
      count == Returned(r, total)
  IN IF ResourceAnswers(host, r, total)
     THEN <<[handle |-> r.handle, offset |-> r.offset, total |-> total, count |-> count,
             bytes |-> Slice(data, r.handle, r.offset, count)]>>
     ELSE <<>>

-----------------------------------------------------------------------------
(* The descriptor worker.  The generated helper replaces every handle by a *)
(* token of the callback; the rows turn tokens into objects again.         *)

Images == {"combined_image_sampler"}
Ranges == {"uniform", "storage", "uniform_dynamic", "storage_dynamic"}
NoObject == <<"none", 0>>
TokenBase == 1000

Key(type, id) == <<type, id>>

\* What the helper asks tokens for: every handle that is not null.
HandlesOf(w) ==
  {key \in {Key("descriptor_set", w.dst)}
             \cup {Key("image_view", w.images[i].view) : i \in DOMAIN w.images}
             \cup {Key("sampler", w.images[i].sampler) : i \in DOMAIN w.images}
             \cup {Key("buffer", w.buffers[i].buffer) : i \in DOMAIN w.buffers} : key[2] # 0}

SameObjectMutant(a, b) == a[2] = b[2]
\* The mutant takes the serialized id alone for the identity of an object.
SameObject(a, b) == a = b

\* Each object once, in some order: a token is only looked up again.
Objects(writes) == SetToSeq(UNION {HandlesOf(writes[i]) : i \in DOMAIN writes})

Token(objects, type, id) ==
  IF id = 0 THEN 0
  ELSE TokenBase - 1 + Min({i \in DOMAIN objects : SameObject(objects[i], Key(type, id))})

\* A write with every handle of it replaced.
Replacing(w, New(_, _)) ==
  [w EXCEPT
     !.dst = New("descriptor_set", w.dst),
     !.buffers = [i \in DOMAIN w.buffers |->
                    [w.buffers[i] EXCEPT !.buffer = New("buffer", w.buffers[i].buffer)]],
     !.images = [i \in DOMAIN w.images |->
                   [w.images[i] EXCEPT !.view = New("image_view", w.images[i].view),
                                       !.sampler = New("sampler", w.images[i].sampler)]]]

Hydrated(w, objects) == Replacing(w, LAMBDA type, id : Token(objects, type, id))

ObjectOk(objects, type, token) ==
  token # 0 => /\ token >= TokenBase /\ token - TokenBase < Len(objects)
               /\ objects[token - TokenBase + 1][1] = type

ObjectOf(objects, token) == IF token = 0 THEN NoObject ELSE objects[token - TokenBase + 1]

HydratedOk(w, objects) ==
  /\ w.dst # 0 /\ w.count \in 1..MaxExtent
  /\ \/ w.type \in Ranges /\ Len(w.buffers) = w.count /\ w.images = <<>>
     \/ w.type \in Images /\ Len(w.images) = w.count /\ w.buffers = <<>>
  /\ ObjectOk(objects, "descriptor_set", w.dst)
  /\ \A i \in DOMAIN w.buffers : ObjectOk(objects, "buffer", w.buffers[i].buffer)
  /\ \A i \in DOMAIN w.images : /\ ObjectOk(objects, "image_view", w.images[i].view)
                                /\ ObjectOk(objects, "sampler", w.images[i].sampler)

Row(w, objects) == Replacing(w, LAMBDA type, token : ObjectOf(objects, token))

DescriptorArgumentsOk(r) ==
  /\ r.count \in 1..MaxWrites /\ r.capacity \in 1..MaxCapacity
  /\ r.count * StructBytes <= r.capacity

DescriptorWorker(host, r, data, rec) ==
  LET writes   == WritesAt(r.handle, data)
      objects  == Objects(writes)
      hydrated == [i \in DOMAIN writes |-> Hydrated(writes[i], objects)]
      bytes    == Extent(r.handle, rec)
  IN IF /\ Confines(host) /\ DescriptorArgumentsOk(r)
        /\ bytes \in (r.count * StructBytes)..MaxBlob
        /\ Len(objects) <= MaxObjects /\ Updates[r.handle].used <= r.capacity
        /\ \A i \in DOMAIN hydrated : HydratedOk(hydrated[i], objects)
        /\ Sum([i \in DOMAIN writes |-> writes[i].count]) <= MaxDescriptors
     THEN <<[handle |-> r.handle, count |-> r.count, input_bytes |-> bytes,
             capacity |-> r.capacity, used |-> Updates[r.handle].used,
             rows |-> [i \in DOMAIN writes |-> Row(hydrated[i], objects)]]>>
     ELSE <<>>

-----------------------------------------------------------------------------
(* The rows against the typed registrations of the generated source.       *)

Unambiguous(registrations) ==
  /\ \A i \in DOMAIN registrations : registrations[i].id # 0
  /\ \A i, j \in DOMAIN registrations :
       registrations[i].type = registrations[j].type /\ registrations[i].id = registrations[j].id
         => i = j

Registered(registrations, object) ==
  {i \in DOMAIN registrations : Key(registrations[i].type, registrations[i].id) = object}

RegisteredAs(registrations, object, type, nullable) ==
  IF object = NoObject THEN nullable
  ELSE object[1] = type /\ Registered(registrations, object) # {}

RangeOk(b) == b.range > 0 /\ (b.range = MaxWord \/ b.offset + b.range <= MaxWord)

RowQualified(row, registrations) ==
  /\ row.type \in Images \cup Ranges
  /\ row.count \in 1..MaxExtent /\ row.first + row.count <= MaxWord + 1
  /\ RegisteredAs(registrations, row.dst, "descriptor_set", FALSE)
  /\ IF row.type \in Images
     THEN /\ row.buffers = <<>> /\ Len(row.images) = row.count
          /\ \A i \in DOMAIN row.images :
               /\ RegisteredAs(registrations, row.images[i].view, "image_view", TRUE)
               /\ RegisteredAs(registrations, row.images[i].sampler, "sampler", TRUE)
     ELSE /\ row.images = <<>> /\ Len(row.buffers) = row.count
          /\ \A i \in DOMAIN row.buffers :
               /\ RangeOk(row.buffers[i])
               /\ RegisteredAs(registrations, row.buffers[i].buffer, "buffer", TRUE)

WritesQualified(answer, registrations, count) ==
  /\ Unambiguous(registrations) /\ Len(answer.rows) = count
  /\ \A i \in DOMAIN answer.rows : RowQualified(answer.rows[i], registrations)
  /\ Sum([i \in DOMAIN answer.rows |-> answer.rows[i].count]) <= MaxDescriptors

Symbol(registrations, object) ==
  IF object = NoObject THEN "null"
  ELSE registrations[Min(Registered(registrations, object))].symbol

QualifiedWrites(answer, registrations) ==
  [i \in DOMAIN answer.rows |->
     Replacing(answer.rows[i], LAMBDA type, object : Symbol(registrations, object))]
================================================================================
