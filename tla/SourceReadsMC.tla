----------------------------- MODULE SourceReadsMC -----------------------------
(***************************************************************************)
(* Small captures and queries for SourceReads.  Handle 1 is a uniform of   *)
(* three bytes, 2 a shader of one byte; 11 is an update whose objects      *)
(* share their ids, 12 to 15 are updates that nothing qualifies.           *)
(***************************************************************************)
EXTENDS SourceReads, TLC

MCBlobs == 1 :> 3 @@ 2 :> 1

Uniform(id, offset, range) ==
  [dst |-> 1, binding |-> 0, first |-> 0, type |-> "uniform", count |-> 1,
   buffers |-> <<[buffer |-> id, offset |-> offset, range |-> range]>>, images |-> <<>>]
Sampled(view, sampler) ==
  [dst |-> 1, binding |-> 1, first |-> 0, type |-> "combined_image_sampler", count |-> 1,
   buffers |-> <<>>, images |-> <<[view |-> view, sampler |-> sampler]>>]

Update(writes, used) == [writes |-> writes, bytes |-> 2 * Len(writes) + 1, used |-> used]

MCUpdates ==
  11 :> Update(<<Uniform(1, 1, MaxWord), Sampled(1, 2), Uniform(0, 1, 6)>>, 6)
    @@ 12 :> Update(<<Uniform(3, 0, 1)>>, 2)           \* a buffer nobody registered
    @@ 13 :> Update(<<Uniform(1, 1, 6), Uniform(1, 2, 6)>>, 4)   \* the second range overflows
    @@ 14 :> Update(<<[Uniform(1, 0, MaxWord) EXCEPT !.count = 2]>>, 2)
    @@ 15 :> Update(<<Uniform(1, 0, 1)>>, 3)           \* does not fit its capacity

Registration(type, id, symbol) == [type |-> type, id |-> id, symbol |-> symbol]
Registrations ==
  <<Registration("descriptor_set", 1, "VkDescriptorSet_uid_1"),
    Registration("buffer", 1, "VkBuffer_uid_1"),
    Registration("image_view", 1, "VkImageView_uid_1"),
    Registration("sampler", 2, "VkSampler_uid_2")>>

Complete ==
  [complete |-> TRUE, cpp |-> TRUE, agrees |-> TRUE, indexed |-> TRUE, producer |-> "2026.3", unsupported |-> FALSE,
   fingerprinted |-> TRUE, helpers |-> TRUE, contract |-> TRUE, plain |-> TRUE,
   registrations |-> Registrations]

Spoiled == [Complete EXCEPT !.plain = FALSE]

MCCaptures ==
  {Complete,
   [Spoiled EXCEPT !.complete = FALSE], [Spoiled EXCEPT !.agrees = FALSE], [Spoiled EXCEPT !.indexed = FALSE],
   [Spoiled EXCEPT !.unsupported = TRUE], [Spoiled EXCEPT !.producer = "2026.2"],
   [Spoiled EXCEPT !.fingerprinted = FALSE], [Spoiled EXCEPT !.helpers = FALSE],
   [Spoiled EXCEPT !.contract = FALSE],
   [Spoiled EXCEPT !.registrations = @ \o <<@[2]>>]}

Linux == [headers |-> TRUE, x86_64 |-> TRUE, limits |-> TRUE, landlock |-> 3]
Installed(resource, descriptor, host) ==
  [resource |-> resource, descriptor |-> descriptor, host |-> host]

MCInstallations ==
  {Installed("good", "good", Linux), Installed("bad", "good", Linux),
   Installed("good", "bad", Linux), Installed("none", "good", Linux),
   Installed("good", "good", [Linux EXCEPT !.landlock = 2])}

Resource(handle, offset, length, declared) ==
  [worker |-> "resource", handle |-> handle, offset |-> offset, length |-> length,
   declared |-> declared, readable |-> TRUE]
Descriptors(handle, count, capacity) ==
  [worker |-> "descriptor", handle |-> handle, count |-> count, capacity |-> capacity,
   readable |-> TRUE]

Query(kind, updates, resources, plans, plain) ==
  [kind |-> kind, updates |-> updates, resources |-> resources, plans |-> plans, plain |-> plain]

Segment(first, count, at) == [handle |-> 1, first |-> first, count |-> count, at |-> at]

\* Two shader stages read a prefix that was uploaded in two parts.
Plans ==
  <<[base |-> 4, length |-> 3, segments |-> <<Segment(1, 2, 4), Segment(0, 1, 6)>>],
    [base |-> 4, length |-> 2, segments |-> <<Segment(1, 2, 4)>>]>>

MCQueries ==
  {Query("resource", <<>>, <<Resource(1, 0, 2, 3)>>, <<>>, TRUE),
   Query("resource", <<>>, <<Resource(1, 1, 4, 0)>>, <<>>, TRUE),
   Query("resource", <<>>, <<Resource(1, 3, 1, 0)>>, <<>>, TRUE),
   Query("resource", <<>>, <<Resource(1, 4, 1, 0)>>, <<>>, FALSE),
   Query("push", <<>>, <<Resource(1, 0, 3, 3), Resource(2, 0, 1, 1)>>, <<>>, TRUE),
   Query("push", <<>>, <<Resource(1, 0, 3, 3), Resource(2, 0, 1, 1), Resource(1, 0, 3, 0)>>, <<>>, FALSE),
   Query("values", <<Descriptors(11, 3, 6)>>, <<Resource(2, 0, 1, 1)>>, Plans, TRUE),
   Query("values", <<Descriptors(11, 3, 6)>>,
         <<Resource(2, 0, 1, 1), Resource(2, 0, 1, 1)>>, Plans, FALSE),
   Query("values", <<Descriptors(11, 3, 9), Descriptors(11, 3, 9)>>, <<>>, <<>>, FALSE)}
    \cup {Query("descriptor", <<Descriptors(11, 3, 6)>>, <<>>, <<>>, TRUE)}
    \cup {Query("descriptor", <<Descriptors(h, Len(MCUpdates[h].writes), 2 * Len(MCUpdates[h].writes))>>,
                <<>>, <<>>, FALSE) : h \in {12, 13, 14, 15}}
================================================================================
