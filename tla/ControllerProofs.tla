-------------------------- MODULE ControllerProofs --------------------------
(***************************************************************************)
(* The safety invariants of Controller, for every inventory and shard      *)
(* size.                                                                   *)
(***************************************************************************)
EXTENDS Controller, FiniteSetTheorems, TLAPS

(***************************************************************************)
(* The inductive invariant.                                                *)
(***************************************************************************)

\* The messages made so far come from the part of the inventory that has been
\* read, carry smaller shard numbers than the shard being filled, and hold
\* between one and ShardSize repositories.
MessagesAreSound ==
    /\ ShardsAreDisjoint
    /\ \A m \in Published :
        /\ m.shard <= shardNum
        /\ m.repos \subseteq 1 .. next - 1
        /\ Cardinality(m.repos) \in 1 .. ShardSize
        /\ pc = "reading" => m.shard < shardNum /\ m.repos \intersect repos = {}

\* The shard being filled is not full.
ShardIsNotFull ==
    /\ IsFiniteSet(repos)
    /\ repos \subseteq 1 .. next - 1
    /\ pc = "reading" => Cardinality(repos) < ShardSize /\ shardNum >= 0

\* As long as no send failed, the messages and the shard being filled hold all
\* that was read, and the shard numbers leave no gap.
NothingIsMissing ==
    totalErrors = 0 =>
        /\ pc = "reading" =>
            /\ {m.shard : m \in Published} = 0 .. shardNum - 1
            /\ ReposIn(Published) \union repos = 1 .. next - 1
        /\ pc \in {"closing", "metadata", "rawMetadata", "done"} =>
            /\ {m.shard : m \in Published} = 0 .. shardNum
            /\ ReposIn(Published) = Inventory

\* Metadata comes after a Close without errors, the raw bucket's last.
MetadataComesLast ==
    /\ pc \in {"metadata", "rawMetadata", "done"} => outgoing = {} /\ totalErrors = 0
    /\ pc \in {"reading", "closing", "metadata"} => metadata = NotWritten
    /\ pc = "rawMetadata" => metadata = shardNum + 1
    /\ pc \in Running => rawMetadata = NotWritten
    /\ metadata # NotWritten => outgoing = {} /\ totalErrors = 0
    /\ rawMetadata # NotWritten => rawMetadata = metadata

IInv ==
    /\ TypeOK
    /\ MessagesAreSound
    /\ ShardIsNotFull
    /\ NothingIsMissing
    /\ MetadataComesLast
    /\ AnnouncedJobIsWhole

\* The invariant holds before the first repository is read.
LEMMA InitIInv == Init => IInv
<1> SUFFICES ASSUME Init
             PROVE  IInv
  OBVIOUS
<1>1. TypeOK
  BY ControllerAssumption DEF Init, TypeOK, Running, Inventory, NotWritten
<1>2. MessagesAreSound /\ NothingIsMissing
  BY DEF Init, MessagesAreSound, ShardsAreDisjoint, NothingIsMissing, Published, ReposIn
<1>3. ShardIsNotFull
  BY ControllerAssumption, FS_EmptySet DEF Init, ShardIsNotFull
<1>4. MetadataComesLast /\ AnnouncedJobIsWhole
  BY DEF Init, MetadataComesLast, AnnouncedJobIsWhole
<1> QED
  BY <1>1, <1>2, <1>3, <1>4 DEF IInv

(***************************************************************************)
(* Publishing a batch, in the loop or at its end.                          *)
(***************************************************************************)

\* What one more message adds to the shard numbers and the repositories.
LEMMA AddMessage ==
    ASSUME NEW S, NEW n
    PROVE  /\ {m.shard : m \in S \union {n}} = {m.shard : m \in S} \union {n.shard}
           /\ UNION {m.repos : m \in S \union {n}} = (UNION {m.repos : m \in S}) \union n.repos
<1>1. {m.shard : m \in S \union {n}} = {m.shard : m \in S} \union {n.shard}
  OBVIOUS
<1>2. {m.repos : m \in S \union {n}} = {m.repos : m \in S} \union {n.repos}
  OBVIOUS
<1>3. \A T, t : UNION (T \union {t}) = (UNION T) \union t
  OBVIOUS
<1> QED
  BY <1>1, <1>2, <1>3

\* A new message with the next shard number and repositories no message has yet.
LEMMA PublishStep ==
    ASSUME IInv, pc = "reading", NEW batch \in SUBSET Inventory, Publish(batch), UNCHANGED queue,
           \A m \in Published : m.repos \intersect batch = {}
    PROVE  /\ outgoing' \subseteq Message
           /\ Published' = Published \union {[shard |-> shardNum, repos |-> batch]}
           /\ ShardsAreDisjoint'
           /\ {m.shard : m \in Published'} = {m.shard : m \in Published} \union {shardNum}
           /\ ReposIn(Published)' = ReposIn(Published) \union batch
<1> DEFINE new == [shard |-> shardNum, repos |-> batch]
<1>1. new \in Message /\ shardNum \in Nat
  BY DEF IInv, TypeOK, ShardIsNotFull, Message
<1>2. outgoing' \subseteq Message
  BY <1>1 DEF IInv, TypeOK, Publish
<1>3. Published' = Published \union {new}
  BY DEF Publish, Published
<1>4. \A m \in Published : m.shard # new.shard /\ m.repos \intersect new.repos = {}
  <2> SUFFICES ASSUME NEW m \in Published
               PROVE  m.shard # new.shard /\ m.repos \intersect new.repos = {}
    OBVIOUS
  <2>1. m \in Message /\ m.shard < shardNum
    BY DEF IInv, TypeOK, MessagesAreSound, Published
  <2> QED
    BY <1>1, <2>1 DEF Message
<1>5. ShardsAreDisjoint'
  BY <1>3, <1>4 DEF IInv, MessagesAreSound, ShardsAreDisjoint
<1>6. {m.shard : m \in Published'} = {m.shard : m \in Published} \union {shardNum}
  BY <1>3, AddMessage
<1>7. ReposIn(Published)' = ReposIn(Published) \union batch
  BY <1>3, AddMessage DEF ReposIn
<1> QED
  BY <1>2, <1>3, <1>5, <1>6, <1>7

\* A turn of the read loop keeps the invariant: the published shard takes a
\* number and repositories that no earlier message has.
LEMMA ReadRepoStep ==
    ASSUME IInv, ReadRepo
    PROVE  IInv'
<1> DEFINE batch == repos \union {next}
<1>1. /\ pc = "reading" /\ next <= numRepos /\ next' = next + 1
      /\ UNCHANGED <<numRepos, pc, queue, totalErrors, metadata, rawMetadata>>
  BY DEF ReadRepo
<1>2. /\ numRepos \in Nat /\ next \in 1 .. numRepos /\ next \in Nat
      /\ repos \subseteq 1 .. next - 1 /\ IsFiniteSet(repos)
      /\ shardNum \in Nat /\ ShardSize \in Nat /\ Cardinality(repos) < ShardSize
  BY <1>1, ControllerAssumption DEF IInv, TypeOK, ShardIsNotFull
<1>3. next \notin repos /\ batch \subseteq 1 .. next /\ batch \in SUBSET Inventory
  BY <1>2 DEF Inventory
<1>4. /\ IsFiniteSet(batch) /\ Cardinality(batch) = Cardinality(repos) + 1
      /\ Cardinality(batch) \in 1 .. ShardSize
  <2>1. Cardinality(repos) \in Nat
    BY <1>2, FS_CardinalityType
  <2>2. IsFiniteSet(batch) /\ Cardinality(batch) = Cardinality(repos) + 1
    BY <1>2, <1>3, FS_AddElement
  <2> QED
    BY <1>2, <2>1, <2>2
<1>5. \A m \in Published :
        /\ m.shard \in Nat /\ m.shard < shardNum
        /\ m.repos \subseteq 1 .. next - 1
        /\ m.repos \intersect batch = {}
        /\ Cardinality(m.repos) \in 1 .. ShardSize
  BY <1>1, <1>2 DEF IInv, TypeOK, MessagesAreSound, Published, Message
<1>6. MetadataComesLast' /\ AnnouncedJobIsWhole'
  BY <1>1 DEF IInv, MetadataComesLast, AnnouncedJobIsWhole, ReadRepo
<1>7. CASE /\ Cardinality(batch) < ShardSize
           /\ repos' = batch
           /\ UNCHANGED <<shardNum, outgoing>>
  <2>1. TypeOK'
    BY <1>1, <1>2, <1>3, <1>7 DEF IInv, TypeOK, Inventory, Message
  <2>2. Published' = Published
    BY <1>1, <1>7 DEF Published
  <2>3. MessagesAreSound'
    BY <1>1, <1>2, <1>5, <1>7, <2>2 DEF IInv, MessagesAreSound, ShardsAreDisjoint
  <2>4. ShardIsNotFull'
    BY <1>1, <1>2, <1>3, <1>4, <1>7 DEF ShardIsNotFull
  <2>5. NothingIsMissing'
    <3>1. (1 .. next - 1) \union {next} = 1 .. next' - 1
      BY <1>1, <1>2
    <3> QED
      BY <1>1, <1>7, <2>2, <3>1 DEF IInv, NothingIsMissing, ReposIn
  <2> QED
    BY <1>6, <2>1, <2>3, <2>4, <2>5 DEF IInv
<1>8. CASE /\ ~ (Cardinality(batch) < ShardSize)
           /\ Publish(batch)
           /\ repos' = {}
           /\ shardNum' = shardNum + 1
  <2>1. /\ outgoing' \subseteq Message
        /\ Published' = Published \union {[shard |-> shardNum, repos |-> batch]}
        /\ ShardsAreDisjoint'
        /\ {m.shard : m \in Published'} = {m.shard : m \in Published} \union {shardNum}
        /\ ReposIn(Published)' = ReposIn(Published) \union batch
    BY <1>1, <1>3, <1>5, <1>8, PublishStep
  <2>2. TypeOK'
    BY <1>1, <1>2, <1>8, <2>1 DEF IInv, TypeOK, Inventory, Message
  <2>3. MessagesAreSound'
    <3>1. ASSUME NEW m \in Published'
          PROVE  /\ m.shard \in Nat /\ m.shard <= shardNum
                 /\ m.repos \subseteq 1 .. next
                 /\ Cardinality(m.repos) \in 1 .. ShardSize
      <4>1. CASE m \in Published
        BY <1>2, <1>5, <4>1
      <4>2. CASE m = [shard |-> shardNum, repos |-> batch]
        <5>1. m.shard = shardNum /\ m.repos = batch
          BY <4>2
        <5> QED
          BY <1>2, <1>3, <1>4, <5>1
      <4> QED
        BY <2>1, <4>1, <4>2
    <3> QED
      BY <1>1, <1>2, <1>8, <2>1, <3>1 DEF MessagesAreSound
  <2>4. ShardIsNotFull'
    BY <1>1, <1>2, <1>8, FS_EmptySet, ControllerAssumption DEF ShardIsNotFull
  <2>5. NothingIsMissing'
    <3>1. (0 .. shardNum - 1) \union {shardNum} = 0 .. shardNum' - 1
      BY <1>2, <1>8
    <3>2. (1 .. next - 1) \union {next} = 1 .. next' - 1
      BY <1>1, <1>2
    <3>3. ASSUME totalErrors' = 0
          PROVE  /\ {m.shard : m \in Published'} = 0 .. shardNum' - 1
                 /\ ReposIn(Published)' \union repos' = 1 .. next' - 1
      BY <1>1, <1>8, <2>1, <3>1, <3>2, <3>3 DEF IInv, NothingIsMissing
    <3> QED
      BY <1>1, <3>3 DEF NothingIsMissing
  <2> QED
    BY <1>6, <2>2, <2>3, <2>4, <2>5 DEF IInv
<1> QED
  BY <1>7, <1>8 DEF ReadRepo

\* So does the end of the inventory, with or without a partial shard.
LEMMA FlushStep ==
    ASSUME IInv, Flush
    PROVE  IInv'
<1>1. /\ pc = "reading" /\ next > numRepos /\ pc' = "closing"
      /\ UNCHANGED <<numRepos, next, repos, queue, totalErrors, metadata, rawMetadata>>
  BY DEF Flush
<1>2. /\ numRepos \in Nat /\ next = numRepos + 1 /\ 1 .. next - 1 = Inventory
      /\ repos \subseteq Inventory /\ IsFiniteSet(repos)
      /\ shardNum \in Nat /\ ShardSize \in Nat /\ Cardinality(repos) < ShardSize
  BY <1>1, ControllerAssumption DEF IInv, TypeOK, ShardIsNotFull, Inventory
<1>3. \A m \in Published :
        /\ m.shard \in Nat /\ m.shard < shardNum
        /\ m.repos \subseteq 1 .. next - 1
        /\ m.repos \intersect repos = {}
        /\ Cardinality(m.repos) \in 1 .. ShardSize
  BY <1>1, <1>2 DEF IInv, TypeOK, MessagesAreSound, Published, Message
<1>4. MetadataComesLast' /\ AnnouncedJobIsWhole'
  BY <1>1 DEF IInv, MetadataComesLast, AnnouncedJobIsWhole, Running
<1>5. ShardIsNotFull'
  BY <1>1, <1>2 DEF IInv, ShardIsNotFull
<1>6. CASE /\ repos # {}
           /\ Publish(repos)
           /\ UNCHANGED shardNum
  <2>1. /\ outgoing' \subseteq Message
        /\ Published' = Published \union {[shard |-> shardNum, repos |-> repos]}
        /\ ShardsAreDisjoint'
        /\ {m.shard : m \in Published'} = {m.shard : m \in Published} \union {shardNum}
        /\ ReposIn(Published)' = ReposIn(Published) \union repos
    BY <1>1, <1>2, <1>3, <1>6, PublishStep
  <2>2. TypeOK'
    BY <1>1, <1>2, <1>6, <2>1 DEF IInv, TypeOK, Running, Inventory, Message
  <2>3. Cardinality(repos) \in 1 .. ShardSize
    BY <1>2, <1>6, FS_EmptySet, FS_CardinalityType
  <2>4. MessagesAreSound'
    BY <1>1, <1>2, <1>3, <1>6, <2>1, <2>3 DEF MessagesAreSound
  <2>5. NothingIsMissing'
    <3>1. (0 .. shardNum - 1) \union {shardNum} = 0 .. shardNum
      BY <1>2
    <3> QED
      BY <1>1, <1>2, <1>6, <2>1, <3>1 DEF IInv, NothingIsMissing, Inventory
  <2> QED
    BY <1>4, <1>5, <2>2, <2>4, <2>5 DEF IInv
<1>7. CASE /\ repos = {}
           /\ shardNum' = shardNum - 1
           /\ UNCHANGED outgoing
  <2>1. Published' = Published
    BY <1>1, <1>7 DEF Published
  <2>2. TypeOK'
    BY <1>1, <1>2, <1>7 DEF IInv, TypeOK, Running, Inventory, Message
  <2>3. MessagesAreSound'
    BY <1>1, <1>2, <1>3, <1>7, <2>1 DEF IInv, MessagesAreSound, ShardsAreDisjoint
  <2>4. NothingIsMissing'
    BY <1>1, <1>2, <1>7, <2>1 DEF IInv, NothingIsMissing, ReposIn, Inventory
  <2> QED
    BY <1>4, <1>5, <2>2, <2>3, <2>4 DEF IInv
<1> QED
  BY <1>6, <1>7 DEF Flush

(***************************************************************************)
(* The send goroutines, Close and the metadata files.                      *)
(***************************************************************************)

\* With fewer messages published and main where it was, what is left of them
\* is still sound.
LEMMA FewerMessages ==
    ASSUME IInv, Published' \subseteq Published,
           UNCHANGED <<numRepos, next, repos, shardNum>>,
           pc' = pc \/ pc' # "reading"
    PROVE  MessagesAreSound' /\ ShardIsNotFull'
<1>1. MessagesAreSound'
  BY DEF IInv, MessagesAreSound, ShardsAreDisjoint
<1>2. ShardIsNotFull'
  BY DEF IInv, ShardIsNotFull
<1> QED
  BY <1>1, <1>2

\* A send that ends well moves a message from the process to the queue.
LEMMA SendOkStep ==
    ASSUME IInv, NEW m \in outgoing, SendOk(m)
    PROVE  IInv'
<1>1. /\ Published' = Published
      /\ UNCHANGED <<numRepos, pc, next, repos, shardNum, totalErrors, metadata, rawMetadata>>
  BY DEF SendOk, Published
<1>2. TypeOK'
  BY DEF IInv, TypeOK, SendOk, Message, Inventory
<1>3. MessagesAreSound' /\ ShardIsNotFull'
  BY <1>1, FewerMessages
<1>4. NothingIsMissing'
  BY <1>1 DEF IInv, NothingIsMissing, ReposIn, Inventory
<1>5. MetadataComesLast' /\ AnnouncedJobIsWhole'
  BY <1>1 DEF IInv, MetadataComesLast, AnnouncedJobIsWhole, SendOk
<1> QED
  BY <1>2, <1>3, <1>4, <1>5 DEF IInv

\* A send that fails is counted, whether or not the queue has the message.
LEMMA SendErrorStep ==
    ASSUME IInv, NEW m \in outgoing, SendError(m)
    PROVE  IInv'
<1>1. /\ Published' \subseteq Published
      /\ totalErrors' = totalErrors + 1
      /\ UNCHANGED <<numRepos, pc, next, repos, shardNum, metadata, rawMetadata>>
  BY DEF SendError, Published
<1>2. TypeOK'
  BY DEF IInv, TypeOK, SendError, Message, Inventory
<1>3. MessagesAreSound' /\ ShardIsNotFull'
  BY <1>1, FewerMessages
<1>4. totalErrors' # 0
  BY <1>1 DEF IInv, TypeOK
<1>5. NothingIsMissing'
  BY <1>4 DEF NothingIsMissing
<1>6. MetadataComesLast' /\ AnnouncedJobIsWhole'
  BY <1>1 DEF IInv, MetadataComesLast, AnnouncedJobIsWhole, SendError
<1> QED
  BY <1>2, <1>3, <1>5, <1>6 DEF IInv

\* Close passes only when no message is missing from the queue.
LEMMA CloseStep ==
    ASSUME IInv, Close
    PROVE  IInv'
<1>1. /\ pc = "closing" /\ outgoing = {}
      /\ pc' = IF totalErrors > 0 THEN "panicked" ELSE "metadata"
      /\ Published' = Published
      /\ UNCHANGED <<numRepos, next, repos, shardNum, outgoing, queue, totalErrors, metadata, rawMetadata>>
  BY DEF Close, Published
<1>2. TypeOK'
  BY <1>1 DEF IInv, TypeOK, Running, Message, Inventory
<1>3. MessagesAreSound' /\ ShardIsNotFull'
  BY <1>1, FewerMessages
<1>4. NothingIsMissing'
  BY <1>1 DEF IInv, NothingIsMissing, ReposIn, Inventory
<1>5. totalErrors = 0 \/ totalErrors > 0
  BY DEF IInv, TypeOK
<1>6. MetadataComesLast' /\ AnnouncedJobIsWhole'
  BY <1>1, <1>5 DEF IInv, MetadataComesLast, AnnouncedJobIsWhole, Running
<1> QED
  BY <1>2, <1>3, <1>4, <1>6 DEF IInv

\* The canonical metadata is written for a queue that holds the whole job.
LEMMA WriteMetadataStep ==
    ASSUME IInv, WriteMetadata
    PROVE  IInv'
<1>1. /\ pc = "metadata" /\ outgoing = {} /\ totalErrors = 0
      /\ pc' \in {"rawMetadata", "done", "panicked"}
      /\ metadata' = shardNum + 1
      /\ Published' = Published
      /\ UNCHANGED <<numRepos, next, repos, shardNum, outgoing, queue, totalErrors, rawMetadata>>
  BY DEF IInv, MetadataComesLast, WriteMetadata, Published
<1>2. TypeOK'
  BY <1>1 DEF IInv, TypeOK, Running, Message, Inventory, NotWritten
<1>3. MessagesAreSound' /\ ShardIsNotFull'
  BY <1>1, FewerMessages
<1>4. NothingIsMissing'
  BY <1>1 DEF IInv, NothingIsMissing, ReposIn, Inventory
<1>5. MetadataComesLast'
  BY <1>1 DEF IInv, MetadataComesLast, Running
<1>6. AnnouncedJobIsWhole'
  <2>1. Published = queue /\ queue' = queue
    BY <1>1 DEF Published
  <2>2. {m.shard : m \in queue} = 0 .. shardNum /\ ReposIn(queue) = Inventory
    BY <1>1, <2>1 DEF IInv, NothingIsMissing
  <2>3. metadata' - 1 = shardNum
    BY <1>1 DEF IInv, TypeOK
  <2>4. \A m \in queue : Cardinality(m.repos) \in 1 .. ShardSize
    BY <2>1 DEF IInv, MessagesAreSound
  <2> QED
    BY <1>1, <2>1, <2>2, <2>3, <2>4 DEF AnnouncedJobIsWhole, ReposIn, Inventory
<1> QED
  BY <1>2, <1>3, <1>4, <1>5, <1>6 DEF IInv

\* The raw metadata repeats the canonical one.
LEMMA WriteRawMetadataStep ==
    ASSUME IInv, WriteRawMetadata
    PROVE  IInv'
<1>1. /\ pc = "rawMetadata"
      /\ pc' \in {"done", "panicked"}
      /\ rawMetadata' = shardNum + 1
      /\ Published' = Published
      /\ UNCHANGED <<numRepos, next, repos, shardNum, outgoing, queue, totalErrors, metadata>>
  BY DEF WriteRawMetadata, Published
<1>2. TypeOK'
  BY <1>1 DEF IInv, TypeOK, Running, Message, Inventory, NotWritten
<1>3. MessagesAreSound' /\ ShardIsNotFull'
  BY <1>1, FewerMessages
<1>4. NothingIsMissing' /\ AnnouncedJobIsWhole'
  BY <1>1 DEF IInv, NothingIsMissing, AnnouncedJobIsWhole, ReposIn, Inventory
<1>5. MetadataComesLast'
  BY <1>1 DEF IInv, MetadataComesLast, Running
<1> QED
  BY <1>2, <1>3, <1>4, <1>5 DEF IInv

\* A panic loses the sends under way of a job that is not announced.
LEMMA PanicStep ==
    ASSUME IInv, Panic
    PROVE  IInv'
<1>1. /\ pc' = "panicked" /\ outgoing' = {}
      /\ Published' \subseteq Published
      /\ UNCHANGED <<numRepos, next, repos, shardNum, queue, totalErrors, metadata, rawMetadata>>
  BY DEF Panic, Published
<1>2. TypeOK'
  BY <1>1 DEF IInv, TypeOK, Message, Inventory
<1>3. MessagesAreSound' /\ ShardIsNotFull'
  BY <1>1, FewerMessages
<1>4. NothingIsMissing' /\ AnnouncedJobIsWhole'
  BY <1>1 DEF IInv, NothingIsMissing, AnnouncedJobIsWhole, ReposIn, Inventory
<1>5. MetadataComesLast'
  BY <1>1 DEF IInv, MetadataComesLast, Running
<1> QED
  BY <1>2, <1>3, <1>4, <1>5 DEF IInv

\* Every step of the controller and its goroutines keeps the invariant.
LEMMA NextIInv == IInv /\ [Next]_vars => IInv'
<1> SUFFICES ASSUME IInv, [Next]_vars
             PROVE  IInv'
  OBVIOUS
<1>1. CASE Main
  BY <1>1, ReadRepoStep, FlushStep, CloseStep, WriteMetadataStep, WriteRawMetadataStep DEF Main
<1>2. CASE Sends
  BY <1>2, SendOkStep, SendErrorStep DEF Sends
<1>3. CASE Panic
  BY <1>3, PanicStep
<1>4. CASE UNCHANGED vars
  <2>1. Published' = Published
    BY <1>4 DEF vars, Published
  <2>2. MessagesAreSound' /\ ShardIsNotFull'
    BY <1>4, <2>1, FewerMessages DEF vars
  <2>3. TypeOK'
    BY <1>4 DEF IInv, TypeOK, Message, Inventory, vars
  <2>4. NothingIsMissing' /\ MetadataComesLast' /\ AnnouncedJobIsWhole'
    BY <1>4, <2>1 DEF IInv, NothingIsMissing, MetadataComesLast, AnnouncedJobIsWhole, ReposIn,
                      Inventory, vars
  <2> QED
    BY <2>2, <2>3, <2>4 DEF IInv
<1> QED
  BY <1>1, <1>2, <1>3, <1>4 DEF Next

(***************************************************************************)
(* The theorems.                                                           *)
(***************************************************************************)

\* The inductive invariant holds throughout.
LEMMA InvariantHolds == Spec => []IInv
BY InitIInv, NextIInv, PTL DEF Spec

\* Every variable keeps its type: no repository outside the inventory is read
\* or sent (publishToRepoRequestTopic).
THEOREM TypeCorrect == Spec => []TypeOK
<1>1. IInv => TypeOK
  BY DEF IInv
<1> QED
  BY <1>1, InvariantHolds, PTL

\* No two messages share a shard number or a repository, for every inventory and
\* shard size, although one request is reused for all of them
\* (publishToRepoRequestTopic and Publish).
THEOREM MessagesAreDisjoint == Spec => []ShardsAreDisjoint
<1>1. IInv => ShardsAreDisjoint
  BY DEF IInv, MessagesAreSound
<1> QED
  BY <1>1, InvariantHolds, PTL

\* A job is announced only with exactly the shards the queue holds, covering the
\* whole inventory: NumShard is right for even, uneven and empty inventories
\* (the decrement in publishToRepoRequestTopic and Close's error).
THEOREM AnnouncedIsWhole == Spec => []AnnouncedJobIsWhole
<1>1. IInv => AnnouncedJobIsWhole
  BY DEF IInv
<1> QED
  BY <1>1, InvariantHolds, PTL

\* A job with a failed or unfinished send is not announced, and the raw bucket
\* repeats the canonical metadata (main, after publishToRepoRequestTopic).
THEOREM UnfinishedIsSilent == Spec => []UnfinishedJobIsSilent
<1>1. IInv => UnfinishedJobIsSilent
  BY DEF IInv, TypeOK, MetadataComesLast, UnfinishedJobIsSilent
<1> QED
  BY <1>1, InvariantHolds, PTL

(***************************************************************************)
(* How many shards the inventory divides into.                             *)
(***************************************************************************)

\* One more multiple of a size is at least that size away.
LEMMA NextMultiple ==
    ASSUME NEW S \in Nat \ {0}, NEW a \in Nat, NEW b \in Nat, a < b
    PROVE  S * a + S <= S * b
<1>1. PICK d \in Nat : b = a + 1 + d
  <2>1. b - a - 1 \in Nat /\ b = a + 1 + (b - a - 1)
    OBVIOUS
  <2> QED
    BY <2>1
<1>2. S * b = S * a + S + S * d
  BY <1>1
<1>3. S * d \in Nat
  OBVIOUS
<1> QED
  BY <1>2, <1>3

\* Quotient and remainder, and that there are no others.
LEMMA Division ==
    ASSUME NEW S \in Nat \ {0}, NEW n \in Nat
    PROVE  /\ n \div S \in Nat
           /\ S * (n \div S) <= n
           /\ n < S * (n \div S) + S
           /\ \A a \in Nat : S * a <= n /\ n < S * a + S => n \div S = a
<1>1. /\ n \div S \in Nat /\ n % S \in 0 .. S - 1
      /\ n = S * (n \div S) + (n % S) /\ S * (n \div S) \in Nat
  OBVIOUS
<1>2. S * (n \div S) <= n /\ n < S * (n \div S) + S
  BY <1>1
<1>3. ASSUME NEW a \in Nat, S * a <= n, n < S * a + S
      PROVE  n \div S = a
  <2>1. S * a \in Nat
    OBVIOUS
  <2>2. ~ (a < n \div S)
    <3>1. ASSUME a < n \div S
          PROVE  S * a + S <= S * (n \div S)
      BY <1>1, <3>1, NextMultiple
    <3> QED
      BY <1>1, <1>2, <1>3, <2>1, <3>1
  <2>3. ~ (n \div S < a)
    <3>1. ASSUME n \div S < a
          PROVE  S * (n \div S) + S <= S * a
      BY <1>1, <3>1, NextMultiple
    <3> QED
      BY <1>1, <1>2, <1>3, <2>1, <3>1
  <2> QED
    BY <1>1, <2>2, <2>3
<1> QED
  BY <1>1, <1>2, <1>3

\* The number of shards, rounded up, that BatchJob calls size.
NumShards == (numRepos + ShardSize - 1) \div ShardSize

\* NumShards is the least number of shards that hold the inventory.
LEMMA NumShardsIs ==
    ASSUME numRepos \in Nat, NEW q \in Nat
    PROVE  /\ NumShards \in Nat
           /\ ShardSize * q = numRepos => NumShards = q
           /\ ShardSize * q < numRepos /\ numRepos < ShardSize * q + ShardSize => NumShards = q + 1
           /\ ShardSize * q + ShardSize <= numRepos => q < NumShards
<1> DEFINE S == ShardSize
           n == numRepos + S - 1
<1>1. S \in Nat \ {0} /\ n \in Nat /\ NumShards = n \div S
  BY ControllerAssumption DEF NumShards
<1> HIDE DEF S
<1>2. S * q \in Nat /\ S * (q + 1) = S * q + S
  BY <1>1
<1>3. /\ NumShards \in Nat /\ S * NumShards \in Nat
      /\ S * NumShards <= n /\ n < S * NumShards + S
      /\ \A a \in Nat : S * a <= n /\ n < S * a + S => NumShards = a
  <2>1. /\ NumShards \in Nat
        /\ S * NumShards <= n /\ n < S * NumShards + S
        /\ \A a \in Nat : S * a <= n /\ n < S * a + S => NumShards = a
    BY <1>1, Division
  <2> QED
    BY <1>1, <2>1
<1>4. ASSUME S * q = numRepos
      PROVE  NumShards = q
  <2>1. S * q <= n /\ n < S * q + S
    BY <1>1, <1>2, <1>4
  <2> QED
    BY <1>3, <2>1
<1>5. ASSUME S * q < numRepos, numRepos < S * q + S
      PROVE  NumShards = q + 1
  <2>1. S * (q + 1) <= n /\ n < S * (q + 1) + S
    BY <1>1, <1>2, <1>5
  <2> QED
    BY <1>3, <2>1
<1>6. ASSUME S * q + S <= numRepos
      PROVE  q < NumShards
  <2>1. S * q + S <= S * NumShards \/ q < NumShards
    BY <1>1, <1>2, <1>3, <1>6
  <2>2. ASSUME ~ (q < NumShards)
        PROVE  S * NumShards <= S * q
    <3>1. CASE NumShards = q
      BY <1>2, <3>1
    <3>2. CASE NumShards < q
      <4>1. S * NumShards + S <= S * q
        BY <1>1, <1>3, <3>2, NextMultiple
      <4> QED
        BY <1>1, <1>2, <1>3, <4>1
    <3> QED
      BY <1>3, <2>2, <3>1, <3>2
  <2> QED
    BY <1>1, <1>2, <1>3, <1>6, <2>2
<1> QED
  BY <1>3, <1>4, <1>5, <1>6 DEF S

\* The shards filled so far and the one being filled hold all that was read;
\* once the inventory is exhausted shardNum is the last of NumShards shards.
ShardsAreCounted ==
    /\ pc = "reading" => next - 1 = ShardSize * shardNum + Cardinality(repos)
    /\ pc \in {"closing", "metadata"} => shardNum + 1 = NumShards
    /\ \A m \in Published : m.shard < NumShards

\* No shard is counted before the first repository.
LEMMA InitShardsAreCounted == Init => ShardsAreCounted
<1> SUFFICES ASSUME Init
             PROVE  ShardsAreCounted
  OBVIOUS
<1>1. next - 1 = ShardSize * shardNum + Cardinality(repos)
  <2>1. next = 1 /\ shardNum = 0 /\ Cardinality(repos) = 0
    BY FS_EmptySet DEF Init
  <2> QED
    BY <2>1, ControllerAssumption
<1> QED
  BY <1>1 DEF Init, ShardsAreCounted, Published

\* A full shard is one more multiple of ShardSize.
LEMMA ReadRepoCounts ==
    ASSUME IInv, ShardsAreCounted, ReadRepo
    PROVE  ShardsAreCounted'
<1> DEFINE batch == repos \union {next}
<1>1. /\ pc = "reading" /\ next <= numRepos /\ next' = next + 1 /\ pc' = pc /\ queue' = queue
      /\ NumShards' = NumShards
  BY DEF ReadRepo, NumShards
<1>2. /\ numRepos \in Nat /\ next \in Nat /\ shardNum \in Nat /\ ShardSize \in Nat \ {0}
      /\ repos \subseteq 1 .. next - 1 /\ IsFiniteSet(repos) /\ Cardinality(repos) < ShardSize
  BY <1>1, ControllerAssumption DEF IInv, TypeOK, ShardIsNotFull
<1>3. Cardinality(repos) \in Nat /\ Cardinality(batch) = Cardinality(repos) + 1
  <2>1. next \notin repos
    BY <1>2
  <2> QED
    BY <1>2, <2>1, FS_CardinalityType, FS_AddElement
<1>4. /\ ShardSize * shardNum \in Nat /\ ShardSize * (shardNum + 1) = ShardSize * shardNum + ShardSize
      /\ next - 1 = ShardSize * shardNum + Cardinality(repos)
  BY <1>1, <1>2 DEF ShardsAreCounted
<1>5. CASE Cardinality(batch) < ShardSize /\ repos' = batch /\ UNCHANGED <<shardNum, outgoing>>
  <2>1. next' - 1 = ShardSize * shardNum' + Cardinality(repos')
    BY <1>1, <1>2, <1>3, <1>4, <1>5
  <2>2. Published' = Published
    BY <1>1, <1>5 DEF Published
  <2> QED
    BY <1>1, <2>1, <2>2 DEF ShardsAreCounted
<1>6. CASE /\ ~ (Cardinality(batch) < ShardSize)
           /\ Publish(batch)
           /\ repos' = {}
           /\ shardNum' = shardNum + 1
  <2>1. ShardSize * shardNum + ShardSize = next
    BY <1>2, <1>3, <1>4, <1>6
  <2>2. next' - 1 = ShardSize * shardNum' + Cardinality(repos')
    <3>1. Cardinality(repos') = 0
      BY <1>6, FS_EmptySet
    <3> QED
      BY <1>1, <1>2, <1>4, <1>6, <2>1, <3>1
  <2>3. shardNum < NumShards
    BY <1>1, <1>2, <2>1, NumShardsIs
  <2>4. Published' = Published \union {[shard |-> shardNum, repos |-> batch]}
    BY <1>1, <1>6 DEF Published, Publish
  <2>5. \A m \in Published' : m.shard < NumShards
    BY <2>3, <2>4 DEF ShardsAreCounted
  <2> QED
    BY <1>1, <2>2, <2>5 DEF ShardsAreCounted
<1> QED
  BY <1>5, <1>6 DEF ReadRepo

\* At the end of the inventory the last shard is partial, or full and the
\* number prepared for one more is taken back.
LEMMA FlushCounts ==
    ASSUME IInv, ShardsAreCounted, Flush
    PROVE  ShardsAreCounted'
<1>1. /\ pc = "reading" /\ next > numRepos /\ pc' = "closing" /\ queue' = queue
      /\ NumShards' = NumShards
  BY DEF Flush, NumShards
<1>2. /\ numRepos \in Nat /\ next = numRepos + 1 /\ shardNum \in Nat /\ ShardSize \in Nat \ {0}
      /\ IsFiniteSet(repos) /\ Cardinality(repos) < ShardSize
  BY <1>1, ControllerAssumption DEF IInv, TypeOK, ShardIsNotFull
<1>3. Cardinality(repos) \in Nat /\ (Cardinality(repos) = 0 <=> repos = {})
  BY <1>2, FS_CardinalityType, FS_EmptySet
<1>4. ShardSize * shardNum \in Nat /\ numRepos = ShardSize * shardNum + Cardinality(repos)
  BY <1>1, <1>2, <1>3 DEF ShardsAreCounted
<1>5. CASE repos # {} /\ Publish(repos) /\ UNCHANGED shardNum
  <2>1. NumShards = shardNum + 1
    <3>1. ShardSize * shardNum < numRepos /\ numRepos < ShardSize * shardNum + ShardSize
      BY <1>2, <1>3, <1>4, <1>5
    <3> QED
      BY <1>2, <3>1, NumShardsIs
  <2>2. Published' = Published \union {[shard |-> shardNum, repos |-> repos]}
    BY <1>1, <1>5 DEF Published, Publish
  <2>3. \A m \in Published' : m.shard < NumShards
    BY <1>2, <2>1, <2>2 DEF ShardsAreCounted
  <2> QED
    BY <1>1, <1>5, <2>1, <2>3 DEF ShardsAreCounted
<1>6. CASE repos = {} /\ shardNum' = shardNum - 1 /\ UNCHANGED outgoing
  <2>1. NumShards = shardNum
    <3>1. ShardSize * shardNum = numRepos
      BY <1>3, <1>4, <1>6
    <3> QED
      BY <1>2, <3>1, NumShardsIs
  <2>2. Published' = Published
    BY <1>1, <1>6 DEF Published
  <2> QED
    BY <1>1, <1>2, <1>6, <2>1, <2>2 DEF ShardsAreCounted
<1> QED
  BY <1>5, <1>6 DEF Flush

\* The rest of the job publishes no message and renumbers none.
LEMMA LaterStepsCount ==
    ASSUME IInv, ShardsAreCounted, Published' \subseteq Published,
           UNCHANGED <<numRepos, next, repos, shardNum>>,
           pc' = pc \/ (pc = "closing" /\ pc' = "metadata")
               \/ pc' \notin {"reading", "closing", "metadata"}
    PROVE  ShardsAreCounted'
<1>1. NumShards' = NumShards
  BY DEF NumShards
<1> QED
  BY <1>1 DEF ShardsAreCounted

\* Every step keeps the count.
LEMMA NextShardsAreCounted == IInv /\ ShardsAreCounted /\ [Next]_vars => ShardsAreCounted'
<1> SUFFICES ASSUME IInv, ShardsAreCounted, [Next]_vars
             PROVE  ShardsAreCounted'
  OBVIOUS
<1>1. CASE ReadRepo
  BY <1>1, ReadRepoCounts
<1>2. CASE Flush
  BY <1>2, FlushCounts
<1>3. CASE Close \/ WriteMetadata \/ WriteRawMetadata \/ Panic \/ UNCHANGED vars
  <2>1. /\ Published' \subseteq Published
        /\ UNCHANGED <<numRepos, next, repos, shardNum>>
    BY <1>3 DEF Close, WriteMetadata, WriteRawMetadata, Panic, vars, Published
  <2>2. \/ pc' = pc
        \/ pc = "closing" /\ pc' = "metadata"
        \/ pc' \notin {"reading", "closing", "metadata"}
    BY <1>3 DEF Close, WriteMetadata, WriteRawMetadata, Panic, vars
  <2> QED
    BY <2>1, <2>2, LaterStepsCount
<1>4. CASE Sends
  <2>1. PICK m \in outgoing : SendOk(m) \/ SendError(m)
    BY <1>4 DEF Sends
  <2>2. Published' \subseteq Published /\ UNCHANGED <<numRepos, next, repos, shardNum, pc>>
    BY <2>1 DEF SendOk, SendError, Published
  <2> QED
    BY <2>2, LaterStepsCount
<1> QED
  BY <1>1, <1>2, <1>3, <1>4 DEF Next, Main

(***************************************************************************)
(* The controller implements its half of BatchJob.                         *)
(***************************************************************************)

\* A send of an unannounced job's shard is a step of BatchJob or hidden.
LEMMA SendsRefine ==
    ASSUME IInv, ShardsAreCounted, Sends
    PROVE  [Job!Next]_Job!vars
<1>1. PICK m \in outgoing : SendOk(m) \/ SendError(m)
  BY DEF Sends
<1>2. UNCHANGED <<numRepos, metadata>>
  BY <1>1 DEF SendOk, SendError
<1>3. CASE queue' = queue
  BY <1>2, <1>3 DEF Job!vars
<1>4. CASE queue' = queue \union {m}
  <2>1. {k.shard : k \in queue'} = {k.shard : k \in queue} \union {m.shard}
    BY <1>4, AddMessage
  <2>2. metadata = NotWritten
    BY DEF IInv, MetadataComesLast
  <2>3. m.shard \in 0 .. NumShards - 1
    <3>1. m \in Published /\ m.shard \in Nat
      BY DEF IInv, TypeOK, Message, Published
    <3>2. m.shard < NumShards /\ NumShards \in Nat
      BY <3>1, NumShardsIs DEF ShardsAreCounted, IInv, TypeOK
    <3> QED
      BY <3>1, <3>2
  <2>4. Job!Send(m.shard)
    BY <1>2, <2>1, <2>2 DEF Job!Send, Job!NotWritten, NotWritten
  <2> QED
    BY <2>3, <2>4 DEF Job!Next, Job!Shards, NumShards
<1> QED
  BY <1>1, <1>3, <1>4 DEF SendOk, SendError

\* The canonical metadata announces the job, whole and with its true size.
LEMMA WriteMetadataRefines ==
    ASSUME IInv, ShardsAreCounted, WriteMetadata
    PROVE  Job!Announce
<1>1. /\ pc = "metadata" /\ metadata' = shardNum + 1 /\ UNCHANGED <<numRepos, queue>>
      /\ metadata = NotWritten /\ outgoing = {} /\ totalErrors = 0
  BY DEF IInv, MetadataComesLast, WriteMetadata
<1>2. shardNum + 1 = NumShards /\ shardNum = NumShards - 1
  BY <1>1 DEF IInv, TypeOK, ShardsAreCounted
<1>3. {m.shard : m \in queue} = 0 .. NumShards - 1
  BY <1>1, <1>2 DEF IInv, NothingIsMissing, Published
<1> QED
  BY <1>1, <1>2, <1>3 DEF Job!Announce, Job!Shards, Job!NotWritten, NotWritten, NumShards

\* The controller implements its half of the batch job's contract, for every
\* inventory and shard size: NumShard in .shard_metadata is the number of shards
\* the inventory divides into, rounded up, and is written once all of them, and
\* no others, are on the queue (publishToRepoRequestTopic and main).
THEOREM ControllerImplementsBatchJob == Spec => ImplementsBatchJob
<1>1. Init => Job!Init
  <2> SUFFICES ASSUME Init
               PROVE  Job!Init
    OBVIOUS
  <2>1. NumShards \in Nat
    BY NumShardsIs, ControllerAssumption DEF Init
  <2>2. {m.shard : m \in queue} = {}
    BY DEF Init
  <2> QED
    BY <2>1, <2>2 DEF Init, Job!Init, Job!NotWritten, NotWritten, NumShards
<1>2. IInv /\ ShardsAreCounted /\ [Next]_vars => [Job!Next]_Job!vars
  <2> SUFFICES ASSUME IInv, ShardsAreCounted, [Next]_vars
               PROVE  [Job!Next]_Job!vars
    OBVIOUS
  <2>1. CASE ReadRepo \/ Flush \/ Close \/ WriteRawMetadata \/ Panic \/ UNCHANGED vars
    <3>1. UNCHANGED <<numRepos, queue, metadata>>
      BY <2>1 DEF ReadRepo, Flush, Close, WriteRawMetadata, Panic, vars
    <3> QED
      BY <3>1 DEF Job!vars
  <2>2. CASE Sends
    BY <2>2, SendsRefine
  <2>3. CASE WriteMetadata
    BY <2>3, WriteMetadataRefines DEF Job!Next
  <2> QED
    BY <2>1, <2>2, <2>3 DEF Next, Main
<1> QED
  BY <1>1, <1>2, InitShardsAreCounted, NextShardsAreCounted, InvariantHolds, PTL
     DEF Spec, ImplementsBatchJob, Job!Spec
=============================================================================
