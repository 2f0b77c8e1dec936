--------------------------------- MODULE Files ---------------------------------
(***************************************************************************)
(* The files destination: a pipeline's directory of numbered manifests and *)
(* staged files, the sessions that open, stage, commit and discard in it,  *)
(* several at a time where an older one has not ended, and the faults      *)
(* between two of their steps: a call that fails, a process that dies, a   *)
(* power loss that takes back the names no sync made durable.              *)
(*                                                                         *)
(* One table stands for all: a commit adds its files to the manifest's     *)
(* list or rewrites the list into one file of its own, as compacting,      *)
(* merging and swapping a generation in do.  The catalogs of tables are    *)
(* left out.                                                               *)
(***************************************************************************)
EXTENDS Landed, FiniteSets

CONSTANTS
  Sessions,   \* who opens the pipeline: the engine's runs and their attempts
  Modes,      \* which of "overlap", "alone" and "both" are explored
  Kept,       \* the versions kept behind the newest
  MaxEpochs,  \* bound: sessions opened
  MaxParts,   \* bound: files a session writes
  MaxSeq,     \* bound: commits of a session
  MaxFaults   \* bound: calls that fail and power losses

ASSUME FilesAssumption ==
  /\ Modes \subseteq {"overlap", "alone", "both"}
  /\ {Kept, MaxEpochs, MaxParts, MaxSeq, MaxFaults} \subseteq Nat

VARIABLES
  manifests,  \* the manifests in the directory, one of a version
  durable,    \* the versions whose names a sync made durable
  files,      \* the staged and written files there are, each durable
  sess,       \* the sessions
  answered,   \* history: the segments of the commits answered
  faults,
  mode        \* sessions overlap, or power is lost, or both

vars == <<manifests, durable, files, sess, answered, faults, mode>>

-----------------------------------------------------------------------------
(* The directory. *)

\* A staged file holds its own segment; one a commit made, those of the files it
\* rewrote.
File(e, n, made, holds) == [epoch |-> e, n |-> n, made |-> made, holds |-> holds]

NoManifest == [version |-> 0, epoch |-> 0, landed |-> NoKey, files |-> {}]

Versions == {m.version : m \in manifests}

Newest(ms) == CHOOSE m \in ms : \A o \in ms : o.version <= m.version

Latest == IF manifests = {} THEN NoManifest ELSE Newest(manifests)

Fence == [epoch |-> Latest.epoch, landed |-> Latest.landed]

\* What goes of a set of files: those the latest manifest does not list.
Unlisted(fs) == fs \ Latest.files

-----------------------------------------------------------------------------
(* A session. *)

NoMeta == [key |-> NoKey, after |-> NoKey, segments |-> {}, abandoned |-> {}]

Closed ==
  [pc |-> "closed", epoch |-> 0, after |-> NoKey, seq |-> 0, parts |-> 0, staged |-> {},
   meta |-> NoMeta, next |-> NoManifest, created |-> {}, held |-> {}]

At(s, pc) == sess[s].pc = pc

Opens(s) == sess[s].epoch = 0

Goes(s, pc) == sess' = [sess EXCEPT ![s].pc = pc]

Closes(s) == sess' = [sess EXCEPT ![s] = Closed]

\* Opening reads the latest manifest, to create the next with the next epoch.
OpenRead(s) ==
  /\ At(s, "closed") /\ Latest.epoch < MaxEpochs
  /\ mode = "alone" => \A t \in Sessions : At(t, "closed")
  /\ sess' = [sess EXCEPT ![s] =
       [Closed EXCEPT !.pc = "put",
          !.next = [Latest EXCEPT !.version = @ + 1, !.epoch = @ + 1]]]
  /\ UNCHANGED <<manifests, durable, files, answered, faults, mode>>

\* A writer's flush stages a file of its segment.
Stage(s) ==
  LET c == sess[s]
      n == c.parts + 1
      f == File(c.epoch, n, FALSE, {<<c.epoch, n>>})
  IN
  /\ At(s, "ready") /\ c.staged = {} /\ c.parts < MaxParts
  /\ files' = files \cup {f}
  /\ sess' = [sess EXCEPT ![s].parts = n, ![s].staged = {f}]
  /\ UNCHANGED <<manifests, durable, answered, faults, mode>>

\* The engine commits what the session staged, or says its segments are abandoned.
Commit(s) ==
  LET c == sess[s] IN
  /\ At(s, "ready") /\ c.seq < MaxSeq
  /\ \E segments \in {{}, c.staged} :
       sess' = [sess EXCEPT ![s].pc = "commit", ![s].seq = @ + 1,
         ![s].meta = [key |-> [epoch |-> c.epoch, seq |-> c.seq + 1], after |-> c.after,
                      segments |-> segments, abandoned |-> c.staged \ segments]]
  /\ UNCHANGED <<manifests, durable, files, answered, faults, mode>>

\* A commit whose answer was an error is sent again.
Resend(s) ==
  /\ At(s, "failed") /\ Goes(s, "commit")
  /\ UNCHANGED <<manifests, durable, files, answered, faults, mode>>

\* An appended table's files at the end of its list may be compacted, those the commit
\* adds among them.
Compact(listed, segments) ==
  {run \in SUBSET listed : segments \subseteq run /\ Cardinality(run) > 1}

\* A merge table's commit rewrites all it lists.
MergedRows(listed) == {listed}

\* The files a commit rewrites into one more, of those listed with its own; none where
\* it adds none.
PublishTable(listed, segments) ==
  IF segments = {} THEN {{}} ELSE {{}} \cup Compact(listed, segments) \cup MergedRows(listed)

\* The latest manifest decides: the commit landed before, it is refused and its
\* session over, or it is applied in the next manifest.
DecideCommit(s) ==
  LET c == sess[s]
      answer == Decide(Fence, c.epoch, c.meta)
      listed == Latest.files \cup c.meta.segments
      into(run) == IF run = {} THEN {}
                   ELSE {File(c.epoch, c.parts + 1, TRUE, UNION {f.holds : f \in run})}
  IN
  /\ At(s, "commit")
  /\ \/ /\ answer = "apply"
        /\ \E run \in PublishTable(listed, c.meta.segments) :
             /\ files' = files \cup into(run)
             /\ sess' = [sess EXCEPT ![s] =
                  [@ EXCEPT !.pc = "put", !.created = into(run),
                     !.parts = @ + Cardinality(into(run)), !.held = listed,
                     !.next = [version |-> Latest.version + 1, epoch |-> Latest.epoch,
                               landed |-> c.meta.key, files |-> (listed \ run) \cup into(run)]]]
     \/ /\ answer = "landed" /\ UNCHANGED files
        /\ sess' = [sess EXCEPT ![s].pc = "landed", ![s].held = c.meta.segments]
     \/ answer \in {"fenced", "stale"} /\ Closes(s) /\ UNCHANGED files
  /\ UNCHANGED <<manifests, durable, answered, faults, mode>>

-----------------------------------------------------------------------------
(* Creating a manifest, for an open or a commit. *)

\* Another session was first: an open reads again, a commit is fenced, and what it
\* wrote goes.
Lost(s) ==
  /\ files' = files \ Unlisted(sess[s].created)
  /\ Closes(s)

\* The manifest is linked as its version, unless that exists.
Link(s) ==
  LET next == sess[s].next IN
  /\ At(s, "put")
  /\ \/ next.version \in Versions /\ Lost(s) /\ UNCHANGED manifests
     \/ /\ next.version \notin Versions
        /\ manifests' = manifests \cup {next}
        /\ Goes(s, "linked") /\ UNCHANGED files
  /\ UNCHANGED <<durable, answered, faults, mode>>

\* Syncing the directory makes every name in it durable.
Sync(s) ==
  /\ At(s, "linked") /\ Goes(s, "synced")
  /\ durable' = Versions
  /\ UNCHANGED <<manifests, files, answered, faults, mode>>

\* Mutation: a version older than the newest stands.
PassedNever(v) == FALSE

\* A newer version exists: the writer read a manifest others have moved past.
Passed(v) == \E w \in Versions : w > v

\* A version passed by is removed and has lost; otherwise those older than the ones
\* kept go.  An open then has its session; a commit's manifest is durable.
CheckNewest(s) ==
  LET v == sess[s].next.version
      keep(ms) == manifests' = ms /\ durable' = durable \cap {m.version : m \in ms}
  IN
  /\ At(s, "synced")
  /\ \/ Passed(v) /\ Lost(s) /\ keep({m \in manifests : m.version # v})
     \/ /\ ~Passed(v) /\ keep({m \in manifests : m.version + Kept >= v})
        /\ UNCHANGED files
        /\ sess' = [sess EXCEPT ![s] =
             IF Opens(s)
             THEN [Closed EXCEPT !.pc = "settling", !.epoch = sess[s].next.epoch,
                                 !.after = sess[s].next.landed]
             ELSE [@ EXCEPT !.pc = "pruning"]]
  /\ UNCHANGED <<answered, faults, mode>>

\* A step of a put or a settle fails: an open fails, and so does an attempt whose
\* discard did; a commit removes what it wrote that no manifest lists, and may be
\* sent again.
Fail(s) ==
  /\ sess[s].pc \in {"put", "linked", "synced", "landed", "settling"}
  /\ faults < MaxFaults /\ faults' = faults + 1
  /\ files' = files \ Unlisted(sess[s].created)
  /\ IF Opens(s) \/ At(s, "settling") THEN Closes(s)
     ELSE sess' = [sess EXCEPT ![s] =
            [@ EXCEPT !.pc = "failed", !.next = NoManifest, !.created = {}, !.held = {}]]
  /\ UNCHANGED <<manifests, durable, answered, mode>>

-----------------------------------------------------------------------------
(* Removing what no manifest lists. *)

\* The commit is answered, and its segments are the session's no longer.
Receipt(s) ==
  /\ answered' = answered \cup UNION {f.holds : f \in sess[s].meta.segments}
  /\ sess' = [sess EXCEPT ![s] =
       [@ EXCEPT !.pc = "ready", !.after = sess[s].meta.key, !.staged = {}, !.meta = NoMeta,
                 !.next = NoManifest, !.created = {}, !.held = {}]]

\* What the commit held goes where the latest manifest does not list it.
Prune(s) ==
  /\ At(s, "pruning")
  /\ files' = files \ Unlisted(sess[s].held \cup sess[s].meta.abandoned)
  /\ Receipt(s)
  /\ UNCHANGED <<manifests, durable, faults, mode>>

\* Mutation: a commit found landed is answered with no sync.
SettleOpensOnly(s) ==
  /\ sess[s].pc \in {"landed", "settling"}
  /\ durable' = IF At(s, "landed") THEN durable ELSE Versions
  /\ Goes(s, IF At(s, "landed") THEN "settled" ELSE "discarding")
  /\ UNCHANGED <<manifests, files, answered, faults, mode>>

\* The latest manifest's name is made durable before anything is removed by it.
Settle(s) ==
  /\ sess[s].pc \in {"landed", "settling"}
  /\ durable' = Versions
  /\ Goes(s, IF At(s, "landed") THEN "settled" ELSE "discarding")
  /\ UNCHANGED <<manifests, files, answered, faults, mode>>

Older(e) == {f \in files : f.epoch < e}

\* What older sessions staged goes.
Discard(s) ==
  /\ At(s, "discarding") /\ Goes(s, "ready")
  /\ files' = files \ Unlisted(Older(sess[s].epoch))
  /\ UNCHANGED <<manifests, durable, answered, faults, mode>>

\* Mutation: what a commit answered again superseded stays.
SupersededNone(e) == {}

\* What older sessions staged and commits of this one made.
Superseded(e) == Older(e) \cup {f \in files : f.epoch = e /\ f.made}

\* A commit that landed before: what it superseded goes, as its segments' files do.
DiscardSuperseded(s) ==
  LET c == sess[s] IN
  /\ At(s, "settled")
  /\ files' = files \ Unlisted(Superseded(c.epoch) \cup c.held \cup c.meta.abandoned)
  /\ Receipt(s)
  /\ UNCHANGED <<manifests, durable, faults, mode>>

-----------------------------------------------------------------------------
\* The session is closed, or its process dies.
End(s) ==
  /\ ~At(s, "closed") /\ Closes(s)
  /\ UNCHANGED <<manifests, durable, files, answered, faults, mode>>

\* Power is lost: every process dies, and each name no sync made durable may be gone.
PowerLoss ==
  /\ mode # "overlap" /\ faults < MaxFaults /\ faults' = faults + 1
  /\ \E gone \in SUBSET {m \in manifests : m.version \notin durable} :
       /\ manifests' = manifests \ gone
       /\ durable' = {m.version : m \in manifests'}
  /\ sess' = [s \in Sessions |-> Closed]
  /\ UNCHANGED <<files, answered, mode>>

Init ==
  /\ manifests = {} /\ durable = {} /\ files = {} /\ answered = {} /\ faults = 0
  /\ sess = [s \in Sessions |-> Closed]
  /\ mode \in Modes

Next ==
  \/ \E s \in Sessions :
       \/ OpenRead(s) \/ Stage(s) \/ Commit(s) \/ Resend(s) \/ DecideCommit(s)
       \/ Link(s) \/ Sync(s) \/ CheckNewest(s) \/ Fail(s)
       \/ Prune(s) \/ Settle(s) \/ Discard(s) \/ DiscardSuperseded(s) \/ End(s)
  \/ PowerLoss

Spec == Init /\ [][Next]_vars

-----------------------------------------------------------------------------
\* A reader finds what the latest manifest lists: whoever removes files, late or
\* after a failure, removes none that the manifest read next still lists, also
\* where a power loss took a manifest back.
ReadersFindFiles == Latest.files \subseteq files

\* A commit answered stays, once: the latest manifest lists its rows in exactly one
\* file, whatever sessions overlapped, however often it was sent, and after a power
\* loss.
AnsweredStays ==
  /\ answered \subseteq UNION {f.holds : f \in Latest.files}
  /\ \A f, g \in Latest.files : f # g => f.holds \cap g.holds = {}

\* Nothing piles up: where no other session is about, a session between its commits
\* leaves nothing but what is listed and what it staged itself.
LeftoversGo ==
  mode = "alone" => \A s \in Sessions : At(s, "ready") =>
    \A f \in Unlisted(files) : f.epoch = sess[s].epoch /\ ~f.made

\* A manifest a power loss could take back decides nothing about the files of the
\* manifest before it: once every session has ended, one way or another, the manifest
\* then the latest has all its files.
TakenBackDecidesNothing == (\A s \in Sessions : At(s, "closed")) => Latest.files \subseteq files

=============================================================================
