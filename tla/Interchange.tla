------------------------------ MODULE Interchange ------------------------------
(***************************************************************************)
(* How one session becomes another: .mtrace documents                      *)
(* (crates/mcptracer-storage/src/mtrace.rs and export_mtrace_document),    *)
(* .vcr cassettes (vcr.rs) and merging (merge_sessions).                   *)
(*                                                                         *)
(* A message adds to the fields of SessionHealth                           *)
(*   object  whether the payload is a JSON object                          *)
(*   agrees  whether the stored columns are what the payload implies       *)
(*   call    what a client request asks for (method, tool and canonical    *)
(*           params), NoCall when it has no method or masked params        *)
(*   secret  whether the content lint finds something in the payload       *)
(* Compression, JSON text and the digest function are left out: a digest   *)
(* is the content it identifies.                                           *)
(***************************************************************************)
EXTENDS SessionHealth

CONSTANTS NoCall, MaxMessages    \* mtrace::MAX_MESSAGES

ExportOptions == [force_default_redaction : BOOLEAN, allow_unredacted : BOOLEAN]

\* A session without a policy leaves the machine only after an upgrade to the
\* default policy or with the user's word; "refused" is the error.
EffectivePolicy(policy, options) ==
    CASE options.force_default_redaction /\ options.allow_unredacted -> "refused"
      [] policy = "invalid"                                          -> "refused"
      [] policy # "none"                                             -> policy
      [] options.force_default_redaction                             -> "default"
      [] options.allow_unredacted                                    -> "none"
      [] OTHER                                                       -> "refused"

\* redact_with_context: what masking in a context leaves bare.  A payload
\* masked as a tools/list response keeps its schema keywords.
RedactMessage(m, context) ==
    [m EXCEPT !.bare = IF context = "Runtime" THEN {} ELSE @ \ {context}]

Redacted(messages, policy) ==
    [i \in DOMAIN messages |->
        IF policy = "none" THEN messages[i]
        ELSE RedactMessage(messages[i], ObserveContext(TrackerBefore(messages, i), messages[i]))]

ContextLost(messages, policy) ==
    policy # "none" /\ TrackerBefore(messages, Len(messages) + 1).lost

\* Every stored payload must be an object and the tracker must hold out.
Exportable(messages, policy) ==
    /\ policy # "refused"
    /\ \A i \in DOMAIN messages : messages[i].valid /\ messages[i].object
    /\ ~ContextLost(messages, policy)

\* The document carries the recording's loss marks with its messages.
MtraceDocument(summary, messages, policy) ==
    [ended |-> summary.ended, dropped |-> summary.dropped, policy |-> policy,
     transport |-> summary.transport, messages |-> Redacted(messages, policy)]

\* mtrace::validate
ValidDocument(doc) ==
    LET messages   == doc.messages
        context(i) == ObserveContext(TrackerBefore(messages, i), messages[i])
    IN  /\ Len(messages) <= MaxMessages
        /\ doc.policy # "invalid" /\ doc.dropped >= 0
        /\ \A i \in 2..Len(messages) : messages[i - 1].seq < messages[i].seq
        /\ \A i \in DOMAIN messages :
              /\ messages[i].dir \in Direction /\ messages[i].kind \in Kinds
              /\ messages[i].object /\ messages[i].agrees
              /\ doc.policy # "none" => context(i) \notin messages[i].bare
        /\ ~ContextLost(messages, doc.policy)

\* lint_sensitive_content: secrets no key name gives away.
LintFindings(doc) == {i \in DOMAIN doc.messages : doc.messages[i].secret}

\* build_validated_artifact: may this document be written to a file.
Publishable(doc, allowSensitive) == (LintFindings(doc) = {} \/ allowSensitive) /\ ValidDocument(doc)

\* canonical_digest leaves out the time and the author of the export.
CanonicalDigest(doc) == doc

-----------------------------------------------------------------------------
\* cassette_to_messages: a request and, when there is one, its response per
\* interaction; "invalid" requests without a method refuse the cassette.
InteractionMessages(interaction) ==
    IF interaction.answered THEN <<interaction.request, interaction.response>>
    ELSE <<interaction.request>>

CassetteAccepted(interactions) ==
    \A i \in DOMAIN interactions : interactions[i].request.method # "none"

Renumbered(messages) == [i \in DOMAIN messages |-> [messages[i] EXCEPT !.seq = i - 1]]

cassette_to_messages(interactions) ==
    Renumbered(FlattenSeq([i \in DOMAIN interactions |-> InteractionMessages(interactions[i])]))

-----------------------------------------------------------------------------
\* deduplicate_source_messages: what is removed of one source, given the calls
\* the sources before it made.  open maps the id of a client request to
\* whether that request was removed; a newer request with the id replaces it.
DedupStart(seen) == [seen |-> seen, removed |-> {}, open |-> <<>>]

DedupRequest(d, m) ==
    LET repeated == m.call # NoCall /\ m.call \in d.seen
    IN  [seen    |-> IF m.call = NoCall THEN d.seen ELSE d.seen \cup {m.call},
         removed |-> IF repeated THEN d.removed \cup {m.seq} ELSE d.removed,
         open    |-> IF m.id = NoId THEN d.open ELSE (m.id :> repeated) @@ d.open]

\* The response of a removed request stays.
DedupResponseKept(d, m) ==
    IF m.id = NoId \/ m.id \notin DOMAIN d.open THEN d
    ELSE [d EXCEPT !.open = Forget(@, m.id)]

DedupResponse(d, m) ==
    IF m.id = NoId \/ m.id \notin DOMAIN d.open THEN d
    ELSE [d EXCEPT !.removed = IF d.open[m.id] THEN @ \cup {m.seq} ELSE @,
                   !.open    = Forget(@, m.id)]

DedupStep(d, m) ==
    CASE m.dir = "c2s" /\ m.kind = "request"  -> DedupRequest(d, m)
      [] m.dir = "s2c" /\ m.kind = "response" -> DedupResponse(d, m)
      [] OTHER                                -> d

Without(messages, removed) ==
    FoldLeft(LAMBDA kept, m : IF m.seq \in removed THEN kept ELSE Append(kept, m), <<>>, messages)

deduplicate_source_messages(messages, seen) ==
    LET d == FoldLeft(DedupStep, DedupStart(seen), messages)
    IN  [messages |-> Without(messages, d.removed), seen |-> d.seen]

\* What deduplication leaves of each source in turn.
DeduplicatedSources(sources) ==
    LET next(acc, messages) ==
            LET source == deduplicate_source_messages(messages, acc.seen)
            IN  [kept |-> Append(acc.kept, source.messages), seen |-> source.seen]
    IN  FoldLeft(next, [kept |-> <<>>, seen |-> {}], sources).kept

\* The messages of all sources in the order given, numbered anew.
MergedMessages(sources, deduplicate) ==
    Renumbered(FlattenSeq(IF deduplicate THEN DeduplicatedSources(sources) ELSE sources))

\* Sources recorded differently do not mix.
Mergeable(summaries) ==
    /\ Len(summaries) >= 2
    /\ \A i \in DOMAIN summaries : /\ summaries[i].policy = summaries[1].policy
                                  /\ summaries[i].transport = summaries[1].transport

Total(counts) == FoldLeft(LAMBDA total, n : total + n, 0, counts)

\* A merged session is closed only if all of its sources were, and adds up
\* what they lost.
MergedSummary(summaries) ==
    [ended     |-> \A i \in DOMAIN summaries : summaries[i].ended,
     dropped   |-> Total([i \in DOMAIN summaries |-> summaries[i].dropped]),
     policy    |-> summaries[1].policy,
     transport |-> summaries[1].transport]
=============================================================================
