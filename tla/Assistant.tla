----------------------------- MODULE Assistant -----------------------------
(***************************************************************************)
(* The assistant's conversation and its tools, and the drafting request,   *)
(* on a branch people edit meanwhile (server/internal/api/speccy.go,       *)
(* speccytools.go; ai/tools.go StreamTools, ai/client.go).                 *)
(*                                                                         *)
(* A document is the set of the edits in it, so that replacing a unique    *)
(* text adds the model's edit to the rest, and saving what was read before *)
(* somebody's edit would drop theirs.  A message is its role and, for the  *)
(* tool calls, how many there are: a provider that leaves the ids out gets *)
(* the ids 1..n in each reply.  Prompts, arguments and results are left    *)
(* out; so are the references a move rewrites (module Moves).              *)
(***************************************************************************)
EXTENDS Integers, Sequences, FiniteSets, SequencesExt

CONSTANTS
    Document,        \* documents' paths
    Sketch,     \* sketches' paths
    Absent,     \* no file
    ToolRounds, \* maxToolRounds: turns that may read
    ActRounds,  \* maxActRounds: turns that may only act
    ToolBudget, \* tool results a conversation may take in
    Attempts,   \* posts of one request to the provider
    MaxBatch,   \* bound: calls in one reply
    MaxSaves,   \* bound: edits by people
    MaxChats    \* bound: requests

ASSUME AssistantAssumption ==
    /\ Document \cap Sketch = {}
    /\ ToolRounds \in Nat /\ ActRounds \in Nat /\ ToolBudget \in Nat
    /\ Attempts \in Nat \ {0}
    /\ MaxBatch \in Nat /\ MaxSaves \in Nat /\ MaxChats \in Nat

VARIABLES
    worktree,   \* [path -> edits in it, or Absent]: the branch's worktree
    chat,    \* POST speccy/chat: where it is, and StreamTools's locals
    draft,   \* POST speccy/draft: where it is, and its locals
    resume,  \* what the client got with the last question, and which call asked
    edited,  \* edits by people so far
    chats    \* requests so far

assistant == <<worktree, chat, draft, resume, edited, chats>>

PathOf == Document \cup Sketch

Model == 0    \* the model's edit; people's are 1, 2, ...

Present(p) == worktree[p] # Absent

(* ---------------------------------------------------------- the messages *)

Asks(n)    == [role |-> "assistant", calls |-> n]
Answers(i) == [role |-> "tool", call |-> i]
Note       == [role |-> "user"]

NoQuestion == [msgs |-> <<>>, call |-> 0]

NoWrite == [path |-> Absent, base |-> Absent, next |-> Absent]

Idle == [pc |-> "idle", writable |-> FALSE, listed |-> {}, conv |-> <<>>, sent |-> 0,
         round |-> 0, offer |-> "none", used |-> 0, acts |-> 0, calls |-> 0, at |-> 0,
         pending |-> 0,
         tries |-> 0, forced |-> FALSE, write |-> NoWrite]

NoDraft == [pc |-> "idle", allowed |-> {}, left |-> 0, write |-> NoWrite]

AssistantInit ==
    /\ worktree = [p \in PathOf |-> {}]
    /\ chat = Idle
    /\ draft = NoDraft
    /\ resume = NoQuestion
    /\ edited = 0
    /\ chats = 0

(* ------------------------------------------------------------- the worktree *)

\* Mutant: the file is written whatever it holds by now.
CurrentOrNot(w) == TRUE

\* SaveFile: the file is still what was read; a new file is still none.
StillCurrent(w) == worktree[w.path] = w.base

Write(p, next) == [path |-> p, base |-> worktree[p], next |-> next]

WriteFile(w) == worktree' = [worktree EXCEPT ![w.path] = w.next]

(* ---------------------------------------------------- StreamTools, rounds *)

\* The request begins: a new message, or the answer to the question the
\* client holds, with the transcript it got along with it.
StartChat(answers, writable) ==
    /\ chat.pc = "idle" /\ chats < MaxChats
    /\ answers => resume.call # 0
    /\ LET sent == IF answers THEN Append(resume.msgs, Answers(resume.call)) ELSE <<>>
       IN chat' = [Idle EXCEPT !.pc = "turn", !.writable = writable, !.conv = sent,
                               !.sent = Len(sent),
                               !.listed = {p \in PathOf : Present(p)}]
    /\ resume' = IF answers THEN NoQuestion ELSE resume
    /\ chats' = chats + 1
    /\ UNCHANGED <<worktree, draft, edited>>

Offer ==
    IF chat.round < ToolRounds /\ chat.used < ToolBudget THEN "all"
    ELSE IF chat.acts < ActRounds THEN "acting" ELSE "none"

NextTurn ==
    /\ chat.pc = "turn"
    /\ chat' = [chat EXCEPT
            !.pc = "post", !.offer = Offer, !.tries = 0, !.forced = FALSE,
            !.acts = IF Offer = "acting" THEN @ + 1 ELSE @,
            !.conv = IF Offer = "acting" /\ chat.acts = 0 THEN Append(@, Note) ELSE @]
    /\ UNCHANGED <<worktree, draft, resume, edited, chats>>

\* What post makes of an attempt that gave no reply: the connection failed or the
\* provider was busy, it dislikes the reasoning effort, or it refuses.
Failure == {"busy", "effort", "refused"}

Retryable(f) == f = "busy"

\* A transient failure is posted again; a complaint about reasoning_effort is
\* posted again once with it forced, with attempts of its own.
PostAgain ==
    /\ chat.pc = "post"
    /\ \E f \in Failure :
           \/ /\ Retryable(f) /\ chat.tries + 1 < Attempts
              /\ chat' = [chat EXCEPT !.tries = @ + 1]
           \/ /\ f = "effort" /\ ~chat.forced
              /\ chat' = [chat EXCEPT !.forced = TRUE, !.tries = 0]
    /\ UNCHANGED <<worktree, draft, resume, edited, chats>>

\* The model answers in text; or it answers nothing, the stream breaks off or
\* the client is gone, and the request fails.
EndChat ==
    /\ chat.pc = "post"
    /\ chat' = Idle
    /\ UNCHANGED <<worktree, draft, resume, edited, chats>>

\* The model calls tools: it was offered some.
ReplyCalls ==
    /\ chat.pc = "post" /\ chat.offer # "none"
    /\ \E n \in 1..MaxBatch :
           chat' = [chat EXCEPT !.pc = "calls", !.calls = n, !.at = 1,
                                !.conv = Append(@, Asks(n))]
    /\ UNCHANGED <<worktree, draft, resume, edited, chats>>

\* Mutant: the calls after a question are left without an answer.
SkipSilently(c) == [c EXCEPT !.at = @ + 1]

\* "not executed": a question interrupted the batch.
Skip(c) == [c EXCEPT !.conv = Append(@, Answers(c.at)), !.at = @ + 1]

\* The tool's result, or its error, goes back to the model.
Answered(c) ==
    [c EXCEPT !.pc = "calls", !.conv = Append(@, Answers(c.at)), !.at = @ + 1,
              !.used = IF @ < ToolBudget THEN @ + 1 ELSE @, !.write = NoWrite]

\* The batch is done: the next round, or the question to the user with every
\* message this request added.
EndBatch ==
    /\ chat.pc = "calls" /\ chat.at > chat.calls
    /\ IF chat.pending = 0
       THEN /\ chat' = [chat EXCEPT !.pc = "turn", !.round = @ + 1, !.calls = 0, !.at = 0]
            /\ resume' = resume
       ELSE /\ resume' = [msgs |-> SubSeq(chat.conv, chat.sent + 1, Len(chat.conv)),
                          call |-> chat.pending]
            /\ chat' = Idle
    /\ UNCHANGED <<worktree, draft, edited, chats>>

SkipCall ==
    /\ chat.pc = "calls" /\ chat.at <= chat.calls /\ chat.pending # 0
    /\ chat' = Skip(chat)
    /\ UNCHANGED <<worktree, draft, resume, edited, chats>>

(* -------------------------------------------------------------- the tools *)

Runs == chat.pc = "calls" /\ chat.at <= chat.calls /\ chat.pending = 0

\* read_file, list_files, search, history and timeline; and any tool called
\* with arguments it refuses, or to write where writing is not allowed.
ReadOrRefuse ==
    /\ Runs
    /\ chat' = Answered(chat)
    /\ UNCHANGED <<worktree, draft, resume, edited, chats>>

AskUser ==
    /\ Runs
    /\ chat' = [chat EXCEPT !.pending = chat.at, !.at = @ + 1]
    /\ UNCHANGED <<worktree, draft, resume, edited, chats>>

ReadFirst(w) ==
    /\ Runs /\ chat.writable
    /\ chat' = [chat EXCEPT !.pc = "save", !.write = w]
    /\ UNCHANGED <<worktree, draft, resume, edited, chats>>

\* The model's edit is refused as already applied when the file has it.
EditFile   == \E d \in Document : /\ Present(d) /\ Model \notin worktree[d]
                             /\ ReadFirst(Write(d, worktree[d] \cup {Model}))
CreateFile == \E d \in Document : ~Present(d) /\ ReadFirst(Write(d, {Model}))
\* The scene replaces whatever the sketch holds.
DrawSketch == \E s \in Sketch : ReadFirst(Write(s, {Model}))

\* What the tool read is saved, or refused as stale.
SaveWrite ==
    /\ chat.pc = "save"
    /\ LET w == chat.write IN
       IF StillCurrent(w)
       THEN /\ WriteFile(w)
            /\ chat' = [Answered(chat) EXCEPT
                    !.listed = IF w.path \in Sketch THEN @ \cup {w.path} ELSE @]
       ELSE worktree' = worktree /\ chat' = Answered(chat)
    /\ UNCHANGED <<draft, resume, edited, chats>>

\* MoveFileRewriting: when rewriting a reference fails after the move, the
\* tool reports an error and the listing keeps the old path.
MoveFile ==
    /\ Runs /\ chat.writable
    /\ \E from, to \in PathOf, rewrote \in BOOLEAN :
        /\ Present(from) /\ ~Present(to)
        /\ worktree' = [worktree EXCEPT ![to] = worktree[from], ![from] = Absent]
        /\ chat' = [Answered(chat) EXCEPT
                !.listed = IF rewrote /\ from \in @ THEN (@ \ {from}) \cup {to} ELSE @]
    /\ UNCHANGED <<draft, resume, edited, chats>>

DeleteFile ==
    /\ Runs /\ chat.writable
    /\ \E p \in PathOf :
        /\ Present(p)
        /\ worktree' = [worktree EXCEPT ![p] = Absent]
        /\ chat' = [Answered(chat) EXCEPT !.listed = @ \ {p}]
    /\ UNCHANGED <<draft, resume, edited, chats>>

(* ------------------------------------------------------ POST speccy/draft *)

\* Only the documents there when the request came may be edited; a request the
\* model has no n edits for changes nothing.
StartDraft ==
    /\ draft.pc = "idle" /\ chats < MaxChats
    /\ \E asked \in SUBSET Document, n \in 1..MaxBatch :
        /\ \E d \in asked : Present(d)
        /\ draft' = [NoDraft EXCEPT !.pc = "read", !.left = n,
                                    !.allowed = {d \in asked : Present(d)}]
    /\ chats' = chats + 1
    /\ UNCHANGED <<worktree, chat, resume, edited>>

NextEdit(d) ==
    IF d.left = 1 THEN NoDraft ELSE [d EXCEPT !.pc = "read", !.left = @ - 1, !.write = NoWrite]

\* applyEdit, on the file as it is now; what is not there cannot be edited,
\* and what is applied already is not applied twice.
ApplyEdit ==
    /\ draft.pc = "read"
    /\ \E d \in draft.allowed :
        IF Present(d) /\ Model \notin worktree[d]
        THEN draft' = [draft EXCEPT !.pc = "save", !.write = Write(d, worktree[d] \cup {Model})]
        ELSE draft' = NextEdit(draft)
    /\ UNCHANGED <<worktree, chat, resume, edited, chats>>

SaveEdit ==
    /\ draft.pc = "save"
    /\ IF StillCurrent(draft.write) THEN WriteFile(draft.write) ELSE worktree' = worktree
    /\ draft' = NextEdit(draft)
    /\ UNCHANGED <<chat, resume, edited, chats>>

(* ------------------------------------------------------------------ people *)

\* Somebody saves an edit of theirs, or a new file.
PersonEdits ==
    /\ edited < MaxSaves
    /\ \E p \in PathOf :
        worktree' = [worktree EXCEPT ![p] = (IF @ = Absent THEN {} ELSE @) \cup {edited + 1}]
    /\ edited' = edited + 1
    /\ UNCHANGED <<chat, draft, resume, chats>>

AssistantNext ==
    \/ \E answers, writable \in BOOLEAN : StartChat(answers, writable)
    \/ NextTurn \/ PostAgain \/ EndChat \/ ReplyCalls \/ EndBatch \/ SkipCall
    \/ ReadOrRefuse \/ AskUser \/ EditFile \/ CreateFile \/ DrawSketch \/ SaveWrite
    \/ MoveFile \/ DeleteFile
    \/ StartDraft \/ ApplyEdit \/ SaveEdit
    \/ PersonEdits

AssistantSpec == AssistantInit /\ [][AssistantNext]_assistant

(* -------------------------------------------------------------- properties *)

AssistantTypeOK ==
    /\ \A p \in PathOf : Present(p) => worktree[p] \subseteq 0..MaxSaves
    /\ chat.round \in 0..(ToolRounds + ActRounds) /\ chat.acts \in 0..ActRounds
    /\ chat.tries \in 0..(Attempts - 1)
    /\ chat.listed \subseteq PathOf
    /\ draft.allowed \subseteq Document

\* What goes to the provider is well-formed: the messages after each reply
\* with n calls answer these n calls, each once, also in a transcript that
\* was interrupted by a question and came back with the user's answer.
TranscriptAnswered ==
    chat.pc = "post" =>
        \A i \in DOMAIN chat.conv : chat.conv[i].role = "assistant" =>
            LET n == chat.conv[i].calls IN
            /\ i + n <= Len(chat.conv)
            /\ \A j \in (i + 1)..(i + n) : chat.conv[j].role = "tool"
            /\ {chat.conv[j].call : j \in (i + 1)..(i + n)} = 1..n

\* Types, and an answer to every tool call before the next request.
AssistantInv == AssistantTypeOK /\ TranscriptAnswered

\* A tool or the drafting request never drops an edit from a document it
\* writes, though it read the document before somebody saved it.
EditsKept ==
    [][\A d \in Document : Present(d) /\ worktree'[d] # Absent /\ worktree[d] # worktree'[d]
            => worktree[d] \subseteq worktree'[d]]_assistant
=============================================================================
