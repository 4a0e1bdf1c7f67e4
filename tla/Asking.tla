------------------------------- MODULE Asking -------------------------------
(***************************************************************************)
(* POST /ask, POST /ask/stream and POST /search, behind the rate limiter,  *)
(* and the conversations and messages tables they keep.                    *)
(*                                                                         *)
(* A request is a one-shot process.  Each transaction, each call of the    *)
(* embedder, of Qdrant and of the language model is a step, and so is each *)
(* statement of the transaction that stores a turn.  A client may go away  *)
(* between any two steps: the handler, or the generator of the stream, is  *)
(* dropped where it awaits, and an open transaction rolls back.            *)
(*                                                                         *)
(* Simplifications.                                                        *)
(*  - A message is its turn (the request), its role and its seq; what it   *)
(*    says, the passages and their scores are left out.                    *)
(*  - An answer is the number of tokens it has, up to MaxTokens: the next  *)
(*    ones change nothing.                                                 *)
(*  - The redaction of answers is part of DocumentLifecycle.               *)
(***************************************************************************)
EXTENDS RateLimiter

CONSTANTS
    Kind,           \* Kind[r]: "stream" for /ask/stream, "plain" for /ask and /search
    Conversations,  \* conversation ids
    None,           \* no conversation
    HistoryLimit,   \* HISTORY_LIMIT
    MaxTokens       \* bounds the length of an answer that matters

ASSUME AskingAssumption ==
    /\ Kind \in [Requests -> {"plain", "stream"}]
    /\ None \notin Conversations
    /\ \A r, s \in Served : r = s
    /\ HistoryLimit \in Nat \ {0}
    /\ MaxTokens \in Nat \ {0}

VARIABLES
    conversations,  \* the rows of conversations
    messages,       \* the committed rows of messages
    seq,            \* messages_seq_seq: the last value drawn
    stage,          \* stage[r]: where request r stands
    conversation,   \* conversation[r]: the conversation r asks in
    history,        \* history[r]: the messages r has read
    said,           \* said[r]: the tokens of r's answer
    open,           \* open[r]: the rows written by r's open transaction
    late,           \* late[r]: STREAM_DEADLINE is over
    told,           \* told[r]: "ok", "found", an HTTP "error", an error frame ("broken"),
                    \* "gone", or "" as long as nothing is
    lost,           \* lost[r]: storing the turn failed
    before          \* before[r]: the requests that had ended when r arrived

askingVars == <<conversations, messages, seq, stage, conversation, history, said,
                open, late, told, lost, before>>
vars == <<limiterVars, askingVars>>

Roles  == {"user", "assistant"}
Row    == [turn : Requests, role : Roles, seq : Nat]
Stages == {"idle", "ensured", "read", "rewritten", "answering", "streaming",
           "appending", "closing", "ended"}

TypeOK ==
    /\ LimiterTypeOK
    /\ conversations \subseteq Conversations
    /\ messages \subseteq Row
    /\ seq \in Nat
    /\ stage \in [Requests -> Stages]
    /\ conversation \in [Requests -> Conversations \cup {None}]
    /\ history \in [Requests -> SUBSET Row]
    /\ said \in [Requests -> 0 .. MaxTokens]
    /\ open \in [Requests -> SUBSET Row]
    /\ late \in [Requests -> BOOLEAN]
    /\ told \in [Requests -> {"", "ok", "found", "error", "broken", "gone"}]
    /\ lost \in [Requests -> BOOLEAN]
    /\ before \in [Requests -> SUBSET Requests]

Message(r, role, n) == [turn |-> r, role |-> role, seq |-> n]

\* The conversation may have begun: a served request has stored its turn.
Init ==
    /\ LimiterInit
    /\ conversations \in SUBSET Conversations
    /\ messages = UNION {{Message(r, "user", 1), Message(r, "assistant", 2)} : r \in Served}
    /\ seq = 2
    /\ stage = [r \in Requests |-> IF r \in Served THEN "ended" ELSE "idle"]
    /\ \E c \in Conversations :
          /\ conversation = [r \in Requests |-> IF r \in Served THEN c ELSE None]
          /\ Served # {} => c \in conversations
    /\ history = [r \in Requests |-> {}]
    /\ said = [r \in Requests |-> IF r \in Served THEN 1 ELSE 0]
    /\ open = [r \in Requests |-> {}]
    /\ late = [r \in Requests |-> FALSE]
    /\ told = [r \in Requests |-> IF r \in Served THEN "ok" ELSE ""]
    /\ lost = [r \in Requests |-> FALSE]
    /\ before = [r \in Requests |-> {}]

Ended(r) == stage[r] = "ended" \/ gate[r] \in {"refused", "failed"}

-----------------------------------------------------------------------------
\* The way in: checked_limit answers 422 before anything is counted, and the
\* limiter runs before anything is read.

Arrive(r) ==
    /\ stage[r] = "idle"
    /\ ReadClock(r)
    /\ before' = [before EXCEPT ![r] = {s \in Requests : Ended(s)}]
    /\ UNCHANGED <<conversations, messages, seq, stage, conversation, history, said,
                   open, late, told, lost>>

BadLimit(r) ==
    /\ stage[r] = "idle" /\ gate[r] = "new"
    /\ stage' = [stage EXCEPT ![r] = "ended"]
    /\ told' = [told EXCEPT ![r] = "error"]
    /\ UNCHANGED <<limiterVars, conversations, messages, seq, conversation, history, said,
                   open, late, lost, before>>

Limiter ==
    /\ Tick \/ \E r \in Requests : Incr(r) \/ Expire(r) \/ CommandFails(r)
    /\ UNCHANGED askingVars

\* Request r goes from one stage to another and touches no table.
Moves(r, from, to) ==
    /\ stage[r] = from
    /\ stage' = [stage EXCEPT ![r] = to]
    /\ UNCHANGED <<limiterVars, conversations, messages, seq, conversation, open, lost>>

Goes(r, from, to) == Moves(r, from, to) /\ UNCHANGED <<history, before>>

\* What the handler has read goes with it.
Forgets(r) ==
    /\ history' = [history EXCEPT ![r] = {}]
    /\ before' = [before EXCEPT ![r] = {}]

Ends(r, from, what) ==
    /\ Moves(r, from, "ended")
    /\ Forgets(r)
    /\ told' = [told EXCEPT ![r] = what]
    /\ UNCHANGED <<said, late>>

\* search reads the vectors and ends, with what it found or an error.
Search(r) ==
    /\ Kind[r] = "plain" /\ gate[r] = "admitted"
    /\ \E what \in {"found", "error"} : Ends(r, "idle", what)

-----------------------------------------------------------------------------
\* prepare: ensure the conversation, read its history, rewrite the question.

EnsureNew(r) ==
    /\ gate[r] = "admitted" /\ stage[r] = "idle"
    /\ stage' = [stage EXCEPT ![r] = "ensured"]
    /\ \E c \in Conversations \ conversations :
          /\ conversations' = conversations \cup {c}
          /\ conversation' = [conversation EXCEPT ![r] = c]
    /\ UNCHANGED <<limiterVars, messages, seq, history, said, open, late, told, lost, before>>

EnsureFound(r) ==
    /\ gate[r] = "admitted" /\ stage[r] = "idle"
    /\ \E c \in conversations : conversation' = [conversation EXCEPT ![r] = c]
    /\ stage' = [stage EXCEPT ![r] = "ensured"]
    /\ UNCHANGED <<limiterVars, conversations, messages, seq, history, said, open, late,
                   told, lost, before>>

\* A conversation of nobody, or of another tenant, is a 404; a database that
\* fails is a 500, and may have created the conversation.
EnsureFails(r) ==
    /\ gate[r] = "admitted" /\ stage[r] = "idle"
    /\ conversations' \in {conversations} \cup {conversations \cup {c} : c \in Conversations}
    /\ stage' = [stage EXCEPT ![r] = "ended"]
    /\ told' = [told EXCEPT ![r] = "error"]
    /\ Forgets(r)
    /\ UNCHANGED <<limiterVars, messages, seq, conversation, said, open, late, lost>>

Stored(r) == {m \in messages : m.turn = r}

In(c) == {m \in messages : conversation[m.turn] = c}

Younger(S, m) == {n \in S : n.seq > m.seq}

\* Mutant: the first rows instead of the last.
Newest_Oldest(S) == {m \in S : Cardinality({n \in S : n.seq < m.seq}) < HistoryLimit}

\* The rows of S that fewer than HistoryLimit others come after.
Newest(S) == {m \in S : Cardinality(Younger(S, m)) < HistoryLimit}

Recent(r) ==
    /\ Moves(r, "ensured", "read")
    /\ history' = [history EXCEPT ![r] = Newest(In(conversation[r]))]
    /\ UNCHANGED <<said, late, told, before>>

\* Whatever the model answers, the request goes on with the rewritten
\* question or with its own, and has done with the history.
Rewrite(r) ==
    /\ Moves(r, "read", "rewritten")
    /\ Forgets(r)
    /\ UNCHANGED <<said, late, told>>

\* Embed the question and search the vectors.  No passage above the floor is
\* a refusal, which is stored like an answer: a stream says it afterwards.
Retrieve(r) ==
    /\ \/ Goes(r, "rewritten", "answering") /\ UNCHANGED said
       \/ Goes(r, "rewritten", "appending") /\ said' = [said EXCEPT ![r] = 1]
    /\ UNCHANGED <<late, told>>

\* Reading, embedding, searching or answering fails before a response began.
RequestFails(r) ==
    \/ \E s \in {"ensured", "rewritten"} : Ends(r, s, "error")
    \/ Kind[r] = "plain" /\ Ends(r, "answering", "error")

-----------------------------------------------------------------------------
\* The answer.  A plain one is stored whatever it says.  A stream pushes a
\* token and yields it in one step; it stores what it said, if it said
\* something and no error came.

Answer(r) ==
    /\ Kind[r] = "plain"
    /\ Goes(r, "answering", "appending")
    /\ \E n \in 0 .. MaxTokens : said' = [said EXCEPT ![r] = n]
    /\ UNCHANGED <<late, told>>

OpenStream(r) ==
    /\ Kind[r] = "stream"
    /\ Goes(r, "answering", "streaming")
    /\ UNCHANGED <<said, late, told>>

\* Mutant: a deadline for each token.
Delta_Rearms(r) ==
    /\ Goes(r, "streaming", "streaming")
    /\ said' = [said EXCEPT ![r] = IF @ < MaxTokens THEN @ + 1 ELSE @]
    /\ late' = [late EXCEPT ![r] = FALSE]
    /\ UNCHANGED told

\* An empty delta changes nothing: a role, reasoning, or the [DONE] sentinel.
Delta(r) ==
    /\ Goes(r, "streaming", "streaming")
    /\ said' = [said EXCEPT ![r] = IF @ < MaxTokens THEN @ + 1 ELSE @]
    /\ UNCHANGED <<late, told>>

\* Mutant: what came before the error is stored.
StreamFails_Keeps(r) ==
    /\ \E s \in {"answering", "streaming"} :
          Goes(r, s, IF said[r] > 0 THEN "appending" ELSE "closing")
    /\ Kind[r] = "stream"
    /\ told' = [told EXCEPT ![r] = "broken"]
    /\ late' = [late EXCEPT ![r] = FALSE]
    /\ UNCHANGED said

\* The stream does not start, a read times out, or a chunk cannot be parsed.
StreamFails(r) ==
    /\ Kind[r] = "stream"
    /\ \E s \in {"answering", "streaming"} : Goes(r, s, "closing")
    /\ told' = [told EXCEPT ![r] = "broken"]
    /\ late' = [late EXCEPT ![r] = FALSE]
    /\ UNCHANGED said

DeadlinePasses(r) ==
    /\ Kind[r] = "stream" /\ ~late[r]
    /\ \E s \in {"answering", "streaming"} : Goes(r, s, s)
    /\ late' = [late EXCEPT ![r] = TRUE]
    /\ UNCHANGED <<said, told>>

StreamEnds(r) ==
    /\ IF said[r] > 0 THEN Goes(r, "streaming", "appending") ELSE Goes(r, "streaming", "closing")
    /\ late' = [late EXCEPT ![r] = FALSE]
    /\ UNCHANGED <<said, told>>

\* Mutant: the ceiling is taken for a failure.
Elapsed_Fails(r) ==
    /\ late[r]
    /\ Goes(r, "streaming", "closing")
    /\ late' = [late EXCEPT ![r] = FALSE]
    /\ UNCHANGED <<said, told>>

Elapsed(r) == late[r] /\ StreamEnds(r)

-----------------------------------------------------------------------------
\* append_turn: the question and the answer, in one transaction.

NextRole(r) == IF open[r] = {} THEN "user" ELSE "assistant"
NewRow(r)   == Message(r, NextRole(r), seq + 1)
Whole(r)    == \E m \in open[r] : m.role = "assistant"

\* Mutant: the statements run on the pool, each committing at once.
Insert_Commits(r) ==
    /\ stage[r] = "appending" /\ ~Whole(r)
    /\ seq' = seq + 1
    /\ open' = [open EXCEPT ![r] = @ \cup {NewRow(r)}]
    /\ messages' = messages \cup {NewRow(r)}
    /\ UNCHANGED <<limiterVars, conversations, stage, conversation, history, said, late,
                   told, lost, before>>

Insert(r) ==
    /\ stage[r] = "appending" /\ ~Whole(r)
    /\ seq' = seq + 1
    /\ open' = [open EXCEPT ![r] = @ \cup {NewRow(r)}]
    /\ UNCHANGED <<limiterVars, conversations, messages, stage, conversation, history, said,
                   late, told, lost, before>>

Commit(r) ==
    /\ stage[r] = "appending" /\ Whole(r)
    /\ messages' = messages \cup open[r]
    /\ open' = [open EXCEPT ![r] = {}]
    /\ stage' = [stage EXCEPT ![r] = "closing"]
    /\ UNCHANGED <<limiterVars, conversations, seq, conversation, history, said, late,
                   told, lost, before>>

\* What r's open transaction leaves when it is cut short: nothing, or, if it
\* was cut at its COMMIT, perhaps everything.
CutShort(r) ==
    /\ \/ UNCHANGED messages
       \/ Whole(r) /\ messages' = messages \cup open[r]
    /\ open' = [open EXCEPT ![r] = {}]

\* A plain answer that cannot be stored is a 500; a streamed one was said
\* already, and the error is only logged.
AppendFails(r) ==
    /\ stage[r] = "appending"
    /\ CutShort(r)
    /\ lost' = [lost EXCEPT ![r] = TRUE]
    /\ IF Kind[r] = "plain"
       THEN /\ stage' = [stage EXCEPT ![r] = "ended"]
            /\ told' = [told EXCEPT ![r] = "error"]
       ELSE /\ stage' = [stage EXCEPT ![r] = "closing"]
            /\ UNCHANGED told
    /\ UNCHANGED <<limiterVars, conversations, seq, conversation, history, said, late, before>>

\* The 200 of a plain answer, the done frame of a stream.
Respond(r) ==
    Ends(r, "closing", IF told[r] = "" THEN "ok" ELSE told[r])

Disconnect(r) ==
    /\ gate[r] = "admitted" /\ stage[r] # "ended"
    /\ CutShort(r)
    /\ Forgets(r)
    /\ stage' = [stage EXCEPT ![r] = "ended"]
    /\ told' = [told EXCEPT ![r] = IF @ = "broken" THEN @ ELSE "gone"]
    /\ late' = [late EXCEPT ![r] = FALSE]
    /\ UNCHANGED <<limiterVars, conversations, seq, conversation, said, lost>>

-----------------------------------------------------------------------------
\* What r does by itself once it is let through.
Proceeds(r) ==
    \/ Search(r)
    \/ EnsureNew(r) \/ EnsureFound(r) \/ EnsureFails(r)
    \/ Recent(r) \/ Rewrite(r) \/ Retrieve(r) \/ RequestFails(r)
    \/ Answer(r) \/ OpenStream(r) \/ StreamFails(r) \/ StreamEnds(r)
    \/ Insert(r) \/ Commit(r) \/ AppendFails(r) \/ Respond(r)

Next ==
    \/ Limiter
    \/ \E r \in Requests :
          \/ Arrive(r) \/ BadLimit(r)
          \/ Proceeds(r)
          \/ Delta(r) \/ DeadlinePasses(r) \/ Elapsed(r)
          \/ Disconnect(r)

Spec == Init /\ [][Next]_vars

\* Redis, Postgres, the embedder, Qdrant and the gateway answer or fail, each
\* within its timeout, and the deadline of a stream comes.  The client need
\* not send anything or go away, and the gateway may trickle tokens for ever.
FairSpec ==
    /\ Spec
    /\ \A r \in Requests :
          /\ WF_vars((Incr(r) \/ Expire(r) \/ CommandFails(r)) /\ UNCHANGED askingVars)
          /\ WF_vars(Proceeds(r) /\ stage[r] # "streaming")
          /\ WF_vars(DeadlinePasses(r))
          /\ WF_vars(Elapsed(r))

-----------------------------------------------------------------------------
(* No question that any request has read into its history stands there     *)
(* without its answer, although turns interleave, transactions roll back   *)
(* or lose their COMMIT, and the limit cuts a history anywhere: the answer *)
(* is the younger row of a pair that appears at once.                      *)
HistoryIsAnswered ==
    \A r \in Requests : \A m \in history[r] :
        m.role = "user" => \E n \in history[r] : n.turn = m.turn /\ n.role = "assistant"

(* An answer its client was given whole, or up to the deadline, is in the  *)
(* conversation when the response ends.  Only a stream may miss: one that  *)
(* said nothing, and one whose append failed, which is merely logged.      *)
ToldIsStored ==
    \A r \in Requests :
        /\ stage[r] = "ended" /\ told[r] = "ok"
        /\ Kind[r] = "plain" \/ (said[r] > 0 /\ ~lost[r])
        => {m.role : m \in Stored(r)} = Roles

(* What a conversation keeps was an answer: both rows of the turn, never   *)
(* of a stream that showed its client an error or that said nothing.       *)
StoredWasAnswered ==
    \A r \in Requests : Stored(r) # {} =>
        /\ {m.role : m \in Stored(r)} = Roles
        /\ told[r] # "broken"
        /\ Kind[r] = "plain" \/ said[r] > 0

(* A question asked after another request in its conversation had ended    *)
(* with a stored answer reads that answer, unless HistoryLimit younger     *)
(* rows stand in the conversation when it reads.                           *)
FollowUpRemembers ==
    \A r \in Requests : stage[r] = "read" =>
        \A s \in before[r] : \A m \in Stored(s) :
            m.role = "assistant" /\ conversation[s] = conversation[r] =>
                m \in history[r] \/ HistoryLimit <= Cardinality(Younger(In(conversation[r]), m))

(* Every request the limiter has begun to look at ends, even when the      *)
(* gateway never stops sending: the deadline of a stream is one moment.    *)
EveryRequestEnds ==
    \A r \in Requests : gate[r] # "new" ~> Ended(r)
=============================================================================
