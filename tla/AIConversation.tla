--------------------------- MODULE AIConversation ---------------------------
(***************************************************************************)
(* Chats with the assistant: the stream of an answer, its rounds of tool      *)
(* calls and what is stored of them (slurmweb/ai/service.py,                  *)
(* slurmweb/ai/tools.py, slurmweb/persistence/ai_conversation_store.py).      *)
(* What an interface may do for a user is in AgentOperations.                 *)
(***************************************************************************)
EXTENDS Integers, Sequences

CONSTANTS
    Streams,            \* one question each
    Shared,             \* a conversation they may all continue
    Histories,          \* lengths of it before
    Called,             \* interfaces that the planner calls
    Writes,             \* those that write
    MaxRounds,          \* ai.max_rounds
    HistoryLimit        \* ai.max_history_messages

ASSUME ChatAssumption == Histories \subseteq Nat /\ MaxRounds \in Nat /\ HistoryLimit \in Nat

Conversations == Streams \cup {Shared}      \* a new one has the name of its stream

VARIABLES
    messages,           \* ai_messages of a conversation, in order
    deleted,            \* ai_conversations.deleted_at
    stage,              \* of a stream
    conversation,       \* it is about
    context,            \* streams whose question its planner sees
    rounds,             \* that are left
    call, result,       \* the tool call under way
    untraced,           \* writes it applied and has not stored
    outcome             \* how it ended

chatVars == <<messages, deleted, stage, conversation, context, rounds, call, result, untraced, outcome>>
round == <<context, rounds, call, result>>

None == [tool |-> "none", interface |-> "none"]
Message(role, s) == [role |-> role, of |-> s]

ChatInit ==
    /\ \E n \in Histories :
        messages = [c \in Conversations |->
            IF c = Shared THEN [i \in 1 .. n |-> Message("past", Shared)] ELSE <<>>]
    /\ deleted = [c \in Conversations |-> FALSE]
    /\ stage = [s \in Streams |-> "idle"]
    /\ conversation = [s \in Streams |-> s] /\ context = [s \in Streams |-> {}]
    /\ rounds = [s \in Streams |-> MaxRounds]
    /\ call = [s \in Streams |-> None] /\ result = [s \in Streams |-> "none"]
    /\ untraced = [s \in Streams |-> 0] /\ outcome = [s \in Streams |-> "none"]

\* The response ends: what only its thread knew is gone.
End(s, how) ==
    /\ stage' = [stage EXCEPT ![s] = "done"]
    /\ outcome' = [outcome EXCEPT ![s] = how]
    /\ context' = [context EXCEPT ![s] = {}] /\ rounds' = [rounds EXCEPT ![s] = 0]
    /\ call' = [call EXCEPT ![s] = None] /\ result' = [result EXCEPT ![s] = "none"]

Move(s, next) ==
    /\ stage' = [stage EXCEPT ![s] = next]
    /\ UNCHANGED outcome

Go(s, next) == Move(s, next) /\ UNCHANGED round

----------------------------------------------------------------------------
(* The request *)

\* An empty message, a model that cannot be used or a conversation that is deleted
\* are refused. The conversation is resolved or created.
AskQuestion(s) ==
    /\ stage[s] = "idle"
    /\ \/ End(s, "refused") /\ UNCHANGED conversation
       \/ \E c \in {Shared, s} :
            /\ ~deleted[c]
            /\ Go(s, "question") /\ conversation' = [conversation EXCEPT ![s] = c]
    /\ UNCHANGED <<messages, deleted, untraced>>

\* add_message()
AddMessage(s, role, next, failure) ==
    /\ \/ /\ messages' = [messages EXCEPT ![conversation[s]] = Append(@, Message(role, s))]
          /\ Go(s, next)
       \/ End(s, failure) /\ UNCHANGED messages
    /\ UNCHANGED <<deleted, conversation, untraced>>

AddQuestion(s) == stage[s] = "question" /\ AddMessage(s, "user", "context", "failed")

\* list_messages() sorts by date before it cuts: the oldest ones.
Oldest(history, limit) ==
    SubSeq(history, 1, IF Len(history) < limit THEN Len(history) ELSE limit)

\* The question is not counted.
KnownShort(c) ==
    LET known == Oldest(messages[c], HistoryLimit - 1)
    IN IF deleted[c] THEN {} ELSE {known[i].of : i \in DOMAIN known}

Known(c) ==
    LET known == Oldest(messages[c], HistoryLimit)
    IN IF deleted[c] THEN {} ELSE {known[i].of : i \in DOMAIN known}

\* _conversation_context_messages(). The first event names the conversation.
ReadContext(s) ==
    /\ stage[s] = "context"
    /\ \/ /\ Move(s, "opened") /\ UNCHANGED <<rounds, call, result>>
          /\ context' = [context EXCEPT ![s] = Known(conversation[s])]
       \/ End(s, "failed")
    /\ UNCHANGED <<messages, deleted, conversation, untraced>>

----------------------------------------------------------------------------
(* Rounds *)

Planning(s) == stage[s] \in {"opened", "planning", "called"}

ToolCalls == [tool : {"query", "mutate", "direct"}, interface : Called \cup {"unknown"}]

\* Only an output that cannot be understood takes a round.
PlanForever(s) ==
    /\ Planning(s)
    /\ \/ rounds[s] = 0 /\ Go(s, "answering")
       \/ rounds[s] > 0 /\ (End(s, "error") \/ Go(s, "answering"))
       \/ /\ rounds[s] > 0
          /\ \/ Move(s, "planning") /\ UNCHANGED call /\ rounds' = [rounds EXCEPT ![s] = @ - 1]
             \/ \E c \in ToolCalls :
                   Move(s, "calling") /\ call' = [call EXCEPT ![s] = c] /\ UNCHANGED rounds
          /\ UNCHANGED <<context, result>>
    /\ UNCHANGED <<messages, deleted, conversation, untraced>>

\* complete(): the model answers, asks for a tool, or for nothing that can be
\* understood, which takes a round too; or the provider fails.
Plan(s) ==
    /\ Planning(s)
    /\ \/ rounds[s] = 0 /\ Go(s, "answering")
       \/ rounds[s] > 0 /\ (End(s, "error") \/ Go(s, "answering"))
       \/ /\ rounds[s] > 0 /\ rounds' = [rounds EXCEPT ![s] = @ - 1]
          /\ \/ Move(s, "planning") /\ UNCHANGED call
             \/ \E c \in ToolCalls : Move(s, "calling") /\ call' = [call EXCEPT ![s] = c]
          /\ UNCHANGED <<context, result>>
    /\ UNCHANGED <<messages, deleted, conversation, untraced>>

\* _resolve_tool_call(): a tool for reading does not write, nor one for writing read.
Resolved(c) ==
    \/ c.tool = "query" /\ c.interface \notin Writes
    \/ c.tool = "mutate" /\ c.interface \in Writes \cup {"unknown"}
    \/ c.tool = "direct" /\ c.interface # "unknown"

\* The planner is told, and the next round begins.
Tell(s) ==
    /\ Move(s, "called")
    /\ call' = [call EXCEPT ![s] = None] /\ result' = [result EXCEPT ![s] = "none"]
    /\ UNCHANGED <<context, rounds>>

\* What an interface answers: a value; an error of its own, or one of its arguments,
\* which the planner is told; another error. A write may be applied and fail.
Answers(i) ==
    {a \in [result : {"ok", "refused", "raised"}, applied : {0, 1}] :
        /\ i \notin Writes => a.applied = 0
        /\ i \in Writes /\ a.result = "ok" => a.applied = 1
        /\ i = "unknown" => a.result = "refused"}

\* execute() of the tool, and of the interface when it is resolved.
CallTool(s) ==
    /\ stage[s] = "calling"
    /\ \/ ~Resolved(call[s]) /\ Tell(s) /\ UNCHANGED untraced
       \/ /\ Resolved(call[s])
          /\ \E a \in Answers(call[s].interface) :
                /\ result' = [result EXCEPT ![s] = a.result]
                /\ untraced' = [untraced EXCEPT ![s] = @ + a.applied]
          /\ call' = [call EXCEPT ![s] = None]
          /\ Move(s, "recording") /\ UNCHANGED <<context, rounds>>
    /\ UNCHANGED <<messages, deleted, conversation>>

\* A row that cannot be stored is given up.
RecordQuietly(s) ==
    /\ stage[s] = "recording"
    /\ untraced' = [untraced EXCEPT ![s] = 0] \/ UNCHANGED untraced
    /\ IF result[s] = "raised" THEN End(s, "error") ELSE Tell(s)
    /\ UNCHANGED <<messages, deleted, conversation>>

\* _record_tool_call(). When the row of a success cannot be stored, that of an error
\* is tried, and the stream ends in any case.
Record(s) ==
    /\ stage[s] = "recording"
    /\ \/ /\ untraced' = [untraced EXCEPT ![s] = 0]
          /\ IF result[s] = "raised" THEN End(s, "error") ELSE Tell(s)
       \/ /\ result[s] = "ok" /\ result' = [result EXCEPT ![s] = "raised"]
          /\ UNCHANGED <<stage, outcome, context, rounds, call, untraced>>
       \/ result[s] # "ok" /\ End(s, "error") /\ UNCHANGED untraced
    /\ UNCHANGED <<messages, deleted, conversation>>

----------------------------------------------------------------------------
(* The answer *)

\* What was shown is not stored.
StoreAnswerLast(s) ==
    /\ stage[s] = "answering" /\ Go(s, "showing")
    /\ UNCHANGED <<messages, deleted, conversation, untraced>>

\* The answer, or the excuse after the last round.
StoreAnswer(s) == stage[s] = "answering" /\ AddMessage(s, "assistant", "showing", "error")

\* The events of the content, and the last ones.
Show(s) ==
    /\ stage[s] = "showing" /\ End(s, "complete")
    /\ UNCHANGED <<messages, deleted, conversation, untraced>>

\* The client leaves: the generator is closed where it yields.
Cut(s) ==
    /\ stage[s] \in {"opened", "calling", "called", "showing"}
    /\ End(s, "cut")
    /\ UNCHANGED <<messages, deleted, conversation, untraced>>

\* The agent stops: no handler runs.
Kill(s) ==
    /\ stage[s] \notin {"idle", "done"}
    /\ End(s, "killed")
    /\ UNCHANGED <<messages, deleted, conversation, untraced>>

\* soft_delete_conversation()
DeleteConversation(c) ==
    /\ messages[c] # <<>> /\ ~deleted[c]
    /\ deleted' = [deleted EXCEPT ![c] = TRUE]
    /\ UNCHANGED <<messages, stage, outcome, conversation, round, untraced>>

----------------------------------------------------------------------------

Step(s) ==
    \/ AddQuestion(s) \/ ReadContext(s) \/ Plan(s) \/ CallTool(s) \/ Record(s)
    \/ StoreAnswer(s) \/ Show(s)

ChatNext ==
    \/ \E s \in Streams : AskQuestion(s) \/ Step(s) \/ Cut(s) \/ Kill(s)
    \/ \E c \in Conversations : DeleteConversation(c)

\* The server drives a response to its end; requests to the model have a timeout.
ChatFairness == \A s \in Streams : WF_chatVars(Step(s))

ChatSpec == ChatInit /\ [][ChatNext]_chatVars /\ ChatFairness

----------------------------------------------------------------------------
(* Properties *)

\* A write that the assistant applied is in ai_tool_calls before the model is asked
\* again and before an answer is shown: one that cannot be stored ends the stream
\* with an error.
WritesAreTraced ==
    \A s \in Streams : untraced[s] > 0 => stage[s] = "recording" \/ outcome[s] \in {"error", "killed"}

\* The planner sees the question it answers, whatever other streams add to the
\* conversation, unless HistoryLimit messages are older or the conversation is deleted.
QuestionInContext ==
    \A s \in Streams : Planning(s) =>
        \/ s \in context[s] \/ deleted[conversation[s]]
        \/ \A i \in DOMAIN messages[conversation[s]] :
               messages[conversation[s]][i] = Message("user", s) => i > HistoryLimit

\* An answer that was shown is in its conversation after its question: it is
\* stored before its first piece is sent.
ShownIsStored ==
    \A s \in Streams : stage[s] = "showing" \/ outcome[s] = "complete" =>
        \E i, j \in DOMAIN messages[conversation[s]] :
            /\ i < j
            /\ messages[conversation[s]][i] = Message("user", s)
            /\ messages[conversation[s]][j] = Message("assistant", s)

\* Every stream ends, whatever the model answers: each of its outputs takes one of
\* the rounds, those that call nothing too.
StreamsEnd == \A s \in Streams : stage[s] # "idle" ~> stage[s] = "done"
=============================================================================
