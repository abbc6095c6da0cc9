----------------------------- MODULE Transcript -----------------------------
(***************************************************************************)
(* MessageSnapshotAccumulator: how a stream of AG-UI events becomes the    *)
(* list of messages of a MESSAGES_SNAPSHOT.                                *)
(*                                                                         *)
(* An event is a record with its kind and what the kind carries: the id of *)
(* a message (REASONING_START and REASONING_MESSAGE_START are one event    *)
(* here, and so are their ends), a chunk, a tool call, its input.  Names,  *)
(* results and the ids of the messages that nothing opens are left out.    *)
(***************************************************************************)
EXTENDS Naturals, SequencesExt

CONSTANT Nil

Message(role, content) == [role |-> role, content |-> content, calls |-> <<>>]

EmptyTranscript ==
    [messages |-> <<>>,   \* _messages
     opened   |-> <<>>,   \* _open_message_idx: id -> place in messages
     where    |-> <<>>]   \* _tool_call_locations: call -> its place

\* The map with a key set to a value, whether it was there or not.
Bind(map, key, value) ==
    [k \in DOMAIN map \cup {key} |-> IF k = key THEN value ELSE map[k]]

Trailing(acc, role) ==
    /\ acc.messages # <<>>
    /\ Last(acc.messages).role = role

OpenMessage(acc, role, id) ==
    [acc EXCEPT !.messages = Append(@, Message(role, <<>>)),
                !.opened = Bind(@, id, Len(acc.messages) + 1)]

\* Content for a message that is not open is dropped.
AddContent(acc, id, chunk) ==
    IF id \in DOMAIN acc.opened
    THEN [acc EXCEPT !.messages[acc.opened[id]].content = Append(@, chunk)]
    ELSE acc

PopMessage(acc, id) ==
    [acc EXCEPT !.opened = Restrict(@, DOMAIN @ \ {id})]

\* A call joins the trailing assistant message, or a fresh one.
AttachCall(acc, call) ==
    LET messages == IF Trailing(acc, "assistant")
                    THEN acc.messages
                    ELSE Append(acc.messages, Message("assistant", <<>>))
        at == [message |-> Len(messages), index |-> Len(Last(messages).calls) + 1]
    IN  [acc EXCEPT
            !.messages = [messages EXCEPT ![at.message].calls =
                              Append(@, [call |-> call, args |-> Nil])],
            !.where = Bind(@, call, at)]

\* Arguments replace what was there; an unknown call is ignored.
SetArgs(acc, call, input) ==
    IF call \in DOMAIN acc.where
    THEN LET at == acc.where[call]
         IN  [acc EXCEPT !.messages[at.message].calls[at.index].args = input]
    ELSE acc

AddResult(acc, call) ==
    [acc EXCEPT !.messages = Append(@, Message("tool", <<call>>))]

\* The role of the message a chunk of this kind belongs to.
RoleOf(kind) == IF kind \in {"thoughtStart", "thought"} THEN "reasoning" ELSE
                IF kind = "user" THEN "user" ELSE "assistant"

\* Everything else - RUN_*, CUSTOM, TOOL_CALL_END - leaves no message.
Fold(acc, e) ==
    CASE e.kind \in {"textStart", "thoughtStart"} ->
             OpenMessage(acc, RoleOf(e.kind), e.id)
      [] e.kind \in {"text", "thought"}       -> AddContent(acc, e.id, e.chunk)
      [] e.kind \in {"textEnd", "thoughtEnd"} -> PopMessage(acc, e.id)
      [] e.kind = "callStart"                 -> AttachCall(acc, e.call)
      [] e.kind = "callArgs"                  -> SetArgs(acc, e.call, e.input)
      [] e.kind = "callResult"                -> AddResult(acc, e.call)
      [] OTHER                                -> acc

\* User chunks have no event: they join a trailing user message directly.
AddUserText(acc, chunk) ==
    IF Trailing(acc, "user")
    THEN [acc EXCEPT !.messages[Len(acc.messages)].content = Append(@, chunk)]
    ELSE [acc EXCEPT !.messages = Append(@, Message("user", <<chunk>>))]
=============================================================================
