----------------------------- MODULE TeepMessage -----------------------------
(***************************************************************************)
(* The TEEP message codec (lib/teep/libteep.c) as the TEEP Agent uses it:  *)
(* parse_teep_message on one message of the TAM, the hand-over of the      *)
(* token and of the requested data items to the session, the release of    *)
(* the parsed message, and the messages the agent builds from the session. *)
(*                                                                         *)
(* A message is the sequence of items the QCBOR decoder (external) returns *)
(* one by one, in the order of the encoding: an array or a map comes       *)
(* before its members, and every item tells the nesting level of the item  *)
(* that follows it, which is how the parser skips options.                 *)
(***************************************************************************)
EXTENDS Integers, Sequences

CONSTANTS
    Input,           \* messages: [items, complete]
    RequestList,     \* lists of trusted components of a developer option
    IndefCount,      \* val.uCount of an array or a map of indefinite length
    UINT32_LIMIT,    \* 2^32: the first integer that is not a uint32_t
    POST_DATA_LEN,   \* sizeof task->post_data
    MallocMayFail    \* TRUE if malloc may fail

MessageKind == {"query-request", "query-response", "update", "success", "error"}

\* Label "none" is that of an item that is not in a map, "text" a label that is
\* not an integer.  val is the value of an integer and the length of a string.
ItemType ==
    [label : STRING, type : {"int", "bytes", "text", "array", "map", "other"},
     val : Int, count : Nat, next : Nat]

\* A request of the developer option: the length of its id, a string in an array
\* of 128 characters, and what is asked for.
IdMax == 127
RequestType == [len : 0 .. IdMax, mark : {"plain", "requested", "unneeded"}]

Null == -1   \* NULLUsefulBufC: no string, as opposed to one of length 0

ASSUME TeepMessageAssumption ==
    /\ IndefCount \in Nat /\ UINT32_LIMIT \in Nat /\ POST_DATA_LEN \in Nat
    /\ MallocMayFail \in BOOLEAN
    /\ \A i \in Input : i.items \in Seq(ItemType) /\ i.complete \in BOOLEAN
    /\ \A l \in RequestList : l \in Seq(RequestType)

VARIABLES
    input,            \* the message
    pos,              \* items the decoder has returned
    phase,            \* where parse_teep_message, or its caller, is
    todo,             \* options of the map that are still to be read
    nest_level,       \* level of the items of the options map
    level,            \* level of the next item, while an option is skipped
    type,             \* m->type
    fields,           \* members of m that have a value
    ptr,              \* array members of m that are not NULL
    live,             \* blocks allocated for every array member and not freed
    starved,          \* history: a malloc returned NULL
    session_token,    \* session->token
    data_item_requested,
    posted            \* the last message built into task->post_data

parserVars  == <<pos, phase, todo, nest_level, level, type, fields, ptr, live, starved>>
sessionVars == <<session_token, data_item_requested, posted>>
vars == <<input, parserVars, sessionVars>>

Empty == [l \in {} |-> 0]
With(f, l, x) == [k \in DOMAIN f \cup {l} |-> IF k = l THEN x ELSE f[k]]

\* A malloc of no bytes may return NULL even when there is memory.
Malloc(n) == IF MallocMayFail \/ n = 0 THEN BOOLEAN ELSE {TRUE}

----------------------------------------------------------------------------
(* The decoder                                                             *)

NoItem == [label |-> "none", type |-> "none", val |-> 0, count |-> 0, next |-> 0]

\* What the n-th QCBORDecode_GetNext returns.
At(n) == IF n \in DOMAIN input.items THEN input.items[n] ELSE NoItem

\* QCBORDecode_Finish
DecodeFinish == pos = Len(input.items) /\ input.complete

\* QCBORDecode_Slice: the encoding of the items, with the label of the first one.
Slice(first, last) ==
    [i \in 1 .. (last - first + 1) |->
        LET item == input.items[first + i - 1]
        IN  <<item.label, item.type, item.val, item.count>>]

----------------------------------------------------------------------------
(* Values of options.  The operators named ...End give the position of the *)
(* last item of the value that starts at item p, 0 if it is refused.       *)

\* Mutant: the upper limit is one too high.
IsUInt32OffByOne(item) == item.type = "int" /\ item.val \in 0 .. UINT32_LIMIT

IsUInt32(item) == item.type = "int" /\ item.val \in 0 .. (UINT32_LIMIT - 1)

\* An array of plain items, and where it ends if they all fit.
Members(p) == {At(p + i) : i \in 1 .. At(p).count}
ArrayEnd(p, fit) == IF fit THEN p + At(p).count ELSE 0

\* Ends of n consecutive values, the first of which follows item p; end gives that
\* of the value at a position.
Ends(p, n, end) ==
    LET e[i \in 0 .. n] == IF i = 0 THEN p
                           ELSE IF e[i - 1] = 0 THEN 0 ELSE end[e[i - 1] + 1]
    IN  e

\* Mutant: only byte strings are taken for the segments of a component id.
ComponentIdEndBytes(p) ==
    IF At(p).type = "array" THEN ArrayEnd(p, \A i \in Members(p) : i.type = "bytes") ELSE 0

ComponentIdEnd(p) ==
    IF At(p).type = "array"
    THEN ArrayEnd(p, \A i \in Members(p) : i.type \in {"bytes", "text"}) ELSE 0

\* HAVE_BINARY is read and then falls into the default of the switch, which
\* refuses it in a requested list as well.
TcInfoEntryEnd(p) ==
    CASE At(p).label = "component-id" -> ComponentIdEnd(p)
      [] At(p).label = "tc-manifest-sequence-number" -> IF IsUInt32(At(p)) THEN p ELSE 0
      [] OTHER -> 0

TcInfoEnds(p) == Ends(p, At(p).count, [q \in Nat |-> TcInfoEntryEnd(q)])
TcInfoEnd(p) == IF At(p).type = "map" THEN TcInfoEnds(p)[At(p).count] ELSE 0

\* The members of a tc-info that were present; the last of two equal keys counts.
TcInfo(p) ==
    LET n == At(p).count
        e == TcInfoEnds(p)
        first(i) == e[i - 1] + 1
        lasts == {i \in 1 .. n : \A j \in (i + 1) .. n :
                                    At(first(j)).label # At(first(i)).label}
    IN  [l \in {At(first(i)).label : i \in lasts} |->
            LET i == CHOOSE i \in lasts : At(first(i)).label = l
            IN  Slice(first(i), e[i])]

----------------------------------------------------------------------------
(* The table of parse_option: the kind of value label takes in a message   *)
(* of type t, "skip" if the label is unknown or not for such a message.    *)

OptionKind(label, t) ==
    CASE /\ label \in {"supported-cipher-suits", "versions",
                       "supported-freshness-mechanisms"}
         /\ t \in {"query-request", "error"}                            -> "uint32-array"
      [] label \in {"challenge", "ocsp-data"} /\ t = "query-request"    -> "bytes"
      [] label = "token"                                                -> "bytes"
      [] /\ label \in {"selected-cipher-suit", "selected-version"}
         /\ t = "query-response"                                        -> "uint32"
      [] label = "evidence-format" /\ t = "query-response"              -> "text"
      [] label = "evidence" /\ t = "query-response"                     -> "bytes"
      [] /\ label \in {"tc-list", "requested-tc-list"}
         /\ t = "query-response"                                        -> "tc-info-array"
      [] label = "unneeded-tc-list" /\ t = "query-response"             -> "id-array"
      [] label = "ext-list" /\ t = "query-response"                     -> "uint32-array"
      [] label = "manifest-list" /\ t = "update"                        -> "bytes-array"
      [] label = "suit-reports" /\ t \in {"success", "error"}           -> "bytes-array"
      [] label = "msg" /\ t = "success"                                 -> "text"
      [] label = "err-msg" /\ t = "error"                               -> "text"
      [] OTHER                                                          -> "skip"

ArrayKind == {"uint32-array", "bytes-array", "id-array", "tc-info-array"}

\* The members of struct teep_message that are arrays.
ArrayLabel == {"supported-cipher-suits", "supported-freshness-mechanisms", "versions",
               "tc-list", "requested-tc-list", "unneeded-tc-list", "ext-list",
               "manifest-list", "suit-reports"}

\* The ends of the members of an array of ids, or of tc-infos, at item p.
IdArrayEnds(p) == Ends(p, At(p).count, [q \in Nat |-> ComponentIdEnd(q)])
TcInfoArrayEnds(p) == Ends(p, At(p).count, [q \in Nat |-> TcInfoEnd(q)])

\* End of the value of the option at item p.
ValueEnd(p, kind) ==
    CASE kind = "uint32"        -> IF IsUInt32(At(p)) THEN p ELSE 0
      [] kind = "uint32-array"  -> ArrayEnd(p, \A i \in Members(p) : IsUInt32(i))
      [] kind = "bytes-array"   -> ArrayEnd(p, \A i \in Members(p) : i.type = "bytes")
      [] kind = "id-array"      -> IdArrayEnds(p)[At(p).count]
      [] kind = "tc-info-array" -> TcInfoArrayEnds(p)[At(p).count]
      [] OTHER                  -> IF At(p).type = kind THEN p ELSE 0

\* What is stored for it.
Value(p, kind) ==
    LET n == At(p).count
        ids == IdArrayEnds(p)
        infos == TcInfoArrayEnds(p)
    IN  CASE kind \in {"uint32-array", "bytes-array"} -> [i \in 1 .. n |-> At(p + i).val]
          [] kind = "id-array" -> [i \in 1 .. n |-> Slice(ids[i - 1] + 1, ids[i])]
          [] kind = "tc-info-array" -> [i \in 1 .. n |-> TcInfo(infos[i - 1] + 1)]
          [] OTHER -> At(p).val

----------------------------------------------------------------------------
(* parse_teep_message                                                      *)

Init ==
    /\ input \in Input
    /\ pos = 0 /\ phase = "header"
    /\ todo = 0 /\ nest_level = 0 /\ level = 0
    /\ type = "none" /\ fields = Empty
    /\ ptr = {} /\ live = [l \in ArrayLabel |-> 0] /\ starved = FALSE
    /\ session_token = Null /\ data_item_requested = 0
    /\ posted = [type |-> "none"]

TypeOf(n) == CASE n = 1 -> "query-request" [] n = 2 -> "query-response" [] n = 3 -> "update"
               [] n = 5 -> "success" [] n = 6 -> "error" [] OTHER -> "none"

\* The array, its first item and the allocation of m.  Before m exists there is
\* nothing to free.
ReadHeader ==
    /\ phase = "header"
    /\ \E allocated \in Malloc(1) :
          LET readable == At(1).type = "array" /\ At(2).type = "int"
                             /\ TypeOf(At(2).val) # "none"
          IN  /\ phase' = IF readable /\ allocated THEN "options" ELSE "refused"
              /\ type' = IF readable /\ allocated THEN TypeOf(At(2).val) ELSE type
              /\ starved' = (readable /\ ~allocated)
    /\ pos' = 2
    /\ UNCHANGED <<input, todo, nest_level, level, fields, ptr, live, sessionVars>>

\* The map of parse_options.
OpenOptions ==
    /\ phase = "options"
    /\ pos' = pos + 1
    /\ phase' = IF At(pos + 1).type = "map" THEN "option" ELSE "err"
    /\ todo' = At(pos + 1).count
    /\ nest_level' = At(pos + 1).next
    /\ UNCHANGED <<input, level, type, fields, ptr, live, starved, sessionVars>>

InOption == phase = "option" /\ todo > 0
Option == At(pos + 1)
Kind == OptionKind(Option.label, type)

\* The item is not in a map, or its label is not an integer.
RefuseLabel ==
    /\ InOption
    /\ Option.label \in {"none", "text"}
    /\ pos' = pos + 1 /\ phase' = "err"
    /\ UNCHANGED <<input, todo, nest_level, level, type, fields, ptr, live, starved,
                   sessionVars>>

\* A string or a number.  A second option of the same label replaces the first.
ReadScalar ==
    /\ InOption
    /\ Option.label \notin {"none", "text"}
    /\ Kind \in {"uint32", "bytes", "text"}
    /\ pos' = pos + 1
    /\ \/ /\ ValueEnd(pos + 1, Kind) # 0
          /\ fields' = With(fields, Option.label, Value(pos + 1, Kind))
          /\ todo' = todo - 1
          /\ UNCHANGED phase
       \/ /\ ValueEnd(pos + 1, Kind) = 0
          /\ phase' = "err"
          /\ UNCHANGED <<fields, todo>>
    /\ UNCHANGED <<input, nest_level, level, type, ptr, live, starved, sessionVars>>

\* An array: p->array is set, to the block or to NULL, before the first item is
\* read, and with it the block of an earlier option of the same label is lost.
ReadArray ==
    /\ InOption
    /\ Option.label \notin {"none", "text"}
    /\ Kind \in ArrayKind
    /\ LET l == Option.label
           end == ValueEnd(pos + 1, Kind)
       IN  \/ /\ Option.type # "array"
              /\ pos' = pos + 1 /\ phase' = "err"
              /\ UNCHANGED <<todo, fields, ptr, live, starved>>
           \/ /\ Option.type = "array"
              /\ FALSE \in Malloc(Option.count)
              /\ pos' = pos + 1 /\ phase' = "err"
              /\ ptr' = ptr \ {l} /\ starved' = TRUE
              /\ UNCHANGED <<todo, fields, live>>
           \/ /\ Option.type = "array"
              /\ ptr' = ptr \cup {l}
              /\ live' = [live EXCEPT ![l] = @ + 1]
              /\ IF end = 0   \* the decoder is not used again
                 THEN phase' = "err" /\ UNCHANGED <<pos, todo, fields>>
                 ELSE /\ pos' = end /\ todo' = todo - 1
                      /\ fields' = With(fields, l, Value(pos + 1, Kind))
                      /\ UNCHANGED phase
              /\ UNCHANGED starved
    /\ UNCHANGED <<input, nest_level, level, type, sessionVars>>

SkipOption ==
    /\ InOption
    /\ Option.label \notin {"none", "text"}
    /\ Kind = "skip"
    /\ pos' = pos + 1
    /\ level' = Option.next
    /\ phase' = "skip"
    /\ UNCHANGED <<input, todo, nest_level, type, fields, ptr, live, starved, sessionVars>>

\* Mutant: the end of the message does not stop the loop.
SkipItemForever ==
    /\ phase = "skip" /\ level # nest_level
    /\ pos' = IF pos < Len(input.items) THEN pos + 1 ELSE pos
    /\ level' = At(pos + 1).next
    /\ UNCHANGED <<input, phase, todo, nest_level, type, fields, ptr, live, starved,
                   sessionVars>>

SkipItem ==
    /\ phase = "skip" /\ level # nest_level
    /\ pos' = pos + 1
    /\ level' = At(pos + 1).next
    /\ phase' = IF At(pos + 1).type = "none" THEN "err" ELSE phase
    /\ UNCHANGED <<input, todo, nest_level, type, fields, ptr, live, starved, sessionVars>>

SkipDone ==
    /\ phase = "skip" /\ level = nest_level
    /\ phase' = "option" /\ todo' = todo - 1
    /\ UNCHANGED <<input, pos, nest_level, level, type, fields, ptr, live, starved,
                   sessionVars>>

TrailingField == IF type = "query-request" THEN "data-item-requested" ELSE "err-code"

\* The item after the options, in the two messages that have one.
ReadTrailing ==
    /\ phase = "option" /\ todo = 0
    /\ \/ /\ type \notin {"query-request", "error"}
          /\ phase' = "finish" /\ UNCHANGED <<pos, fields>>
       \/ /\ type \in {"query-request", "error"}
          /\ pos' = pos + 1
          /\ \/ /\ At(pos + 1).type = "int"
                /\ fields' = With(fields, TrailingField, At(pos + 1).val)
                /\ phase' = "finish"
             \/ /\ At(pos + 1).type # "int"
                /\ phase' = "err" /\ UNCHANGED fields
    /\ UNCHANGED <<input, todo, nest_level, level, type, ptr, live, starved, sessionVars>>

\* Mutant: what follows the message is not looked at.
FinishUnchecked ==
    /\ phase = "finish"
    /\ phase' = "parsed"
    /\ UNCHANGED <<input, pos, todo, nest_level, level, type, fields, ptr, live, starved,
                   sessionVars>>

Finish ==
    /\ phase = "finish"
    /\ phase' = IF DecodeFinish THEN "parsed" ELSE "err"
    /\ UNCHANGED <<input, pos, todo, nest_level, level, type, fields, ptr, live, starved,
                   sessionVars>>

\* Mutant: the versions of an Error message are forgotten.
ArraysFreedNoVersions(t) ==
    IF t = "error" THEN {"supported-cipher-suits", "supported-freshness-mechanisms",
                         "suit-reports"}
    ELSE {"supported-cipher-suits", "supported-freshness-mechanisms", "versions",
          "tc-list", "requested-tc-list", "unneeded-tc-list", "ext-list",
          "manifest-list", "suit-reports"}

\* The members free_parsed_teep_message frees in a message of type t.
ArraysFreed(t) ==
    CASE t = "query-request"  -> {"supported-cipher-suits",
                                  "supported-freshness-mechanisms", "versions"}
      [] t = "query-response" -> {"tc-list", "requested-tc-list", "unneeded-tc-list",
                                  "ext-list"}
      [] t = "update"         -> {"manifest-list"}
      [] t = "success"        -> {"suit-reports"}
      [] t = "error"          -> {"supported-cipher-suits",
                                  "supported-freshness-mechanisms", "versions",
                                  "suit-reports"}

\* Mutant: every array is freed twice.
FreeParsedTwice ==
    /\ live' = [l \in ArrayLabel |->
                  IF l \in ptr \cap ArraysFreed(type) THEN live[l] - 2 ELSE live[l]]
    /\ ptr' = {} /\ fields' = Empty

FreeParsed ==
    /\ live' = [l \in ArrayLabel |->
                  IF l \in ptr \cap ArraysFreed(type) THEN live[l] - 1 ELSE live[l]]
    /\ ptr' = {} /\ fields' = Empty

Refuse ==
    /\ phase = "err"
    /\ FreeParsed
    /\ phase' = "refused"
    /\ UNCHANGED <<input, pos, todo, nest_level, level, type, starved, sessionVars>>

----------------------------------------------------------------------------
(* The caller: handle_tam_message and query_next_broker_task               *)

Token == IF "token" \in DOMAIN fields THEN fields["token"] ELSE Null
TokenLen == IF Token = Null THEN 0 ELSE Token

\* Mutant: the token is not copied before the message is released.
HandleMessageNoToken ==
    /\ phase = "parsed"
    /\ IF type = "query-request"
       THEN /\ phase' = "handled"
            /\ data_item_requested' = fields["data-item-requested"]
            /\ UNCHANGED session_token
       ELSE phase' = "handled" /\ UNCHANGED <<session_token, data_item_requested>>
    /\ UNCHANGED <<input, pos, todo, nest_level, level, type, fields, ptr, live, starved,
                   posted>>

\* The copy of the token is not checked: without memory for it the agent crashes,
\* and a token of no bytes, or none, becomes whatever malloc(0) returns.
HandleMessage ==
    /\ phase = "parsed"
    /\ IF type = "query-request"
       THEN \E copied \in Malloc(TokenLen) :
               /\ session_token' = IF copied THEN TokenLen ELSE Null
               /\ data_item_requested' = fields["data-item-requested"]
               /\ phase' = IF ~copied /\ TokenLen # 0 THEN "crashed" ELSE "handled"
       ELSE phase' = "handled" /\ UNCHANGED <<session_token, data_item_requested>>
    /\ UNCHANGED <<input, pos, todo, nest_level, level, type, fields, ptr, live, starved,
                   posted>>

Release ==
    /\ phase = "handled"
    /\ FreeParsed
    /\ phase' = "released"
    /\ UNCHANGED <<input, pos, todo, nest_level, level, type, starved, sessionVars>>

----------------------------------------------------------------------------
(* The encoder: the sizes of what is added to task->post_data              *)

HeadLen(n) == IF n < 24 THEN 1 ELSE IF n < 256 THEN 2 ELSE IF n < 65536 THEN 3 ELSE 5
StringLen(n) == HeadLen(n) + n

AddToken(t) == IF t = Null THEN 0 ELSE 1 + StringLen(t)

\* Mutant: a requested component is written with a second key.
AddTcTwoKeys(r) == 4 + StringLen(r.len) + (IF r.mark = "plain" THEN 0 ELSE 1)

\* A component in its list: the id, [id], or {component-id: [id]}.
AddTc(r) ==
    CASE r.mark = "plain"     -> StringLen(r.len)
      [] r.mark = "unneeded"  -> 1 + StringLen(r.len)
      [] r.mark = "requested" -> 3 + StringLen(r.len)

ListLen(list) ==
    LET sum[i \in 0 .. Len(list)] == IF i = 0 THEN 0 ELSE sum[i - 1] + AddTc(list[i])
    IN  6 + sum[Len(list)]

Asked(bit) == (data_item_requested \div bit) % 2 = 1

ResponseLen(list) ==
    3 + AddToken(session_token) + (IF ~Asked(1) /\ Asked(2) THEN ListLen(list) ELSE 0)

\* QCBOREncode_Finish fails if the buffer was too small, and the result is not
\* looked at: the length stays that of the buffer, and so do its contents.
Built(t, components, len) ==
    posted' = [type |-> t, token |-> session_token, components |-> components,
               needed |-> len,
               post_data_len |-> IF len <= POST_DATA_LEN THEN len ELSE POST_DATA_LEN]

\* The order of the messages is that of the states of TeepAgent.
BuildQueryResponse(list) ==
    /\ phase = "released" /\ type = "query-request"
    /\ Built("query-response", Len(list), ResponseLen(list))
    /\ phase' = "posting"
    /\ UNCHANGED <<input, pos, todo, nest_level, level, type, fields, ptr, live, starved,
                   session_token, data_item_requested>>

BuildSuccess ==
    /\ phase = "posting" /\ posted.type = "query-response"
    /\ Built("success", 0, 3 + AddToken(session_token))
    /\ UNCHANGED <<input, parserVars, session_token, data_item_requested>>

BuildError ==
    /\ \/ phase = "refused"
       \/ phase = "released" /\ type # "query-request"
       \/ phase = "posting" /\ posted.type \in {"query-response", "success"}
    /\ Built("error", 0, 3 + AddToken(session_token) + HeadLen(42))
    /\ phase' = "posting"
    /\ UNCHANGED <<input, pos, todo, nest_level, level, type, fields, ptr, live, starved,
                   session_token, data_item_requested>>

----------------------------------------------------------------------------
ParseStep == \/ ReadHeader \/ OpenOptions
             \/ RefuseLabel \/ ReadScalar \/ ReadArray
             \/ SkipOption \/ SkipItem \/ SkipDone
             \/ ReadTrailing \/ Finish \/ Refuse
             \/ HandleMessage \/ Release

Next ==
    \/ ParseStep
    \/ \E list \in RequestList : BuildQueryResponse(list)
    \/ BuildSuccess \/ BuildError

\* The parser runs to its end: it waits for nothing.
Spec == Init /\ [][Next]_vars /\ WF_vars(ParseStep)

----------------------------------------------------------------------------
(* Properties                                                              *)

Returned == phase \in {"refused", "handled", "released", "posting", "crashed"}

\* parse_teep_message, and the loop that skips options in particular, always
\* returns, whatever the message is.
ParseReturns == <>Returned

\* Two items of the message carry the label l.
Twice(l) ==
    \E i, j \in DOMAIN input.items :
        i # j /\ input.items[i].label = l /\ input.items[j].label = l

\* free_parsed_teep_message, called for a refused message as well as for an
\* accepted one, frees every array the parser allocated, and frees it once,
\* whatever made the parser stop.  The exception is an array whose option came
\* twice: the block of the first is lost.
NothingLeaked ==
    phase \in {"refused", "released", "posting"} =>
        \A l \in ArrayLabel : live[l] = 0 \/ Twice(l)

\* Component ids of the maximal length and the largest token that leave room for
\* each other in post_data.
SafeRequests == 15
SafeToken == 56

\* With at most SafeRequests components and a token of at most SafeToken bytes
\* every message built fits post_data, so that its unchecked result is no failure.
BuiltWhole ==
    /\ posted.type # "none"
    /\ session_token <= SafeToken /\ posted.components <= SafeRequests
    => posted.needed <= POST_DATA_LEN
=============================================================================
