------------------------------ MODULE TeepItems -------------------------------
(***************************************************************************)
(* What a TEEP message says, read off its items all at once: where each    *)
(* option starts and ends, whether all of them fit, and what every member  *)
(* of struct teep_message then has to hold.  There is no decoder position, *)
(* no counter of options, no nesting level and no allocation here.         *)
(***************************************************************************)
EXTENDS TeepMessage

\* The type the message has in its header, "none" if there is no such type.
MessageType ==
    IF At(1).type = "array" /\ At(2).type = "int" THEN TypeOf(At(2).val) ELSE "none"

\* Item 3 is the map of the options.
OptionCount == At(3).count
OptionLevel == At(3).next

KindAt(p) == OptionKind(At(p).label, MessageType)

\* Where an option that starts at item p and is not for this type of message ends:
\* at the first item that is followed by one at the level of the options.  After
\* the last option of the map there may be none (see UnknownOptionSkipped).
SkipEnds(p) ==
    {e \in p .. Len(input.items) :
        At(e).next = OptionLevel /\ \A i \in p .. (e - 1) : At(i).next # OptionLevel}

\* The last item of the option that starts at item p, 0 if it cannot be one.
OptionEnd(p) ==
    IF At(p).label \in {"none", "text"} THEN 0
    ELSE IF KindAt(p) = "skip"
         THEN IF SkipEnds(p) = {} THEN 0 ELSE CHOOSE e \in SkipEnds(p) : TRUE
    ELSE IF KindAt(p) \in ArrayKind /\ At(p).type # "array" THEN 0
    ELSE ValueEnd(p, KindAt(p))

\* The ends of the options, one after the other, and the first item of the k-th.
OptionEnds == Ends(3, OptionCount, [q \in Nat |-> OptionEnd(q)])
First(k) == OptionEnds[k - 1] + 1

\* Of the first n options those that are stored, and the last ones of their label.
Stored(n) == {k \in 1 .. n : KindAt(First(k)) # "skip"}
LastStored(n) ==
    {k \in Stored(n) : \A j \in Stored(n) : j > k => At(First(j)).label # At(First(k)).label}

\* Two types of message have an integer after the options.
HasTrailing == MessageType \in {"query-request", "error"}
TrailingLabel == IF MessageType = "query-request" THEN "data-item-requested" ELSE "err-code"
OptionsEnd == OptionEnds[OptionCount]

\* The message is well formed up to its last byte.
WellFormed ==
    /\ MessageType # "none"
    /\ At(3).type = "map" /\ OptionsEnd # 0
    /\ HasTrailing => At(OptionsEnd + 1).type = "int"
    /\ input.complete /\ Len(input.items) = OptionsEnd + (IF HasTrailing THEN 1 ELSE 0)

\* The members f of struct teep_message after the first n options: no others, and
\* each holds the value of the last option with its label.
HoldsOptions(f, n) ==
    /\ DOMAIN f = {At(First(k)).label : k \in Stored(n)}
    /\ \A k \in LastStored(n) : f[At(First(k)).label] = Value(First(k), KindAt(First(k)))

\* The members after the whole message.
HoldsMessage(f) ==
    IF HasTrailing
    THEN /\ DOMAIN f = {At(First(k)).label : k \in Stored(OptionCount)} \cup {TrailingLabel}
         /\ f[TrailingLabel] = At(OptionsEnd + 1).val
         /\ \A k \in LastStored(OptionCount) :
               f[At(First(k)).label] = Value(First(k), KindAt(First(k)))
    ELSE HoldsOptions(f, OptionCount)

----------------------------------------------------------------------------
(* Properties                                                              *)

\* parse_teep_message accepts the messages that are well formed and no others, but
\* for those it has no memory for, whatever options it skips or reads twice on the
\* way; and the members of an accepted message hold its last options.
AcceptedAsItems ==
    /\ phase = "parsed" => WellFormed /\ type = MessageType /\ HoldsMessage(fields)
    /\ phase = "refused" => starved \/ ~WellFormed

\* What may answer a token of n bytes: its copy.  The agent does not look at whether
\* there was a token: with none, or an empty one, it copies 0 bytes, and the answer
\* carries an empty token or none as malloc(0) returns a block or NULL.
Echoes(n) == IF n \in {0, Null} THEN {0, Null} ELSE {n}

\* A QueryResponse carries the token of the QueryRequest it answers, the last one if
\* it has several, though the QueryRequest was released before it is built: a token
\* of at least one byte comes back as it is, and a QueryRequest with no token or an
\* empty one is never answered with bytes of another.
TokenEchoed ==
    posted.type = "query-response" =>
        /\ WellFormed /\ MessageType = "query-request"
        /\ \A k \in LastStored(OptionCount) :
              At(First(k)).label = "token" => posted.token \in Echoes(At(First(k)).val)
        /\ (\A k \in Stored(OptionCount) : At(First(k)).label # "token") =>
              posted.token \in Echoes(Null)
=============================================================================
