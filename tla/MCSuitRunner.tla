---------------------------- MODULE MCSuitRunner ----------------------------
(***************************************************************************)
(* Model checking of SuitRunner, and of SuitReference beside it: every     *)
(* manifest built from a small alphabet of commands.                       *)
(***************************************************************************)
EXTENDS SuitReference, SequencesExt

CONSTANTS p0, p1, b1, b2,    \* component names, blocks
          r0, r1,            \* remote uris
          l0, l1, l2         \* local uris: a payload, no field, and no byte string

MCPath == {p0, p1}
MCBlock == {b1, b2}
MCImage == {<<b1>>, <<b1, b2>>}
MCHeaderPath == [i \in MCImage |-> p0]
MCRemoteUri == {r0, r1}
MCLocalUri == {l0, l1, l2}

\* The compiler may give the three "target" locals one address or several.
MCSlot == {"frame1", "frame2"}
OneFrame == [s \in Site |-> "frame1"]
TwoFrames == [s \in Site |-> IF s = "index" THEN "frame1" ELSE "frame2"]

\* A key that is no uri, and the one the enum takes for a uri.
WideUri == KEY_LIMIT + SUIT_PARAMETER_URI

Op(op) == [op |-> op, arg |-> <<>>]
Param(op, key, value) == [op |-> op, arg |-> <<[key |-> key, value |-> value]>>]
Select(op, kind, list) == [op |-> op, arg |-> [kind |-> kind, list |-> list]]

Id(path) == [device |-> "equal", storage |-> "prefix", suffix |-> "equal",
             uuid |-> path, extra |-> FALSE]
BadId == [Id(p0) EXCEPT !.storage = "different"]

SelectCommands ==
    {Select("set-component-index", "true", <<>>),
     Select("set-component-index", "false", <<>>),
     Select("set-component-index", "uint", <<0>>),
     Select("set-component-index", "uint", <<1>>),
     Select("set-component-index", "uint", <<2>>),
     Select("set-component-index", "array", <<1, 0>>),
     Select("set-component-index", "array", <<1, -1>>),
     Select("set-component-index", "other", <<>>),
     Select("set-dependency-index", "uint", <<0>>)}

ParamCommands ==
    {Param("set-parameters", SUIT_PARAMETER_URI, r0),
     Param("override-parameters", SUIT_PARAMETER_URI, r1),
     Param("set-parameters", SUIT_PARAMETER_URI, l0),
     Param("override-parameters", SUIT_PARAMETER_URI, l1),
     Param("override-parameters", SUIT_PARAMETER_URI, l2),
     Param("override-parameters", SUIT_PARAMETER_URI, NotTstr),
     Param("override-parameters", WideUri, l0),
     Param("override-parameters", -1, r0),
     [op |-> "set-parameters",
      arg |-> <<[key |-> 3, value |-> NotTstr], [key |-> 14, value |-> NotTstr],
                [key |-> SUIT_PARAMETER_URI, value |-> r0]>>]}

OtherCommands == {Op("fetch"), Op("image-match"), Op("process-dependency"), Op("junk")}

Alphabet == SelectCommands \cup ParamCommands \cup OtherCommands

ManifestOf(comps, common, form, install) ==
    [components |-> comps, n_dependencies |-> 1,
     common |-> [form |-> "array", cmds |-> common],
     install |-> [form |-> form, cmds |-> install],
     payloads |-> [u \in {l0, l2} |-> IF u = l0 THEN <<b1, b2>> ELSE NotBstr]]

TwoComponents == <<Id(p0), Id(p1)>>
\* The commands that select, set and fetch, in longer sequences.
Core == {Select("set-component-index", "uint", <<0>>),
         Select("set-component-index", "uint", <<1>>),
         Select("set-component-index", "array", <<1, 0>>),
         Param("set-parameters", SUIT_PARAMETER_URI, r0),
         Param("override-parameters", SUIT_PARAMETER_URI, r1),
         Op("fetch")}

CoreManifests ==
    {ManifestOf(TwoComponents, <<>>, "array", s) : s \in BoundedSeq(Core, 4)}

\* Keys the enum does not tell apart, up to the capacity of the binding array.
WideManifests ==
    {ManifestOf(<<Id(p0)>>, <<>>, "array", Append(s, Op("fetch"))) :
        s \in BoundedSeq({Param("set-parameters", SUIT_PARAMETER_URI, r0),
                          Param("override-parameters", SUIT_PARAMETER_URI, r1),
                          Param("set-parameters", WideUri, l0),
                          Param("override-parameters", WideUri, l1)}, 3)}

CommonSequences == {<<>>,
                    <<Param("set-parameters", SUIT_PARAMETER_URI, r0)>>,
                    <<Param("set-parameters", SUIT_PARAMETER_URI, r0), Op("fetch")>>}

SmallManifests ==
    {ManifestOf(TwoComponents, c, "array", s) :
        c \in CommonSequences, s \in BoundedSeq(Alphabet, 2)}

\* Longer runs: fetches for each component around every selection and setting.
LongManifests ==
    {ManifestOf(cs, <<x>>, "array", <<a, b, Op("fetch"), c, d, Op("fetch")>>) :
        cs \in {TwoComponents, <<BadId, Id(p1)>>},
        x \in {Op("image-match"), Op("fetch")},
        a \in {Select("set-component-index", "uint", <<0>>),
               Select("set-component-index", "array", <<1, 0>>)},
        b \in ParamCommands, d \in ParamCommands,
        c \in {Select("set-component-index", "uint", <<1>>),
               Select("set-component-index", "true", <<>>),
               Select("set-dependency-index", "uint", <<0>>)}}

SeveredManifests ==
    {ManifestOf(TwoComponents, <<>>, "severed", <<>>)}

UnreadableManifests ==
    {ManifestOf(TwoComponents, c, "not-array", <<>>) : c \in CommonSequences}

MCManifest == UNION {SmallManifests, CoreManifests, WideManifests, LongManifests, SeveredManifests,
                     UnreadableManifests}

=============================================================================
