------------------------------- MODULE TaStore -------------------------------
(***************************************************************************)
(* The component store of the TEEP Agent (teep-agent-ta/ta-store.c).       *)
(*                                                                         *)
(* A store maps the name of an installed Trusted Component to the blocks   *)
(* of its file.  store_component is compiled with one of four install_ta   *)
(* bodies; they differ in whether opening a file truncates it, in whether  *)
(* the name of the component is used at all, and in what a failure leaves  *)
(* behind.                                                                 *)
(***************************************************************************)
EXTENDS Naturals, Sequences, FiniteSets

CONSTANTS
    Path,          \* component file names: the uuid rendered by parse_component_id
    Block,         \* the units a file is made of
    Image,         \* the component images, non-empty sequences of blocks
    HeaderPath,    \* OP-TEE: the uuid in an image's own header, [Image -> Path]
    Platform,      \* the install_ta body that was compiled in
    StoreMayFail   \* TRUE if opening or writing a file may fail

ASSUME TaStoreAssumption ==
    /\ Image \subseteq Seq(Block) \ {<<>>}
    /\ HeaderPath \in [Image -> Path]
    /\ Platform \in {"keystone", "optee", "pc", "sgx"}
    /\ StoreMayFail \in BOOLEAN

\* What a range of memory handed to store_component may hold: an image, or
\* nothing at all (a null range, or a download with an empty body).
Body == Image \cup {<<>>}

IsStore(fs) == \E D \in SUBSET Path : fs \in [D -> Seq(Block)]

----------------------------------------------------------------------------

PutFile(fs, path, content) ==
    [p \in DOMAIN fs \cup {path} |-> IF p = path THEN content ELSE fs[p]]

\* The file after writing w at offset 0: fopen(.., "w+") truncates it first,
\* the O_CREAT opens of Keystone and SGX leave a longer file's tail in place.
Written(fs, path, w) ==
    IF Platform = "pc" \/ path \notin DOMAIN fs
    THEN w
    ELSE w \o SubSeq(fs[path], Len(w) + 1, Len(fs[path]))

\* The file system can refuse the open, or accept only a prefix of the image.
FailedWrites(fs, path, body) ==
    {fs} \cup {PutFile(fs, path, Written(fs, path, SubSeq(body, 1, n))) :
                    n \in {k \in 0 .. Len(body) : k < Len(body)}}

\* OP-TEE hands the image to the secure-storage PTA, which names the component
\* by the header of the image and installs all of it or nothing.
Bootstrapped(fs, body) ==
    IF body = <<>> THEN {fs}
    ELSE {PutFile(fs, HeaderPath[body], body)}
         \cup (IF StoreMayFail THEN {fs} ELSE {})

\* Mutant: every platform names the component by the header of its image.
StoreComponentByHeader(fs, path, body) == Bootstrapped(fs, body)

\* The stores that store_component(path, body) can leave behind.  It returns
\* FALSE for every one but the complete write; no caller looks at the result.
StoreComponent(fs, path, body) ==
    IF Platform = "optee"
    THEN Bootstrapped(fs, body)
    ELSE {PutFile(fs, path, Written(fs, path, body))}
         \cup (IF StoreMayFail THEN FailedWrites(fs, path, body) ELSE {})

=============================================================================
