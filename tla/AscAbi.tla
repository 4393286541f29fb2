------------------------------- MODULE AscAbi -------------------------------
(***************************************************************************)
(* The conversions of thegraph-runtime/src/asc_abi/to_from.rs between      *)
(* ethabi::Token and the AssemblyScript heap: ToAscObj writes a token as   *)
(* an AscEnum<TokenDiscr> whose payload is a bool or a pointer to a heap   *)
(* object, FromAscObj reads one back.                                      *)
(*                                                                         *)
(* The heap is a sequence of objects and a pointer an index into it;       *)
(* asc_new appends.  Byte contents are abstracted to their length and a    *)
(* tag: the decoders only look at the length.  A U256 is a model value    *)
(* stored as an ArrayBuffer<u64> of four words.  A decoder that fails an   *)
(* assert_eq! or an expect yields Panic.                                   *)
(***************************************************************************)
EXTENDS Naturals, Sequences

CONSTANTS
  Tags,     \* contents of byte arrays, told apart only by equality
  Lens,     \* lengths of byte arrays
  U256s,    \* 256-bit unsigned values
  Strs,     \* strings
  Panic     \* the outcome of a failed assertion in a decoder

Blob == [len : Lens, tag : Tags]

\* The variants of ethabi::Token, as records [kind, val].
Scalar(kinds, vals) == [kind : kinds, val : vals]
BaseTokens ==
  Scalar({"Address"}, {b \in Blob : b.len = 20}) \cup
  Scalar({"FixedBytes", "Bytes"}, Blob) \cup
  Scalar({"Int", "Uint"}, U256s) \cup
  Scalar({"Bool"}, BOOLEAN) \cup
  Scalar({"String"}, Strs)

\* Tokens with arrays nested up to depth d, of at most w elements.
RECURSIVE TokensUpTo(_, _)
TokensUpTo(d, w) ==
  IF d = 0 THEN BaseTokens
  ELSE LET inner == TokensUpTo(d - 1, w)
       IN inner \cup Scalar({"FixedArray", "Array"}, UNION {[1..n -> inner] : n \in 0..w})

(***************************************************************************)
(* Heap objects.                                                           *)
(***************************************************************************)
\* ArrayBuffer<u8> of a byte array.
U8Buffer(b) == [obj |-> "u8", blob |-> b]
\* ArrayBuffer<u64> of a U256: its four little-endian words.
U64Buffer(u) == [obj |-> "u64", words |-> 4, val |-> u]
\* AscString: UTF-16 code units; a string from the host is always valid.
AscString(s) == [obj |-> "str", val |-> s, utf16 |-> TRUE]
\* AscEnum<TokenDiscr>: a discriminant and an 8-byte payload.
AscEnum(discr, payload) == [obj |-> "enum", discr |-> discr, payload |-> payload]
\* Array<AscPtr<C>>: a header pointing at an ArrayBuffer of pointers.
PtrBuffer(ptrs) == [obj |-> "ptrs", ptrs |-> ptrs]
ArrayHeader(buf) == [obj |-> "array", buffer |-> buf]

\* asc_new: store the object, return its pointer and the new heap.
AscNew(h, o) == [heap |-> Append(h, o), ptr |-> Len(h) + 1]

(***************************************************************************)
(* ToAscObj.                                                               *)
(***************************************************************************)
\* The heap object the payload of a token points at, written by asc_new.
RECURSIVE TokenToAsc(_, _), TokensToAsc(_, _), TokenPayload(_, _)

\* ToAscObj<Array<AscPtr<C>>> for [T]: asc_new every element, then write
\* the pointer buffer and the array header.
TokensToAsc(ts, h) ==
  LET Step[i \in 0..Len(ts)] ==
        IF i = 0 THEN [heap |-> h, ptrs |-> <<>>]
        ELSE LET prev == Step[i - 1]
                 elem == TokenToAsc(ts[i], prev.heap)
             IN [heap |-> elem.heap, ptrs |-> Append(prev.ptrs, elem.ptr)]
      done == Step[Len(ts)]
      buf  == AscNew(done.heap, PtrBuffer(done.ptrs))
  IN AscNew(buf.heap, ArrayHeader(buf.ptr))

\* The payload of each variant (to_asc_obj for Token).
TokenPayload(t, h) ==
  CASE t.kind = "Address"                   -> AscNew(h, U8Buffer(t.val))
    [] t.kind \in {"FixedBytes", "Bytes"}   -> AscNew(h, U8Buffer(t.val))
    [] t.kind \in {"Int", "Uint"}           -> AscNew(h, U64Buffer(t.val))
    [] t.kind = "Bool"                      -> [heap |-> h, ptr |-> IF t.val THEN 1 ELSE 0]
    [] t.kind = "String"                    -> AscNew(h, AscString(t.val))
    [] t.kind \in {"FixedArray", "Array"}   -> TokensToAsc(t.val, h)

\* heap.asc_new(token): the AscEnum with discriminant get_discr(token).
TokenToAsc(t, h) ==
  LET p == TokenPayload(t, h)
  IN AscNew(p.heap, AscEnum(t.kind, p.ptr))

(***************************************************************************)
(* FromAscObj.                                                             *)
(***************************************************************************)
\* <[u8; 20]>::from_asc_obj: assert_eq!(len, 20).
Bytes20FromAsc(o) == IF o.blob.len = 20 THEN o.blob ELSE Panic

\* Vec<u8>::from_asc_obj: any length.
BytesFromAsc(o) == o.blob

\* U256::from_asc_obj through <[u64; 4]>: assert_eq!(len, 4).
U256FromAsc(o) == IF o.words = 4 THEN o.val ELSE Panic

\* String::from_asc_obj: String::from_utf16(..).expect(..).
StringFromAsc(o) == IF o.utf16 THEN o.val ELSE Panic

RECURSIVE TokenFromAsc(_, _), TokensFromAsc(_, _)

\* Vec<T>::from_asc_obj for Array<AscPtr<C>>: asc_get every pointer of the
\* array's buffer; a panic in one element is a panic of the whole read.
TokensFromAsc(o, h) ==
  LET ps == h[o.buffer].ptrs
      ts == [i \in 1..Len(ps) |-> TokenFromAsc(h[ps[i]], h)]
  IN IF \E i \in 1..Len(ts) : ts[i] = Panic THEN Panic ELSE ts

\* Fault: the FixedArray arm builds Token::Array, as the arm below it does.
TokenFromAscFixedAsArray(e, h) ==
  LET o == h[e.payload]
      Wrap(kind, v) == IF v = Panic THEN Panic ELSE [kind |-> kind, val |-> v]
  IN CASE e.discr = "Bool"                    -> [kind |-> "Bool", val |-> e.payload # 0]
       [] e.discr = "Address"                 -> Wrap("Address", Bytes20FromAsc(o))
       [] e.discr \in {"FixedBytes", "Bytes"} -> Wrap(e.discr, BytesFromAsc(o))
       [] e.discr \in {"Int", "Uint"}         -> Wrap("Int", U256FromAsc(o))
       [] e.discr = "String"                  -> Wrap("String", StringFromAsc(o))
       [] e.discr \in {"FixedArray", "Array"} -> Wrap("Array", TokensFromAsc(o, h))

\* from_asc_obj for Token: the discriminant says what the payload points
\* at; Uint is read back as Int.
TokenFromAsc(e, h) ==
  LET o == h[e.payload]
      Wrap(kind, v) == IF v = Panic THEN Panic ELSE [kind |-> kind, val |-> v]
  IN CASE e.discr = "Bool"                    -> [kind |-> "Bool", val |-> e.payload # 0]
       [] e.discr = "Address"                 -> Wrap("Address", Bytes20FromAsc(o))
       [] e.discr \in {"FixedBytes", "Bytes"} -> Wrap(e.discr, BytesFromAsc(o))
       [] e.discr \in {"Int", "Uint"}         -> Wrap("Int", U256FromAsc(o))
       [] e.discr = "String"                  -> Wrap("String", StringFromAsc(o))
       [] e.discr \in {"FixedArray", "Array"} -> Wrap(e.discr, TokensFromAsc(o, h))

(***************************************************************************)
(* The host writes tokens for a handler (event parameters, call results)  *)
(* and reads tokens the guest built (ethereum.call arguments).  The heap   *)
(* holds one token at a time: the one written, then the one read.          *)
(***************************************************************************)
VARIABLES
  heap,      \* the AssemblyScript heap: a sequence of objects
  root,      \* pointer to the AscEnum of the token on the heap (0: none)
  written,   \* the token the host wrote, or Guest for a guest-built one
  decoded    \* the result of reading the root back, once read

vars == <<heap, root, written, decoded>>

\* Tokens the host may write: arrays nested to depth 1 of at most 2 elements.
Tokens == TokensUpTo(1, 2)

\* What the guest may put on the heap as one AscEnum: a discriminant and the
\* object of the type it names, of any length and validity.
GuestObjects ==
  [discr : {"Address", "FixedBytes", "Bytes"}, o : {U8Buffer(b) : b \in Blob}] \cup
  [discr : {"Int", "Uint"}, o : {[obj |-> "u64", words |-> w, val |-> u] : w \in {3, 4}, u \in U256s}] \cup
  [discr : {"String"}, o : {[obj |-> "str", val |-> s, utf16 |-> ok] : s \in Strs, ok \in BOOLEAN}]

\* Markers: no token yet, and a token the guest built.
None == [kind |-> "None"]
Guest == [kind |-> "Guest"]

Init ==
  /\ heap = <<>>
  /\ root = 0
  /\ written = None
  /\ decoded = None

\* The host converts a token with heap.asc_new(&token).
HostWrite(t) ==
  LET w == TokenToAsc(t, heap) IN
  /\ root = 0
  /\ heap' = w.heap
  /\ root' = w.ptr
  /\ written' = t
  /\ UNCHANGED decoded

\* The guest builds a token itself.
GuestWrite(g) ==
  LET w == AscNew(heap, g.o) IN
  /\ root = 0
  /\ heap' = Append(w.heap, AscEnum(g.discr, w.ptr))
  /\ root' = Len(w.heap) + 1
  /\ written' = Guest
  /\ UNCHANGED decoded

\* The host reads the token back with heap.asc_get(ptr).
HostRead ==
  /\ root # 0
  /\ decoded = None
  /\ decoded' = TokenFromAsc(heap[root], heap)
  /\ UNCHANGED <<heap, root, written>>

\* The handler returns; its heap is dropped.
Drop ==
  /\ decoded # None
  /\ heap' = <<>> /\ root' = 0 /\ written' = None /\ decoded' = None

Next ==
  \/ \E t \in Tokens : HostWrite(t)
  \/ \E g \in GuestObjects : GuestWrite(g)
  \/ HostRead
  \/ Drop

Spec == Init /\ [][Next]_vars

-----------------------------------------------------------------------------
\* The token as the host reads it back: Int for Uint, at every depth (the
\* signed reading spec section 4.D documents).
RECURSIVE AsRead(_)
AsRead(t) ==
  CASE t.kind = "Uint"                    -> [t EXCEPT !.kind = "Int"]
    [] t.kind \in {"FixedArray", "Array"} -> [t EXCEPT !.val = [i \in DOMAIN t.val |-> AsRead(t.val[i])]]
    [] OTHER                              -> t

\* A token the host wrote with ToAscObj reads back with FromAscObj as the
\* same token, up to Uint read as Int: the discriminant, the payload
\* pointer, the element order of arrays and the lengths all survive.
RoundTripAsDocumented ==
  decoded # None /\ written # Guest => decoded = AsRead(written)
=============================================================================
