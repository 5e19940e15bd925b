-------------------------------- MODULE Lsda ---------------------------------
(***************************************************************************)
(* The language-specific data area of a function, byte by byte, and how     *)
(* handle_lsda() of raise.c finds the landing pad of a call in it.  Module  *)
(* Unwind takes these tables as decoded: LookupAgrees says that decoding    *)
(* them gives what Unwind assumes.                                          *)
(***************************************************************************)
EXTENDS Leb128

CONSTANTS
  Encodings,    \* the encodings of a call-site table
  TableEncodings, \* the encodings of the type table, which is not read
  Starts,       \* offsets of call sites in their function
  Sizes,        \* their lengths
  Chains,       \* action chains: for each action its type, in order
  PcOffsets     \* offsets of return addresses, minus one

ASSUME LsdaAssumption == Starts \cup Sizes \cup PcOffsets \subseteq 0..16383

VARIABLES
  sites,        \* the call sites of a function, as the compiler has them
  chain,        \* its one action chain
  lsda,         \* the same encoded
  query,        \* the arguments: pcOffset, phase, whether the exception is foreign
  p,            \* cursor in the call-site table
  table,        \* callSiteEncoding, callSiteTableEnd
  callsite,     \* the entry whose actions are being read
  action,       \* handle_action_value(): actionPos and the loop counter i
  answer        \* "header", "sites" or "actions" while reading, then the result

lsdaVars == <<sites, chain, lsda, query, p, table, callsite, action, answer>>

DW_EH_PE_absptr  == 0
DW_EH_PE_uleb128 == 1
DW_EH_PE_udata2  == 2
DW_EH_PE_udata4  == 3
DW_EH_PE_udata8  == 4
DW_EH_PE_sleb128 == 9
DW_EH_PE_sdata2  == 10
DW_EH_PE_sdata4  == 11
DW_EH_PE_sdata8  == 12
DW_EH_PE_pcrel   == 16
DW_EH_PE_omit    == 255

-----------------------------------------------------------------------------
(* readEncodedPointer().                                                   *)

\* Negative control: a 4-byte value is read as a 2-byte one.
Width_Short(encoding) ==
  IF encoding % 16 \in {DW_EH_PE_absptr, DW_EH_PE_udata8, DW_EH_PE_sdata8} THEN 8 ELSE 2

Width(encoding) ==
  CASE encoding % 16 \in {DW_EH_PE_udata2, DW_EH_PE_sdata2} -> 2
    [] encoding % 16 \in {DW_EH_PE_udata4, DW_EH_PE_sdata4} -> 4
    [] encoding % 16 \in {DW_EH_PE_absptr, DW_EH_PE_udata8, DW_EH_PE_sdata8} -> 8

SignedFormats == {DW_EH_PE_sdata2, DW_EH_PE_sdata4, DW_EH_PE_sdata8}

\* A little-endian value of the format's width, sign-extended if it is signed.
readFixed(mem, at, encoding) ==
  LET w    == Width(encoding)
      bits == UNION {{k + 8 * j : k \in Bits(mem[at + j])} : j \in 0..(w - 1)}
  IN  [value |-> IF encoding % 16 \in SignedFormats /\ (8 * w - 1) \in bits
                 THEN bits \cup ((8 * w)..63) ELSE bits,
       next  |-> at + w]

\* Pointers that are relative to anything but their own place abort; none of the
\* encodings used here does, or is indirect.
readEncodedPointer(mem, at, encoding) ==
  IF encoding = DW_EH_PE_omit THEN [value |-> 0, next |-> at]
  ELSE LET r == CASE encoding % 16 = DW_EH_PE_uleb128 -> readULEB128(mem, at)
                  [] encoding % 16 = DW_EH_PE_sleb128 -> readSLEB128(mem, at)
                  [] OTHER -> readFixed(mem, at, encoding)
       IN  [value |-> Num(r.value) + (IF encoding \div 16 = 1 THEN at ELSE 0),
            next  |-> r.next]

-----------------------------------------------------------------------------
(* What the compiler emits.                                                *)

\* The sizes of DWARF's fixed-size formats.
DwarfSize(encoding) ==
  IF encoding \in {DW_EH_PE_udata2, DW_EH_PE_sdata2} THEN 2
  ELSE IF encoding \in {DW_EH_PE_udata4, DW_EH_PE_sdata4} THEN 4 ELSE 8

Encode(n, encoding) ==
  CASE encoding = DW_EH_PE_uleb128 -> EncodeULEB128(n)
    [] encoding = DW_EH_PE_sleb128 -> EncodeSLEB128(n)
    [] OTHER -> <<n % 256, n \div 256>> \o [k \in 1..(DwarfSize(encoding) - 2) |-> 0]

\* Two bytes per action: its type, and the distance from there to the next one,
\* which comes after it or, if the chain shares the end of another, before it.
EncodeChain(c) ==
  LET n == Len(c.types)
      Next(k) == IF k = n THEN 0 ELSE IF c.backward THEN 0 - 3 ELSE 1
      Pair(k) == <<c.types[k]>> \o EncodeSLEB128(Next(k))
  IN  FlattenSeq([k \in 1..n |-> Pair(IF c.backward THEN n + 1 - k ELSE k)])

\* Position of the chain's first action, counted from 1.
FirstAction(c) == IF c.backward THEN 2 * Len(c.types) - 1 ELSE 1

EncodeSite(s, c, encoding) ==
  Encode(s.start, encoding) \o Encode(s.length, encoding)
    \o Encode(s.landingPad, encoding)
    \o EncodeULEB128(IF s.acts THEN FirstAction(c) ELSE 0)

EncodeTable(ss, c, encoding, ttype) ==
  LET body == FlattenSeq([k \in 1..Len(ss) |-> EncodeSite(ss[k], c, encoding)])
  IN  <<DW_EH_PE_omit, ttype>>
        \o (IF ttype = DW_EH_PE_omit THEN <<>> ELSE EncodeULEB128(200))
        \o <<encoding>> \o EncodeULEB128(Len(body)) \o body \o EncodeChain(c)

\* Call sites are disjoint and in order; one without a landing pad has no action.
Site == {s \in [start : Starts, length : Sizes, landingPad : {0, 130}, acts : BOOLEAN] :
           s.landingPad = 0 => ~s.acts}

SiteTables == {<<s>> : s \in Site}
  \cup {t \in Site \X Site : t[1].start + t[1].length <= t[2].start}

NoSite == [start |-> 0, length |-> 0, landingPad |-> 0, action |-> 0]

LsdaInit ==
  /\ sites \in SiteTables
  /\ chain \in [types : Chains, backward : BOOLEAN]
  /\ \E e \in Encodings, t \in TableEncodings : lsda = EncodeTable(sites, chain, e, t)
  /\ query \in [pcOffset : PcOffsets, phase : {"search", "cleanup"}, foreign : BOOLEAN]
  /\ p = 1
  /\ table = [encoding |-> DW_EH_PE_omit, end |-> 0]
  /\ callsite = NoSite
  /\ action = [pos |-> 0, i |-> 0]
  /\ answer = [code |-> "header", pad |-> 0, selector |-> 0]

-----------------------------------------------------------------------------
(* handle_lsda().                                                          *)

\* The header: the landing pads' base and the type table are skipped.
ReadHeader ==
  /\ answer.code = "header"
  /\ LET afterLp == readEncodedPointer(lsda, 2, lsda[1]).next
         ttype   == lsda[afterLp]
         atSites == IF ttype = DW_EH_PE_omit THEN afterLp + 1
                    ELSE readULEB128(lsda, afterLp + 1).next
         length  == readULEB128(lsda, atSites + 1)
     IN  /\ table' = [encoding |-> lsda[atSites], end |-> length.next + Num(length.value)]
         /\ p' = length.next
  /\ answer' = [answer EXCEPT !.code = "sites"]
  /\ UNCHANGED <<sites, chain, lsda, query, callsite, action>>

\* unwind_callsite_read().
unwind_callsite_read(at, encoding) ==
  LET start      == readEncodedPointer(lsda, at, encoding)
      length     == readEncodedPointer(lsda, start.next, encoding)
      landingPad == readEncodedPointer(lsda, length.next, encoding)
      act        == readULEB128(lsda, landingPad.next)
  IN  [site |-> [start |-> start.value, length |-> length.value,
                 landingPad |-> landingPad.value, action |-> Num(act.value)],
       next |-> act.next]

\* Negative control: the end of a call site is taken to be inside it.
unwind_callsite_contains_Inclusive(s, pcOffset) ==
  s.start <= pcOffset /\ pcOffset <= s.start + s.length

unwind_callsite_contains(s, pcOffset) ==
  s.start <= pcOffset /\ pcOffset < s.start + s.length

\* The end of an iteration: with the entry's actions known, whether they matched.
Conclude(site, selector) ==
  answer' =
    IF query.phase = "cleanup"
    THEN [code |-> "install", pad |-> site.landingPad, selector |-> selector]
    ELSE IF selector # 0 THEN [code |-> "found", pad |-> 0, selector |-> 0]
    ELSE [answer EXCEPT !.code = "sites"]

\* An entry of the call-site table that does not cover the call, or has no
\* landing pad; or else one whose actions are not considered ...
ReadSite ==
  /\ answer.code = "sites" /\ p < table.end
  /\ LET r == unwind_callsite_read(p, table.encoding)
         covers == r.site.landingPad # 0 /\ unwind_callsite_contains(r.site, query.pcOffset)
     IN  /\ p' = r.next
         /\ \/ /\ ~covers
               /\ UNCHANGED <<callsite, action, answer>>
            \/ /\ covers /\ (query.foreign \/ r.site.action = 0)
               /\ Conclude(r.site, 0)
               /\ UNCHANGED <<callsite, action>>
            \* ... or one whose actions are read next.
            \/ /\ covers /\ ~query.foreign /\ r.site.action # 0
               /\ callsite' = r.site
               /\ action' = [pos |-> table.end + r.site.action - 1, i |-> 0]
               /\ answer' = [answer EXCEPT !.code = "actions"]
  /\ UNCHANGED <<sites, chain, lsda, query, table>>

\* The distance to the next action is counted from where it is stored.
NextAction(type, offset) == type.next + SignedNum(offset.value)

\* One iteration of handle_action_value().
ReadAction ==
  /\ answer.code = "actions"
  /\ LET type   == readSLEB128(lsda, action.pos)
         offset == readSLEB128(lsda, type.next)
     IN  IF SignedNum(type.value) > 0
         THEN Conclude(callsite, action.i + 1) /\ UNCHANGED action
         ELSE IF offset.value = {}
         THEN Conclude(callsite, 0) /\ UNCHANGED action
         ELSE /\ action' = [pos |-> NextAction(type, offset), i |-> action.i + 1]
              /\ UNCHANGED answer
  /\ UNCHANGED <<sites, chain, lsda, query, p, table, callsite>>

\* No landing pad found.
EndOfTable ==
  /\ answer.code = "sites" /\ p >= table.end
  /\ answer' = [answer EXCEPT !.code = "continue"]
  /\ UNCHANGED <<sites, chain, lsda, query, p, table, callsite, action>>

LsdaNext == ReadHeader \/ ReadSite \/ ReadAction \/ EndOfTable

-----------------------------------------------------------------------------
\* The call sites that cover the call, and the first typed action of the chain:
\* what handle_lsda and handle_action_value of module Unwind compute from
\* decoded tables.
Covering == {k \in DOMAIN sites : sites[k].landingPad # 0
                                  /\ query.pcOffset \in sites[k].start..(sites[k].start + sites[k].length - 1)}
Selector(s) ==
  LET typed == {k \in DOMAIN chain.types : chain.types[k] > 0}
  IN  IF query.foreign \/ ~s.acts \/ typed = {} THEN 0 ELSE Min(typed)

Expected ==
  IF query.phase = "search"
  THEN [code |-> IF \E k \in Covering : Selector(sites[k]) # 0 THEN "found" ELSE "continue",
        pad |-> 0, selector |-> 0]
  ELSE IF Covering = {} THEN [code |-> "continue", pad |-> 0, selector |-> 0]
  ELSE LET s == sites[Min(Covering)]
       IN  [code |-> "install", pad |-> s.landingPad, selector |-> Selector(s)]

\* handle_lsda() answers from the bytes of the table what the call sites and
\* actions that were encoded say, whatever the encoding: in the search phase
\* whether there is a handler, in the cleanup phase which landing pad to enter
\* with which selector.
LookupAgrees ==
  answer.code \in {"continue", "found", "install"} => answer = Expected

\* The cursor never crosses the end of the call-site table into the actions:
\* when no entry covers the call it comes to stand exactly there.
SitesEndWithTable ==
  /\ answer.code \in {"sites", "actions", "found", "install"} => p <= table.end
  /\ answer.code = "continue" => p = table.end
=============================================================================
