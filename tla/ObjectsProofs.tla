---------------------------- MODULE ObjectsProofs ----------------------------
(***************************************************************************)
(* Proofs about the object model, for programs of any size: the attribute  *)
(* lists searched by interned symbol are a map from names, from the first  *)
(* statement of the bootstrap on; a method call goes to the nearest        *)
(* superclass that defines the name; the bootstrap finds everything it     *)
(* uses; and the program finds the runtime's constants.                    *)
(***************************************************************************)
EXTENDS Objects, WellFoundedInduction, NaturalsInduction, TLAPS

-----------------------------------------------------------------------------
(* The inductive invariant.                                                *)

\* All names in use, of the runtime and of the program.
Names ==
  IvNames \cup ClassNames \cup MethodNames \cup DOMAIN WellKnown
    \cup {"new", "allocate", "to_s", "initialize", "raise", "puts", "==", "message", "+", "<",
          "@message", "Missing"}

\* The values of function pointers: the runtime's functions, and the program's.
RuntimeMethods ==
  {"pup_class_new", "pup_object_allocate", "pup_class_to_s", "pup_object_initialize",
   "pup_object_raise", "pup_puts", "pup_object_op_equals", "pup_exception_initialize",
   "pup_exception_message", "pup_fixnum_plus", "pup_fixnum_op_equals",
   "pup_fixnum_op_lessthan"}
MethodValues == RuntimeMethods \cup {"method" \o ToString(n) : n \in Nat}
Allocators   == {"none", "unset", "object", "class", "string", "fixnum"}

EntryRec  == [sym : Nat, str : Names]
AttrRec   == [sym : Nat, value : Nat]
MethodRec == [sym : Nat, method : MethodValues]
ObjectRec ==
  [type : Nat, attrs : Seq(AttrRec), methods : Seq(MethodRec), superclass : Nat,
   scope : Nat, allocate : Allocators]
EnvRec == [symbols : Seq(EntryRec), next_sym : Nat, heap : Seq(ObjectRec), at : [Fields -> Nat]]

\* Symbols are numbered as they are interned, ...
SymbolsInv(e) ==
  /\ e.next_sym = Len(e.symbols) + 1
  /\ \A i \in 1..Len(e.symbols) : e.symbols[i].sym = i

\* ... an attribute has a symbol that was, ...
AttrsInv(e) ==
  \A o \in 1..Len(e.heap) : \A i \in 1..Len(e.heap[o].attrs) :
    e.heap[o].attrs[i].sym \in 1..Len(e.symbols)

\* ... and a type or well-known object exists, if it is set.
PointersInv(e) ==
  /\ \A o \in 1..Len(e.heap) : e.heap[o].type <= Len(e.heap)
  /\ \A f \in Fields : e.at[f] <= Len(e.heap)

EnvOK(e) == e \in EnvRec /\ SymbolsInv(e) /\ AttrsInv(e) /\ PointersInv(e)

\* Nothing is bound yet when obj_init() resets the attributes of the first two
\* classes, and later only to objects that exist.
BoundInv ==
  /\ DOMAIN ivars \subseteq (0..Len(env.heap)) \X Names
  /\ step < 3 => DOMAIN ivars = {}

\* The bootstrap ends with the main object.
MainInv == Booted /\ ~failed => env.at["main_obj"] # 0

Inv ==
  /\ EnvOK(env)
  /\ step \in 0..Len(runtime_init)
  /\ body \in 0..Len(env.heap)
  /\ BoundInv
  /\ MainInv
  /\ AttributesByName

-----------------------------------------------------------------------------
(* The statements of the bootstrap.                                        *)

\* The well-known objects are fields of struct RuntimeEnv.
LEMMA FieldNames ==
  /\ "class_object" \in Fields /\ "class_class" \in Fields /\ "class_string" \in Fields
  /\ "class_exception" \in Fields /\ "class_standarderror" \in Fields
  /\ "class_runtimeerror" \in Fields /\ "class_true" \in Fields /\ "class_false" \in Fields
  /\ "class_fixnum" \in Fields /\ "object_true" \in Fields /\ "object_false" \in Fields
  /\ "main_obj" \in Fields
  BY DEF Fields, WellKnown

\* The runtime's constants are among the names.
LEMMA RuntimeNames ==
  /\ "Object" \in Names /\ "Class" \in Names /\ "String" \in Names /\ "Exception" \in Names
  /\ "StandardError" \in Names /\ "RuntimeError" \in Names /\ "TrueClass" \in Names
  /\ "FalseClass" \in Names /\ "Fixnum" \in Names
  BY DEF Names, WellKnown

-----------------------------------------------------------------------------
(* Searching a list.                                                       *)

\* A set of indices has a least one.
LEMMA Least ==
  ASSUME NEW S \in SUBSET Nat, S # {}
  PROVE  Min(S) \in S /\ \A j \in S : Min(S) <= j
  <1> DEFINE R == OpToRel(<, Nat)
  <1>1. IsWellFoundedOn(R, Nat)  BY NatLessThanWellFounded
  <1> HIDE DEF R
  <1>2. PICK x \in S : \A y \in S : ~(<<y, x>> \in R)  BY <1>1, WFMin
  <1>3. \A y \in S : x <= y
    <2> SUFFICES ASSUME NEW y \in S, y < x PROVE FALSE  OBVIOUS
    <2> QED  BY <1>2 DEF R, OpToRel
  <1> QED  BY <1>3 DEF Min

\* The first attribute with symbol s, and what pup_iv_get() makes of it.
AttrAt(al, s) == SelectInSeq(al, LAMBDA a : a.sym = s)
ValueOf(al, s) == IF AttrAt(al, s) = 0 THEN Null ELSE al[AttrAt(al, s)].value

\* The search returns the first attribute with the symbol, or 0.
LEMMA AttrAtFirst ==
  ASSUME NEW al \in Seq(AttrRec), NEW s
  PROVE  /\ AttrAt(al, s) \in 0..Len(al)
         /\ AttrAt(al, s) # 0 => al[AttrAt(al, s)].sym = s
         /\ \A j \in 1..Len(al) : al[j].sym = s => AttrAt(al, s) # 0 /\ AttrAt(al, s) <= j
  <1> DEFINE I == {i \in 1..Len(al) : al[i].sym = s}
  <1>1. AttrAt(al, s) = IF I # {} THEN Min(I) ELSE 0  BY DEF AttrAt, SelectInSeq
  <1>2. I \in SUBSET Nat  OBVIOUS
  <1>3. CASE I = {}  BY <1>1, <1>3
  <1>4. CASE I # {}
    <2>1. AttrAt(al, s) \in I /\ \A j \in I : AttrAt(al, s) <= j
      <3> HIDE DEF I
      <3> QED  BY <1>1, <1>2, <1>4, Least
    <2> QED  BY <2>1
  <1> QED  BY <1>3, <1>4

\* It is the only index with these three properties.
LEMMA AttrAtIs ==
  ASSUME NEW al \in Seq(AttrRec), NEW s, NEW i \in 1..Len(al), al[i].sym = s,
         \A j \in 1..Len(al) : al[j].sym = s => i <= j
  PROVE  AttrAt(al, s) = i
  <1>1. AttrAt(al, s) # 0 /\ AttrAt(al, s) <= i  BY AttrAtFirst
  <1>2. AttrAt(al, s) \in 1..Len(al) /\ al[AttrAt(al, s)].sym = s  BY <1>1, AttrAtFirst
  <1>3. i <= AttrAt(al, s)  BY <1>2
  <1> QED  BY <1>1, <1>2, <1>3

\* It returns 0 if no attribute has the symbol.
LEMMA AttrAtNone ==
  ASSUME NEW al \in Seq(AttrRec), NEW s, \A j \in 1..Len(al) : al[j].sym # s
  PROVE  AttrAt(al, s) = 0
  <1> SUFFICES ASSUME AttrAt(al, s) # 0 PROVE FALSE  OBVIOUS
  <1>1. AttrAt(al, s) \in 1..Len(al) /\ al[AttrAt(al, s)].sym = s  BY AttrAtFirst
  <1> QED  BY <1>1

\* A new attribute in front hides the others of its symbol, ...
LEMMA ValueCons ==
  ASSUME NEW al \in Seq(AttrRec), NEW a \in AttrRec, NEW s
  PROVE  ValueOf(<<a>> \o al, s) = IF a.sym = s THEN a.value ELSE ValueOf(al, s)
  <1> DEFINE bs == <<a>> \o al
  <1>1. bs \in Seq(AttrRec) /\ Len(bs) = Len(al) + 1 /\ bs[1] = a  OBVIOUS
  <1>2. \A j \in 1..Len(al) : bs[j + 1] = al[j]  OBVIOUS
  <1>3. \A j \in 1..Len(bs) : j = 1 \/ (j - 1 \in 1..Len(al) /\ bs[j] = al[j - 1])
    <2> SUFFICES ASSUME NEW j \in 1..Len(bs), j # 1
                 PROVE  j - 1 \in 1..Len(al) /\ bs[j] = al[j - 1]  OBVIOUS
    <2>1. j - 1 \in 1..Len(al) /\ (j - 1) + 1 = j  BY <1>1
    <2> QED  BY <2>1, <1>2
  <1> HIDE DEF bs
  <1>4. CASE a.sym = s
    <2>1. AttrAt(bs, s) = 1
      <3>1. 1 \in 1..Len(bs)  BY <1>1
      <3>2. \A j \in 1..Len(bs) : 1 <= j  BY <1>1
      <3> QED  BY <1>1, <1>4, <3>1, <3>2, AttrAtIs
    <2> QED  BY <1>1, <1>4, <2>1 DEF ValueOf, bs
  <1>5. CASE a.sym # s /\ AttrAt(al, s) = 0
    <2>1. \A j \in 1..Len(al) : al[j].sym # s  BY <1>5, AttrAtFirst
    <2>2. \A j \in 1..Len(bs) : bs[j].sym # s  BY <1>1, <1>3, <1>5, <2>1
    <2>3. AttrAt(bs, s) = 0  BY <1>1, <2>2, AttrAtNone
    <2> QED  BY <1>5, <2>3 DEF ValueOf, bs
  <1>6. CASE a.sym # s /\ AttrAt(al, s) # 0
    <2> DEFINE i == AttrAt(al, s)
    <2>1. i \in 1..Len(al) /\ al[i].sym = s /\ \A j \in 1..Len(al) : al[j].sym = s => i <= j
      BY <1>6, AttrAtFirst
    <2> HIDE DEF i
    <2>0. Len(al) \in Nat  OBVIOUS
    <2>2. i + 1 \in 1..Len(bs) /\ bs[i + 1] = al[i]
      <3>1. i + 1 \in 1..Len(bs)  BY <1>1, <2>0, <2>1
      <3> QED  BY <1>2, <2>1, <3>1
    <2>3. ASSUME NEW j \in 1..Len(bs), bs[j].sym = s
          PROVE  i + 1 <= j
      <3>1. j # 1  BY <1>1, <1>6, <2>3
      <3>2. j - 1 \in 1..Len(al) /\ bs[j] = al[j - 1]  BY <1>3, <3>1
      <3>3. i <= j - 1  BY <2>1, <2>3, <3>2
      <3> QED  BY <1>1, <2>1, <3>3
    <2>4. AttrAt(bs, s) = i + 1
      <3>1. bs[i + 1].sym = s  BY <2>1, <2>2
      <3> QED  BY <1>1, <2>2, <2>3, <3>1, AttrAtIs
    <2>5. i + 1 # 0 /\ i # 0  BY <2>1
    <2> QED  BY <1>6, <2>2, <2>4, <2>5 DEF ValueOf, bs, i
  <1> QED  BY <1>4, <1>5, <1>6

\* ... and a value written to the first one of a symbol is found there.
Stored(al, t, val) == [al EXCEPT ![AttrAt(al, t)].value = val]

\* The overwritten list has the same symbols, and only one value is new.
LEMMA ValueStore ==
  ASSUME NEW al \in Seq(AttrRec), NEW t, NEW val \in Nat, AttrAt(al, t) # 0
  PROVE  /\ Stored(al, t, val) \in Seq(AttrRec) /\ Len(Stored(al, t, val)) = Len(al)
         /\ \A j \in 1..Len(al) : Stored(al, t, val)[j].sym = al[j].sym
         /\ \A s : ValueOf(Stored(al, t, val), s) = IF s = t THEN val ELSE ValueOf(al, s)
  <1> DEFINE i == AttrAt(al, t)
             rec == [al[i] EXCEPT !.value = val]
             bs == [al EXCEPT ![i] = rec]
  <1>1. i \in 1..Len(al) /\ al[i].sym = t  BY AttrAtFirst
  <1> HIDE DEF i
  <1>2. \A j \in 1..Len(al) : al[j] \in AttrRec  OBVIOUS
  <1>r. rec \in AttrRec /\ rec.value = val /\ rec.sym = t  BY <1>1, <1>2 DEF AttrRec
  <1>b. bs = Stored(al, t, val)  BY DEF i, Stored
  <1> HIDE DEF rec
  <1>3. bs \in Seq(AttrRec) /\ Len(bs) = Len(al)  BY <1>1, <1>r
  <1>4. /\ bs[i].value = val /\ bs[i].sym = t
        /\ \A j \in 1..Len(al) : j # i => bs[j] = al[j]
    BY <1>1, <1>r
  <1>5. \A j \in 1..Len(al) : bs[j].sym = al[j].sym  BY <1>1, <1>4
  <1> HIDE DEF bs
  <1> SUFFICES ASSUME NEW s
               PROVE  ValueOf(bs, s) = IF s = t THEN val ELSE ValueOf(al, s)
    BY <1>b, <1>3, <1>5
  <1>6. AttrAt(bs, s) = AttrAt(al, s)
    <2>1. CASE AttrAt(al, s) = 0
      <3>1. \A j \in 1..Len(bs) : bs[j].sym # s  BY <1>3, <1>5, <2>1, AttrAtFirst
      <3> QED  BY <1>3, <2>1, <3>1, AttrAtNone
    <2>2. CASE AttrAt(al, s) # 0
      <3> DEFINE k == AttrAt(al, s)
      <3>1. k \in 1..Len(al) /\ al[k].sym = s /\ \A j \in 1..Len(al) : al[j].sym = s => k <= j
        BY <2>2, AttrAtFirst
      <3> HIDE DEF k
      <3>2. k \in 1..Len(bs) /\ bs[k].sym = s  BY <1>3, <1>5, <3>1
      <3>3. \A j \in 1..Len(bs) : bs[j].sym = s => k <= j  BY <1>3, <1>5, <3>1
      <3>4. AttrAt(bs, s) = k  BY <1>3, <3>2, <3>3, AttrAtIs
      <3> QED  BY <3>4 DEF k
    <2> QED  BY <2>1, <2>2
  <1>7. CASE s = t
    <2>1. AttrAt(bs, s) = i /\ i # 0  BY <1>1, <1>6, <1>7 DEF i
    <2>2. ValueOf(bs, s) = val  BY <1>4, <2>1 DEF ValueOf
    <2> QED  BY <1>7, <2>2
  <1>8. CASE s # t
    <2>1. CASE AttrAt(al, s) = 0
      <3>1. ValueOf(bs, s) = ValueOf(al, s)  BY <1>6, <2>1 DEF ValueOf
      <3> QED  BY <1>8, <3>1
    <2>2. CASE AttrAt(al, s) # 0
      <3>1. AttrAt(al, s) \in 1..Len(al) /\ al[AttrAt(al, s)].sym = s  BY <2>2, AttrAtFirst
      <3>2. AttrAt(al, s) # i  BY <1>1, <1>8, <3>1
      <3>3. ValueOf(bs, s) = ValueOf(al, s)  BY <1>4, <1>6, <3>1, <3>2 DEF ValueOf
      <3> QED  BY <1>8, <3>3
    <2> QED  BY <2>1, <2>2
  <1> QED  BY <1>7, <1>8

\* The same for the symbol table.
EntryAt(ss, str) == SelectInSeq(ss, LAMBDA s : s.str = str)

\* The search returns the first entry with the string, or 0.
LEMMA EntryAtFirst ==
  ASSUME NEW ss \in Seq(EntryRec), NEW str
  PROVE  /\ EntryAt(ss, str) \in 0..Len(ss)
         /\ EntryAt(ss, str) # 0 => ss[EntryAt(ss, str)].str = str
         /\ \A j \in 1..Len(ss) : ss[j].str = str => EntryAt(ss, str) # 0 /\ EntryAt(ss, str) <= j
  <1> DEFINE I == {i \in 1..Len(ss) : ss[i].str = str}
  <1>1. EntryAt(ss, str) = IF I # {} THEN Min(I) ELSE 0  BY DEF EntryAt, SelectInSeq
  <1>2. I \in SUBSET Nat  OBVIOUS
  <1>3. CASE I = {}  BY <1>1, <1>3
  <1>4. CASE I # {}
    <2>1. EntryAt(ss, str) \in I /\ \A j \in I : EntryAt(ss, str) <= j
      <3> HIDE DEF I
      <3> QED  BY <1>1, <1>2, <1>4, Least
    <2> QED  BY <2>1
  <1> QED  BY <1>3, <1>4

\* Appending an entry for a new string leaves the places of the others.
LEMMA EntryAppend ==
  ASSUME NEW ss \in Seq(EntryRec), NEW x \in EntryRec, EntryAt(ss, x.str) = 0, NEW str
  PROVE  EntryAt(Append(ss, x), str) = IF str = x.str THEN Len(ss) + 1 ELSE EntryAt(ss, str)
  <1> DEFINE ts == Append(ss, x)
             n == Len(ss)
  <1>1. ts \in Seq(EntryRec) /\ Len(ts) = n + 1 /\ n \in Nat /\ ts[n + 1] = x
        /\ \A j \in 1..n : ts[j] = ss[j]
    OBVIOUS
  <1>2. \A j \in 1..Len(ts) : j \in 1..n \/ j = n + 1  BY <1>1
  <1>3. \A j \in 1..n : j \in 1..Len(ts) /\ n + 1 \in 1..Len(ts)  BY <1>1
  <1> DEFINE k == EntryAt(ss, str)
             l == EntryAt(ts, str)
  <1>4. /\ k \in 0..n /\ (k # 0 => ss[k].str = str)
        /\ \A j \in 1..n : ss[j].str = str => k # 0 /\ k <= j
    BY EntryAtFirst
  <1>5. /\ l \in 0..Len(ts) /\ (l # 0 => ts[l].str = str)
        /\ \A j \in 1..Len(ts) : ts[j].str = str => l # 0 /\ l <= j
    BY <1>1, EntryAtFirst
  <1> HIDE DEF ts, k, l
  <1>6. CASE str = x.str
    <2>1. \A j \in 1..n : ss[j].str # str  BY <1>6, EntryAtFirst
    <2>2. n + 1 \in 1..Len(ts)  BY <1>1
    <2>3. l # 0  BY <1>1, <1>5, <1>6, <2>2
    <2>4. l \in 1..Len(ts)  BY <1>1, <1>5, <2>3
    <2>5. l \notin 1..n  BY <1>1, <1>5, <2>1, <2>3
    <2>6. l = n + 1  BY <1>2, <2>4, <2>5
    <2> QED  BY <1>6, <2>6 DEF l, ts
  <1>7. CASE str # x.str /\ k = 0
    <2>1. \A j \in 1..Len(ts) : ts[j].str # str  BY <1>1, <1>2, <1>4, <1>7
    <2>2. l = 0
      <3> SUFFICES ASSUME l # 0 PROVE FALSE  OBVIOUS
      <3>1. l \in 1..Len(ts)  BY <1>1, <1>5
      <3> QED  BY <1>5, <2>1, <3>1
    <2> QED  BY <1>7, <2>2 DEF l, k, ts
  <1>8. CASE str # x.str /\ k # 0
    <2>1. k \in 1..n  BY <1>1, <1>4, <1>8
    <2>2. ts[k].str = str /\ k \in 1..Len(ts)  BY <1>1, <1>3, <1>4, <1>8, <2>1
    <2>3. l # 0 /\ l <= k  BY <1>5, <2>2
    <2>4. l \in 1..n  BY <1>1, <1>5, <2>1, <2>3
    <2>5. ss[l].str = str  BY <1>1, <1>5, <2>3, <2>4
    <2>6. k <= l  BY <1>4, <2>4, <2>5
    <2>7. k = l  BY <2>1, <2>3, <2>4, <2>6
    <2> QED  BY <1>8, <2>7 DEF l, k, ts
  <1> QED  BY <1>6, <1>7, <1>8

-----------------------------------------------------------------------------
(* The functions of the runtime.                                           *)

\* As a symbol is the number of its entry, sym() is the search itself.
LEMMA SymIsIndex ==
  ASSUME NEW e, EnvOK(e), NEW str
  PROVE  sym(e, str) = EntryAt(e.symbols, str) /\ sym(e, str) \in 0..Len(e.symbols)
  <1>1. e.symbols \in Seq(EntryRec)  BY DEF EnvOK, EnvRec
  <1>2. EntryAt(e.symbols, str) \in 0..Len(e.symbols)  BY <1>1, EntryAtFirst
  <1>3. sym(e, str) = IF EntryAt(e.symbols, str) = 0 THEN 0
                      ELSE e.symbols[EntryAt(e.symbols, str)].sym
    BY DEF sym, EntryAt
  <1>4. EntryAt(e.symbols, str) # 0 => EntryAt(e.symbols, str) \in 1..Len(e.symbols)  BY <1>2
  <1>5. EntryAt(e.symbols, str) # 0
          => e.symbols[EntryAt(e.symbols, str)].sym = EntryAt(e.symbols, str)
    BY <1>4 DEF EnvOK, SymbolsInv
  <1> QED  BY <1>2, <1>3, <1>5

\* Different names have different symbols.
LEMMA SymInjective ==
  ASSUME NEW e, EnvOK(e), NEW str, NEW name, sym(e, str) = sym(e, name), sym(e, str) # 0
  PROVE  str = name
  <1>1. e.symbols \in Seq(EntryRec)  BY DEF EnvOK, EnvRec
  <1>2. /\ EntryAt(e.symbols, str) # 0 /\ EntryAt(e.symbols, name) # 0
        /\ EntryAt(e.symbols, str) = EntryAt(e.symbols, name)
    BY SymIsIndex
  <1>3. /\ e.symbols[EntryAt(e.symbols, str)].str = str
        /\ e.symbols[EntryAt(e.symbols, name)].str = name
    BY <1>1, <1>2, EntryAtFirst
  <1> QED  BY <1>2, <1>3

\* pup_iv_get() is the search for the symbol of the name.
LEMMA GetIsValue ==
  ASSUME NEW e, NEW o, NEW str
  PROVE  pup_iv_get(e, o, str) = ValueOf(e.heap[o].attrs, sym(e, str))
  BY DEF pup_iv_get, ValueOf, AttrAt

\* The environment e has become f by steps that store nothing in an attribute:
\* what was there is found as before, new objects have nothing, and no
\* well-known object is lost.
Keeps(e, f) ==
  /\ EnvOK(f)
  /\ Len(f.heap) \in Nat /\ Len(e.heap) \in Nat /\ Len(e.heap) <= Len(f.heap)
  /\ \A o \in 1..Len(f.heap) : \A str \in Names :
       pup_iv_get(f, o, str) = IF o <= Len(e.heap) THEN pup_iv_get(e, o, str) ELSE Null
  /\ \A x \in Fields : e.at[x] # 0 => f.at[x] # 0

\* Such steps can follow each other.
LEMMA KeepsTrans ==
  ASSUME NEW e, NEW f, NEW g, Keeps(e, f), Keeps(f, g)
  PROVE  Keeps(e, g)
  <1>1. /\ EnvOK(g) /\ Len(g.heap) \in Nat /\ Len(f.heap) \in Nat /\ Len(e.heap) \in Nat
        /\ Len(e.heap) <= Len(f.heap) /\ Len(f.heap) <= Len(g.heap)
    BY DEF Keeps
  <1>2. ASSUME NEW o \in 1..Len(g.heap), NEW str \in Names
        PROVE  pup_iv_get(g, o, str) = IF o <= Len(e.heap) THEN pup_iv_get(e, o, str) ELSE Null
    <2>1. pup_iv_get(g, o, str) = IF o <= Len(f.heap) THEN pup_iv_get(f, o, str) ELSE Null
      BY DEF Keeps
    <2>2. CASE o <= Len(f.heap)
      <3>1. o \in 1..Len(f.heap)  BY <1>1, <2>2
      <3> QED  BY <2>1, <2>2, <3>1 DEF Keeps
    <2>3. CASE ~(o <= Len(f.heap))
      <3>1. ~(o <= Len(e.heap))  BY <1>1, <2>3
      <3> QED  BY <2>1, <2>3, <3>1
    <2> QED  BY <2>2, <2>3
  <1> QED  BY <1>1, <1>2 DEF Keeps

\* Interning a name.
LEMMA InternKeeps ==
  ASSUME NEW e, EnvOK(e), NEW str \in Names
  PROVE  LET f == pup_str_to_sym(e, str)
         IN  /\ Keeps(e, f) /\ f.heap = e.heap /\ f.at = e.at
             /\ sym(f, str) # 0
  <1> DEFINE f == pup_str_to_sym(e, str)
             ss == e.symbols
             n == Len(ss)
             x == [sym |-> e.next_sym, str |-> str]
  <1>1. /\ e \in EnvRec /\ ss \in Seq(EntryRec) /\ n \in Nat /\ e.heap \in Seq(ObjectRec)
        /\ Len(e.heap) \in Nat /\ e.next_sym = n + 1
    BY DEF EnvOK, EnvRec, SymbolsInv
  <1>2. CASE \E i \in DOMAIN ss : ss[i].str = str
    <2>1. f = e  BY <1>2 DEF pup_str_to_sym
    <2>2. PICK i \in 1..n : ss[i].str = str  BY <1>1, <1>2
    <2>3. sym(e, str) # 0
      <3>1. EntryAt(ss, str) # 0  BY <1>1, <2>2, EntryAtFirst
      <3> QED  BY <3>1, SymIsIndex
    <2>4. Keeps(e, e)  BY <1>1 DEF Keeps
    <2> QED  BY <2>1, <2>3, <2>4
  <1>3. CASE ~ \E i \in DOMAIN ss : ss[i].str = str
    <2>1. f = [e EXCEPT !.symbols = Append(@, x), !.next_sym = @ + 1]
      BY <1>3 DEF pup_str_to_sym
    <2>2. /\ f \in EnvRec /\ f.symbols = Append(ss, x) /\ f.next_sym = n + 1 + 1
          /\ f.heap = e.heap /\ f.at = e.at /\ x \in EntryRec
      <3>1. x \in EntryRec  BY <1>1 DEF EntryRec
      <3>2. Append(ss, x) \in Seq(EntryRec)  BY <1>1, <3>1
      <3>3. e.heap \in Seq(ObjectRec) /\ e.at \in [Fields -> Nat] /\ e.next_sym + 1 \in Nat
        BY <1>1 DEF EnvRec
      <3> HIDE DEF x
      <3>4. f = [symbols |-> Append(ss, x), next_sym |-> e.next_sym + 1, heap |-> e.heap, at |-> e.at]
        BY <1>1, <2>1 DEF EnvRec
      <3> HIDE DEF f
      <3>5. f.symbols = Append(ss, x) /\ f.next_sym = n + 1 + 1 /\ f.heap = e.heap /\ f.at = e.at
        BY <1>1, <3>4
      <3>6. f \in EnvRec  BY <3>2, <3>3, <3>4 DEF EnvRec
      <3> QED  BY <3>1, <3>5, <3>6
    <2> HIDE DEF f
    <2>3. /\ Len(Append(ss, x)) = n + 1 /\ Append(ss, x)[n + 1] = x
          /\ \A i \in 1..n : Append(ss, x)[i] = ss[i]
      <3> HIDE DEF x
      <3> QED  BY <1>1, <2>2
    <2>4. SymbolsInv(f)
      <3>1. \A i \in 1..n : ss[i].sym = i  BY DEF EnvOK, SymbolsInv
      <3>2. \A i \in 1..n + 1 : i \in 1..n \/ i = n + 1  BY <1>1
      <3>3. x.sym = n + 1  BY <1>1
      <3> HIDE DEF x
      <3>4. \A i \in 1..n + 1 : Append(ss, x)[i].sym = i  BY <2>3, <3>1, <3>2, <3>3
      <3> QED  BY <1>1, <2>2, <2>3, <3>4 DEF SymbolsInv
    <2>5. AttrsInv(f)
      <3>1. \A y \in 1..n : y \in 1..Len(f.symbols)  BY <1>1, <2>2, <2>3
      <3> QED  BY <2>2, <3>1 DEF EnvOK, AttrsInv
    <2>6. PointersInv(f)  BY <2>2 DEF EnvOK, PointersInv
    <2>7. EnvOK(f)  BY <2>2, <2>4, <2>5, <2>6 DEF EnvOK
    <2>8. EntryAt(ss, str) = 0
      <3> SUFFICES ASSUME EntryAt(ss, str) # 0 PROVE FALSE  OBVIOUS
      <3>1. EntryAt(ss, str) \in 1..n /\ ss[EntryAt(ss, str)].str = str  BY <1>1, EntryAtFirst
      <3>2. DOMAIN ss = 1..n  BY <1>1
      <3> QED  BY <1>3, <3>1, <3>2
    <2>9. x.str = str  OBVIOUS
    <2>10. \A z : EntryAt(f.symbols, z) = IF z = str THEN n + 1 ELSE EntryAt(ss, z)
      <3> HIDE DEF x
      <3> QED  BY <1>1, <2>2, <2>8, <2>9, EntryAppend
    <2>11. \A z : sym(f, z) = IF z = str THEN n + 1 ELSE sym(e, z)  BY <2>7, <2>10, SymIsIndex
    <2>12. ASSUME NEW o \in 1..Len(e.heap), NEW z \in Names
           PROVE  pup_iv_get(f, o, z) = pup_iv_get(e, o, z)
      <3> DEFINE al == e.heap[o].attrs
      <3>1. al \in Seq(AttrRec) /\ \A i \in 1..Len(al) : al[i].sym \in 1..n
        <4>1. e.heap[o] \in ObjectRec  BY <1>1
        <4> QED  BY <4>1 DEF ObjectRec, EnvOK, AttrsInv
      <3> HIDE DEF al
      <3>2. pup_iv_get(f, o, z) = ValueOf(al, sym(f, z)) /\ pup_iv_get(e, o, z) = ValueOf(al, sym(e, z))
        BY <2>2, GetIsValue DEF al
      <3>3. CASE z # str  BY <2>11, <3>2, <3>3
      <3>4. CASE z = str
        <4>1. sym(f, z) = n + 1 /\ sym(e, z) = 0  BY <2>8, <2>11, <3>4, SymIsIndex
        <4>2. \A i \in 1..Len(al) : al[i].sym # n + 1 /\ al[i].sym # 0  BY <1>1, <3>1
        <4>3. AttrAt(al, n + 1) = 0 /\ AttrAt(al, 0) = 0  BY <3>1, <4>2, AttrAtNone
        <4> QED  BY <3>2, <4>1, <4>3 DEF ValueOf
      <3> QED  BY <3>3, <3>4
    <2>13. Keeps(e, f)
      <3>1. \A o \in 1..Len(e.heap) : o <= Len(e.heap)  BY <1>1
      <3> QED  BY <1>1, <2>2, <2>7, <2>12, <3>1 DEF Keeps
    <2>14. sym(f, str) # 0  BY <1>1, <2>11
    <2> QED  BY <2>2, <2>13, <2>14 DEF f
  <1> QED  BY <1>2, <1>3

\* A step that changes the heap but no attribute list, and adds objects without
\* attributes, keeps what is found.
LEMMA SameAttrsKeeps ==
  ASSUME NEW e, EnvOK(e), NEW f, EnvOK(f), f.symbols = e.symbols,
         Len(e.heap) <= Len(f.heap),
         \A o \in 1..Len(e.heap) : f.heap[o].attrs = e.heap[o].attrs,
         \A o \in 1..Len(f.heap) : o > Len(e.heap) => f.heap[o].attrs = <<>>,
         \A x \in Fields : e.at[x] # 0 => f.at[x] # 0
  PROVE  Keeps(e, f)
  <1>1. Len(f.heap) \in Nat /\ Len(e.heap) \in Nat  BY DEF EnvOK, EnvRec
  <1>2. \A z : sym(f, z) = sym(e, z)  BY SymIsIndex
  <1>3. ASSUME NEW o \in 1..Len(f.heap), NEW z \in Names
        PROVE  pup_iv_get(f, o, z) = IF o <= Len(e.heap) THEN pup_iv_get(e, o, z) ELSE Null
    <2>1. CASE o <= Len(e.heap)
      <3>1. o \in 1..Len(e.heap)  BY <1>1, <2>1
      <3>2. f.heap[o].attrs = e.heap[o].attrs  BY <3>1
      <3> QED  BY <1>2, <2>1, <3>2, GetIsValue
    <2>2. CASE ~(o <= Len(e.heap))
      <3>1. f.heap[o].attrs = <<>>  BY <1>1, <2>2
      <3>2. <<>> \in Seq(AttrRec) /\ \A j \in 1..Len(<<>>) : <<>>[j].sym # sym(f, z)  OBVIOUS
      <3>3. AttrAt(<<>>, sym(f, z)) = 0  BY <3>2, AttrAtNone
      <3>4. pup_iv_get(f, o, z) = ValueOf(<<>>, sym(f, z))  BY <3>1, GetIsValue
      <3> QED  BY <2>2, <3>3, <3>4 DEF ValueOf
    <2> QED  BY <2>1, <2>2
  <1> QED  BY <1>1, <1>3 DEF Keeps

\* Replacing the heap leaves the rest of the environment.
LEMMA WithHeap ==
  ASSUME NEW e \in EnvRec, NEW hp \in Seq(ObjectRec)
  PROVE  LET f == [e EXCEPT !.heap = hp]
         IN  /\ f \in EnvRec /\ f.heap = hp /\ f.symbols = e.symbols
             /\ f.next_sym = e.next_sym /\ f.at = e.at
  <1> DEFINE f == [e EXCEPT !.heap = hp]
  <1>1. e.symbols \in Seq(EntryRec) /\ e.next_sym \in Nat /\ e.at \in [Fields -> Nat]
    BY DEF EnvRec
  <1>2. f = [symbols |-> e.symbols, next_sym |-> e.next_sym, heap |-> hp, at |-> e.at]
    BY DEF EnvRec
  <1> HIDE DEF f
  <1>3. f.heap = hp /\ f.symbols = e.symbols /\ f.next_sym = e.next_sym /\ f.at = e.at  BY <1>2
  <1>4. f \in EnvRec  BY <1>1, <1>2 DEF EnvRec
  <1> QED  BY <1>3, <1>4 DEF f

\* A new object without attributes.
LEMMA AppendKeeps ==
  ASSUME NEW e, EnvOK(e), NEW rec \in ObjectRec, rec.attrs = <<>>, rec.type <= Len(e.heap)
  PROVE  LET f == [e EXCEPT !.heap = Append(@, rec)]
         IN  Keeps(e, f) /\ f.at = e.at /\ Len(f.heap) = Len(e.heap) + 1
  <1> DEFINE f == [e EXCEPT !.heap = Append(@, rec)]
             hp == Append(e.heap, rec)
             n == Len(e.heap)
  <1>1. e \in EnvRec /\ e.heap \in Seq(ObjectRec) /\ n \in Nat /\ rec.type \in Nat
    BY DEF EnvOK, EnvRec, ObjectRec
  <1>2. /\ hp \in Seq(ObjectRec) /\ Len(hp) = n + 1 /\ hp[n + 1] = rec
        /\ \A o \in 1..n : hp[o] = e.heap[o]
    BY <1>1
  <1>3. f = [e EXCEPT !.heap = hp]  OBVIOUS
  <1> HIDE DEF f, hp
  <1>4. /\ f \in EnvRec /\ f.heap = hp /\ f.symbols = e.symbols
        /\ f.next_sym = e.next_sym /\ f.at = e.at
    BY <1>1, <1>2, <1>3, WithHeap
  <1>5. \A o \in 1..n + 1 : o \in 1..n \/ o = n + 1  BY <1>1
  <1>6. AttrsInv(f)
    <2> SUFFICES ASSUME NEW o \in 1..n + 1, NEW i \in 1..Len(hp[o].attrs)
                 PROVE  hp[o].attrs[i].sym \in 1..Len(e.symbols)
      BY <1>2, <1>4 DEF AttrsInv
    <2>1. o # n + 1  BY <1>2
    <2>2. o \in 1..n /\ hp[o] = e.heap[o]  BY <1>2, <1>5, <2>1
    <2> QED  BY <2>2 DEF EnvOK, AttrsInv
  <1>7. PointersInv(f)
    <2>1. \A o \in 1..n : e.heap[o] \in ObjectRec /\ e.heap[o].type <= n
      BY <1>1 DEF EnvOK, PointersInv
    <2>2. ASSUME NEW o \in 1..n
          PROVE  e.heap[o].type <= n + 1
      <3> DEFINE t == e.heap[o].type
      <3>1. e.heap[o] \in ObjectRec /\ t <= n  BY <2>1
      <3>2. t \in Nat  BY <3>1 DEF ObjectRec
      <3> HIDE DEF t
      <3>3. t <= n + 1  BY <1>1, <3>1, <3>2
      <3> QED  BY <3>3 DEF t
    <2>3. rec.type <= n + 1  BY <1>1
    <2>4. \A o \in 1..n + 1 : hp[o].type <= n + 1  BY <1>2, <1>5, <2>2, <2>3
    <2>5. \A x \in Fields : e.at[x] \in Nat /\ e.at[x] <= n  BY <1>1 DEF EnvRec, EnvOK, PointersInv
    <2>6. \A x \in Fields : e.at[x] <= n + 1  BY <1>1, <2>5
    <2> QED  BY <1>2, <1>4, <2>4, <2>6 DEF PointersInv
  <1>8. EnvOK(f)  BY <1>4, <1>6, <1>7 DEF EnvOK, SymbolsInv
  <1>9. Keeps(e, f)
    <2>1. Len(e.heap) <= Len(f.heap)  BY <1>1, <1>2, <1>4
    <2>2. \A o \in 1..Len(e.heap) : f.heap[o].attrs = e.heap[o].attrs  BY <1>2, <1>4
    <2>3. \A o \in 1..Len(f.heap) : o > Len(e.heap) => f.heap[o].attrs = <<>>
      BY <1>1, <1>2, <1>4, <1>5
    <2> QED  BY <1>4, <1>8, <2>1, <2>2, <2>3, SameAttrsKeeps
  <1> QED  BY <1>2, <1>4, <1>9 DEF f

\* A change to an object that leaves its type and attributes.
LEMMA ChangeKeeps ==
  ASSUME NEW e, EnvOK(e), NEW c \in 1..Len(e.heap), NEW rec \in ObjectRec,
         rec.attrs = e.heap[c].attrs, rec.type = e.heap[c].type
  PROVE  LET f == [e EXCEPT !.heap[c] = rec]
         IN  Keeps(e, f) /\ f.at = e.at /\ Len(f.heap) = Len(e.heap)
  <1> DEFINE f == [e EXCEPT !.heap[c] = rec]
             hp == [e.heap EXCEPT ![c] = rec]
             n == Len(e.heap)
  <1>1. e \in EnvRec /\ e.heap \in Seq(ObjectRec) /\ n \in Nat  BY DEF EnvOK, EnvRec
  <1>2. /\ hp \in Seq(ObjectRec) /\ Len(hp) = n
        /\ \A o \in 1..n : hp[o].attrs = e.heap[o].attrs /\ hp[o].type = e.heap[o].type
    BY <1>1
  <1>3. f = [e EXCEPT !.heap = hp]  OBVIOUS
  <1> HIDE DEF f, hp
  <1>4. /\ f \in EnvRec /\ f.heap = hp /\ f.symbols = e.symbols
        /\ f.next_sym = e.next_sym /\ f.at = e.at
    BY <1>1, <1>2, <1>3, WithHeap
  <1>5. EnvOK(f)  BY <1>2, <1>4 DEF EnvOK, SymbolsInv, AttrsInv, PointersInv
  <1>6. Keeps(e, f)
    <2>1. \A o \in 1..Len(f.heap) : ~(o > Len(e.heap))  BY <1>1, <1>2, <1>4
    <2>2. Len(e.heap) <= Len(f.heap)  BY <1>1, <1>2, <1>4
    <2> QED  BY <1>2, <1>4, <1>5, <2>1, <2>2, SameAttrsKeeps
  <1> QED  BY <1>2, <1>4, <1>6 DEF f

\* Setting a field of struct RuntimeEnv to the newest object.
LEMMA SetFieldKeeps ==
  ASSUME NEW e, EnvOK(e), NEW field \in Fields, Len(e.heap) # 0
  PROVE  /\ Keeps(e, SetField(e, field)) /\ SetField(e, field).heap = e.heap
         /\ SetField(e, field).at[field] # 0
  <1> DEFINE f == SetField(e, field)
             at == [e.at EXCEPT ![field] = Len(e.heap)]
  <1>1. /\ e \in EnvRec /\ e.heap \in Seq(ObjectRec) /\ Len(e.heap) \in Nat
        /\ e.symbols \in Seq(EntryRec) /\ e.next_sym \in Nat /\ e.at \in [Fields -> Nat]
    BY DEF EnvOK, EnvRec
  <1>2. at \in [Fields -> Nat]  BY <1>1
  <1>3. f = [symbols |-> e.symbols, next_sym |-> e.next_sym, heap |-> e.heap, at |-> at]
    <2>1. f = [e EXCEPT !.at = at]  BY DEF SetField, last
    <2> HIDE DEF f, at
    <2> QED  BY <1>1, <2>1 DEF EnvRec
  <1>4. \A x \in Fields : at[x] <= Len(e.heap)  BY <1>1 DEF EnvOK, PointersInv
  <1>9. at[field] # 0 /\ \A x \in Fields : e.at[x] # 0 => at[x] # 0  BY <1>1
  <1> HIDE DEF f, at
  <1>5. f.symbols = e.symbols /\ f.next_sym = e.next_sym /\ f.heap = e.heap /\ f.at = at  BY <1>3
  <1>6. f \in EnvRec  BY <1>1, <1>2, <1>3 DEF EnvRec
  <1>7. EnvOK(f)  BY <1>4, <1>5, <1>6 DEF EnvOK, SymbolsInv, AttrsInv, PointersInv
  <1>8. Keeps(e, f)
    <2>1. Len(e.heap) <= Len(f.heap) /\ \A o \in 1..Len(f.heap) : ~(o > Len(e.heap))
      BY <1>1, <1>5
    <2> QED  BY <1>5, <1>7, <1>9, <2>1, SameAttrsKeeps
  <1> QED  BY <1>5, <1>8, <1>9 DEF f

\* A new object is an object record without attributes.
LEMMA ObjectType ==
  ASSUME NEW type \in Nat
  PROVE  /\ Object(type) \in ObjectRec /\ Object(type).attrs = <<>> /\ Object(type).type = type
         /\ Object(type) = [type |-> type, attrs |-> <<>>, methods |-> <<>>,
              superclass |-> 0, scope |-> 0, allocate |-> "none"]
  <1>1. Object(type) = [type |-> type, attrs |-> <<>>, methods |-> <<>>,
              superclass |-> 0, scope |-> 0, allocate |-> "none"]
    BY DEF Object, Null
  <1>2. <<>> \in Seq(AttrRec)  OBVIOUS
  <1>3. <<>> \in Seq(MethodRec)  OBVIOUS
  <1>4. "none" \in Allocators  BY DEF Allocators
  <1> QED  BY <1>1, <1>2, <1>3, <1>4 DEF ObjectRec

\* Allocating an object, ...
LEMMA NewObjKeeps ==
  ASSUME NEW e, EnvOK(e), NEW type \in Nat, type <= Len(e.heap)
  PROVE  Keeps(e, new_obj(e, type)) /\ last(new_obj(e, type)) = last(e) + 1
  <1>1. Object(type) \in ObjectRec /\ Object(type).attrs = <<>> /\ Object(type).type = type
    BY ObjectType
  <1> QED  BY <1>1, AppendKeeps DEF new_obj, last

\* ... or a class, ...
LEMMA NewClassKeeps ==
  ASSUME NEW e, EnvOK(e), NEW type \in Nat, type <= Len(e.heap)
  PROVE  /\ Keeps(e, new_class(e, type)) /\ last(new_class(e, type)) = last(e) + 1
         /\ new_class(e, type).at = e.at
  <1> DEFINE rec == [Object(type) EXCEPT !.allocate = "unset"]
  <1>1. rec \in ObjectRec /\ rec.attrs = <<>> /\ rec.type = type
    <2>1. rec = [type |-> type, attrs |-> <<>>, methods |-> <<>>,
              superclass |-> 0, scope |-> 0, allocate |-> "unset"]
      BY ObjectType
    <2>2. <<>> \in Seq(AttrRec)  OBVIOUS
    <2>3. <<>> \in Seq(MethodRec)  OBVIOUS
    <2>4. "unset" \in Allocators  BY DEF Allocators
    <2> HIDE DEF rec
    <2> QED  BY <2>1, <2>2, <2>3, <2>4 DEF ObjectRec
  <1>2. new_class(e, type) = [e EXCEPT !.heap = Append(@, rec)]  BY DEF new_class
  <1> HIDE DEF rec
  <1> QED  BY <1>1, <1>2, AppendKeeps DEF last

\* ... initialising a class, ...
LEMMA ClassInitKeeps ==
  ASSUME NEW e, EnvOK(e), NEW c \in 1..Len(e.heap), NEW super \in Nat, NEW scope \in Nat,
         NEW allocate \in Allocators
  PROVE  LET f == class_init(e, c, super, scope, allocate)
         IN  Keeps(e, f) /\ f.at = e.at /\ Len(f.heap) = Len(e.heap)
  <1> DEFINE f == class_init(e, c, super, scope, allocate)
             h == e.heap[c]
             h1 == [h EXCEPT !.superclass = super]
             h2 == [h1 EXCEPT !.methods = <<>>]
             h3 == [h2 EXCEPT !.scope = scope]
             rec == [h3 EXCEPT !.allocate = allocate]
             Same(x) == x \in ObjectRec /\ x.attrs = h.attrs /\ x.type = h.type
  <1>1. e \in EnvRec /\ e.heap \in Seq(ObjectRec) /\ Len(e.heap) \in Nat  BY DEF EnvOK, EnvRec
  <1>4. f = [e EXCEPT !.heap[c] = rec]  BY DEF class_init
  <1>2. h \in ObjectRec  BY <1>1
  <1> HIDE DEF f, h
  <1>5. Same(h1)  BY <1>2 DEF ObjectRec
  <1> HIDE DEF h1
  <1>6. Same(h2)
    <2>1. <<>> \in Seq(MethodRec)  OBVIOUS
    <2> QED  BY <1>5, <2>1 DEF ObjectRec
  <1> HIDE DEF h2
  <1>7. Same(h3)  BY <1>6 DEF ObjectRec
  <1> HIDE DEF h3
  <1>3. Same(rec)  BY <1>7 DEF ObjectRec
  <1> HIDE DEF rec, h, f
  <1> QED  BY <1>3, <1>4, ChangeKeeps DEF h, f

\* ... and defining a method store no attribute.
LEMMA DefineMethodKeeps ==
  ASSUME NEW e, EnvOK(e), NEW c \in 1..Len(e.heap), NEW str \in Names,
         NEW method \in MethodValues
  PROVE  Keeps(e, pup_define_method(e, c, str, method))
  <1> DEFINE e1 == pup_str_to_sym(e, str)
             h == e1.heap[c]
             r == [sym |-> sym(e1, str), method |-> method]
             rec == [h EXCEPT !.methods = Append(@, r)]
             f == [e1 EXCEPT !.heap[c] = rec]
  <1>1. Keeps(e, e1) /\ e1.heap = e.heap  BY InternKeeps
  <1>2. EnvOK(e1)  BY <1>1 DEF Keeps
  <1>3. pup_define_method(e, c, str, method) = f  BY DEF pup_define_method
  <1> HIDE DEF e1
  <1>4. h \in ObjectRec  BY <1>1, <1>2 DEF EnvOK, EnvRec
  <1>5. r \in MethodRec
    <2>1. sym(e1, str) \in Nat
      <3>1. Len(e1.symbols) \in Nat  BY <1>2 DEF EnvOK, EnvRec
      <3> QED  BY <1>2, <3>1, SymIsIndex
    <2> QED  BY <2>1 DEF MethodRec
  <1> HIDE DEF r, h
  <1>6. rec \in ObjectRec /\ rec.attrs = h.attrs /\ rec.type = h.type
    <2> DEFINE ms == Append(h.methods, r)
    <2>1. h.methods \in Seq(MethodRec)  BY <1>4 DEF ObjectRec
    <2>2. ms \in Seq(MethodRec)  BY <1>5, <2>1
    <2>3. rec = [h EXCEPT !.methods = ms]  OBVIOUS
    <2> HIDE DEF rec, ms
    <2> QED  BY <1>4, <2>2, <2>3 DEF ObjectRec
  <1> HIDE DEF rec
  <1>7. Keeps(e1, f)  BY <1>1, <1>2, <1>6, ChangeKeeps DEF h
  <1> QED  BY <1>1, <1>3, <1>7, KeepsTrans

-----------------------------------------------------------------------------
(* pup_iv_set().                                                           *)

\* The environment e has become f by a store of val in attribute str of obj.
Stores(e, f, obj, str, val) ==
  /\ EnvOK(f)
  /\ Len(f.heap) = Len(e.heap) /\ f.at = e.at
  /\ \A o \in 1..Len(f.heap) : \A z \in Names :
       pup_iv_get(f, o, z) = IF o = obj /\ z = str THEN val ELSE pup_iv_get(e, o, z)

\* pup_iv_set() stores under one name of one object and nowhere else, whether the
\* name is new to the symbol table, new to the object, or neither.
LEMMA SetStores ==
  ASSUME NEW e, EnvOK(e), NEW obj \in 1..Len(e.heap), NEW str \in Names, NEW val \in Nat
  PROVE  Stores(e, pup_iv_set(e, obj, str, val), obj, str, val)
  <1> DEFINE e1 == pup_str_to_sym(e, str)
             h == e1.heap[obj]
             al == h.attrs
             s == sym(e1, str)
             i == AttrAt(al, s)
             bl == IF i # 0 THEN [al EXCEPT ![i].value = val]
                   ELSE <<[sym |-> s, value |-> val]>> \o al
             rec == [h EXCEPT !.attrs = bl]
             hp == [e1.heap EXCEPT ![obj] = rec]
             f == [e1 EXCEPT !.heap = hp]
             g == pup_iv_set(e, obj, str, val)
  <1>1. Keeps(e, e1) /\ e1.heap = e.heap /\ e1.at = e.at /\ s # 0  BY InternKeeps
  <1>2. EnvOK(e1) /\ e1 \in EnvRec  BY <1>1 DEF Keeps, EnvOK
  <1>3. g = f
    <2>1. CASE i # 0  BY <2>1 DEF pup_iv_set, AttrAt
    <2>2. CASE i = 0  BY <2>2 DEF pup_iv_set, AttrAt
    <2> QED  BY <2>1, <2>2
  <1> HIDE DEF e1, f, g
  <1>4. /\ e1.heap \in Seq(ObjectRec) /\ Len(e1.heap) \in Nat /\ obj \in 1..Len(e1.heap)
        /\ Len(e1.symbols) \in Nat
    BY <1>1, <1>2 DEF EnvRec
  <1>5. h \in ObjectRec  BY <1>4
  <1>6. al \in Seq(AttrRec) /\ \A j \in 1..Len(al) : al[j].sym \in 1..Len(e1.symbols)
    BY <1>2, <1>4, <1>5 DEF ObjectRec, EnvOK, AttrsInv
  <1>7. s \in 1..Len(e1.symbols) /\ s \in Nat
    <2>1. s \in 0..Len(e1.symbols)  BY <1>2, SymIsIndex
    <2> QED  BY <1>1, <1>4, <2>1
  <1> HIDE DEF s
  <1>8. /\ bl \in Seq(AttrRec) /\ \A j \in 1..Len(bl) : bl[j].sym \in 1..Len(e1.symbols)
        /\ \A t : ValueOf(bl, t) = IF t = s THEN val ELSE ValueOf(al, t)
    <2> HIDE DEF al
    <2>1. CASE i # 0
      <3>1. bl = Stored(al, s, val)  BY <2>1 DEF Stored
      <3>2. al \in Seq(AttrRec) /\ AttrAt(al, s) # 0  BY <1>6, <2>1
      <3> HIDE DEF bl, i
      <3>3. /\ bl \in Seq(AttrRec) /\ Len(bl) = Len(al)
            /\ \A j \in 1..Len(al) : bl[j].sym = al[j].sym
            /\ \A t : ValueOf(bl, t) = IF t = s THEN val ELSE ValueOf(al, t)
        BY <3>1, <3>2, ValueStore
      <3> QED  BY <1>6, <3>3
    <2>2. CASE i = 0
      <3> DEFINE a == [sym |-> s, value |-> val]
      <3>1. a \in AttrRec /\ a.sym = s /\ a.value = val  BY <1>7 DEF AttrRec
      <3>2. bl = <<a>> \o al  BY <2>2
      <3> HIDE DEF a, bl
      <3>3. \A t : ValueOf(bl, t) = IF t = s THEN val ELSE ValueOf(al, t)
        BY <1>6, <3>1, <3>2, ValueCons
      <3>4. bl \in Seq(AttrRec) /\ Len(bl) = Len(al) + 1 /\ Len(al) \in Nat /\ bl[1] = a
        BY <1>6, <3>1, <3>2
      <3>5. ASSUME NEW j \in 1..Len(bl)
            PROVE  bl[j].sym \in 1..Len(e1.symbols)
        <4>1. CASE j = 1  BY <1>7, <3>1, <3>4, <4>1
        <4>2. CASE j # 1
          <5>1. j - 1 \in 1..Len(al)  BY <3>4, <4>2
          <5>2. bl[j] = al[j - 1]  BY <1>6, <3>1, <3>2, <3>4, <4>2, <5>1
          <5> QED  BY <1>6, <5>1, <5>2
        <4> QED  BY <4>1, <4>2
      <3> QED  BY <3>3, <3>4, <3>5
    <2> QED  BY <2>1, <2>2
  <1> HIDE DEF bl, al, i
  <1>9. rec \in ObjectRec /\ rec.attrs = bl /\ rec.type = h.type  BY <1>5, <1>8 DEF ObjectRec
  <1> HIDE DEF rec
  <1>10. /\ hp \in Seq(ObjectRec) /\ Len(hp) = Len(e1.heap) /\ hp[obj] = rec
         /\ \A o \in 1..Len(e1.heap) : o # obj => hp[o] = e1.heap[o]
    BY <1>4, <1>9
  <1> HIDE DEF hp
  <1>11. /\ f \in EnvRec /\ f.heap = hp /\ f.symbols = e1.symbols
         /\ f.next_sym = e1.next_sym /\ f.at = e1.at
    BY <1>2, <1>10, WithHeap DEF f
  <1>12. EnvOK(f)
    <2>1. SymbolsInv(f)  BY <1>2, <1>11 DEF EnvOK, SymbolsInv
    <2>2. AttrsInv(f)
      <3> SUFFICES ASSUME NEW o \in 1..Len(e1.heap), NEW j \in 1..Len(hp[o].attrs)
                   PROVE  hp[o].attrs[j].sym \in 1..Len(e1.symbols)
        BY <1>10, <1>11 DEF AttrsInv
      <3>1. CASE o = obj  BY <1>8, <1>9, <1>10, <3>1
      <3>2. CASE o # obj  BY <1>2, <1>10, <3>2 DEF EnvOK, AttrsInv
      <3> QED  BY <3>1, <3>2
    <2>3. \A o \in 1..Len(e1.heap) : hp[o].type = e1.heap[o].type  BY <1>9, <1>10 DEF h
    <2>4. PointersInv(f)  BY <1>2, <1>10, <1>11, <2>3 DEF EnvOK, PointersInv
    <2> QED  BY <1>11, <2>1, <2>2, <2>4 DEF EnvOK
  <1>13. \A z : sym(f, z) = sym(e1, z)  BY <1>2, <1>11, <1>12, SymIsIndex
  <1>14. ASSUME NEW o \in 1..Len(e.heap), NEW z \in Names
         PROVE  pup_iv_get(f, o, z) = IF o = obj /\ z = str THEN val ELSE pup_iv_get(e, o, z)
    <2>1. pup_iv_get(e1, o, z) = pup_iv_get(e, o, z)
      <3>1. o <= Len(e.heap) /\ o \in 1..Len(e1.heap)  BY <1>1, <1>4
      <3> QED  BY <1>1, <3>1 DEF Keeps
    <2>2. pup_iv_get(f, o, z) = ValueOf(hp[o].attrs, sym(e1, z))  BY <1>11, <1>13, GetIsValue
    <2>3. pup_iv_get(e1, o, z) = ValueOf(e1.heap[o].attrs, sym(e1, z))  BY GetIsValue
    <2>4. CASE o # obj
      <3>1. hp[o] = e1.heap[o]  BY <1>1, <1>10, <2>4
      <3> QED  BY <2>1, <2>2, <2>3, <2>4, <3>1
    <2>5. CASE o = obj
      <3>1. hp[o].attrs = bl  BY <1>9, <1>10, <2>5
      <3>2. pup_iv_get(f, o, z) = IF sym(e1, z) = s THEN val ELSE ValueOf(al, sym(e1, z))
        BY <1>8, <2>2, <3>1
      <3>3. pup_iv_get(e1, o, z) = ValueOf(al, sym(e1, z))  BY <2>3, <2>5 DEF al, h
      <3>4. sym(e1, z) = s <=> z = str  BY <1>1, <1>2, SymInjective DEF s
      <3> QED  BY <2>1, <2>5, <3>2, <3>3, <3>4
    <2> QED  BY <2>4, <2>5
  <1>15. Len(f.heap) = Len(e.heap) /\ f.at = e.at  BY <1>1, <1>10, <1>11
  <1> QED  BY <1>3, <1>12, <1>14, <1>15 DEF Stores, g

\* A store to a null pointer changes no object.
LEMMA SetNull ==
  ASSUME NEW e, EnvOK(e), NEW str \in Names, NEW val \in Nat
  PROVE  Stores(e, pup_iv_set(e, 0, str, val), 0, str, val)
  <1> DEFINE e1 == pup_str_to_sym(e, str)
             g == pup_iv_set(e, 0, str, val)
  <1>1. Keeps(e, e1) /\ e1.heap = e.heap /\ e1.at = e.at  BY InternKeeps
  <1>2. EnvOK(e1) /\ e1 \in EnvRec /\ e1.heap \in Seq(ObjectRec) /\ Len(e1.heap) \in Nat
    BY <1>1 DEF Keeps, EnvOK, EnvRec
  <1>3. \E x : g = [e1 EXCEPT !.heap = [e1.heap EXCEPT ![0] = x]]
    <2> DEFINE i == SelectInSeq(e1.heap[0].attrs, LAMBDA a : a.sym = sym(e1, str))
               x1 == [e1.heap[0] EXCEPT !.attrs[i].value = val]
               x2 == [e1.heap[0] EXCEPT !.attrs = <<[sym |-> sym(e1, str), value |-> val]>> \o @]
    <2>1. CASE i # 0
      <3>1. g = [e1 EXCEPT !.heap = [e1.heap EXCEPT ![0] = x1]]  BY <2>1 DEF pup_iv_set
      <3> QED  BY <3>1, Zenon
    <2>2. CASE i = 0
      <3>1. g = [e1 EXCEPT !.heap = [e1.heap EXCEPT ![0] = x2]]  BY <2>2 DEF pup_iv_set
      <3> QED  BY <3>1, Zenon
    <2> QED  BY <2>1, <2>2
  <1>4. PICK x : g = [e1 EXCEPT !.heap = [e1.heap EXCEPT ![0] = x]]  BY <1>3
  <1> HIDE DEF e1, g
  <1>5. [e1.heap EXCEPT ![0] = x] = e1.heap  BY <1>2
  <1>6. /\ g \in EnvRec /\ g.heap = e1.heap /\ g.symbols = e1.symbols
        /\ g.next_sym = e1.next_sym /\ g.at = e1.at
    BY <1>2, <1>4, <1>5, WithHeap
  <1>7. EnvOK(g)  BY <1>2, <1>6 DEF EnvOK, SymbolsInv, AttrsInv, PointersInv
  <1>8. \A z : sym(g, z) = sym(e1, z)  BY <1>2, <1>6, <1>7, SymIsIndex
  <1>9. \A o \in 1..Len(g.heap) : \A z \in Names : pup_iv_get(g, o, z) = pup_iv_get(e1, o, z)
    BY <1>6, <1>8, GetIsValue
  <1>10. \A o \in 1..Len(g.heap) : o # 0 /\ o <= Len(e.heap)  BY <1>1, <1>2, <1>6
  <1> QED  BY <1>1, <1>6, <1>7, <1>9, <1>10 DEF Stores, Keeps, g

\* Both cases together.
LEMMA SetAnyStores ==
  ASSUME NEW e, EnvOK(e), NEW obj \in 0..Len(e.heap), NEW str \in Names, NEW val \in Nat
  PROVE  Stores(e, pup_iv_set(e, obj, str, val), obj, str, val)
  <1>1. Len(e.heap) \in Nat  BY DEF EnvOK, EnvRec
  <1>2. obj = 0 \/ obj \in 1..Len(e.heap)  BY <1>1
  <1> QED  BY <1>2, SetNull, SetStores

-----------------------------------------------------------------------------
(* Creating instances and classes.                                         *)

\* pup_class_new() up to the call of initialize.
NewInstance(e, class) ==
  pup_str_to_sym(allocate_instance(pup_str_to_sym(e, "allocate"), class), "initialize")

\* Making an instance stores nothing, ...
LEMMA NewInstanceKeeps ==
  ASSUME NEW e, EnvOK(e), NEW class \in 0..Len(e.heap)
  PROVE  Keeps(e, NewInstance(e, class)) /\ last(NewInstance(e, class)) = last(e) + 1
  <1> DEFINE e1 == pup_str_to_sym(e, "allocate")
             e2 == allocate_instance(e1, class)
             e3 == pup_str_to_sym(e2, "initialize")
  <1>0. "allocate" \in Names /\ "initialize" \in Names  BY DEF Names
  <1>1. Keeps(e, e1) /\ e1.heap = e.heap  BY <1>0, InternKeeps
  <1>2. EnvOK(e1) /\ class \in Nat /\ class <= Len(e1.heap)
    <2>1. Len(e.heap) \in Nat  BY <1>1 DEF Keeps
    <2> QED  BY <1>1, <2>1 DEF Keeps
  <1> HIDE DEF e1
  <1>3. Keeps(e1, e2) /\ last(e2) = last(e1) + 1
    <2>1. CASE e1.heap[class].allocate = "class"
      BY <1>2, <2>1, NewClassKeeps DEF allocate_instance
    <2>2. CASE e1.heap[class].allocate # "class"
      BY <1>2, <2>2, NewObjKeeps DEF allocate_instance
    <2> QED  BY <2>1, <2>2
  <1> HIDE DEF e2
  <1>4. Keeps(e2, e3) /\ e3.heap = e2.heap
    <2>1. EnvOK(e2)  BY <1>3 DEF Keeps
    <2> QED  BY <1>0, <2>1, InternKeeps
  <1>5. last(e3) = last(e) + 1  BY <1>1, <1>3, <1>4 DEF last
  <1>6. Keeps(e, e3)
    <2>1. Keeps(e, e2)  BY <1>1, <1>3, KeepsTrans
    <2> QED  BY <1>4, <2>1, KeepsTrans
  <1>7. e3 = NewInstance(e, class)  BY DEF NewInstance, e2, e1
  <1> QED  BY <1>5, <1>6, <1>7

\* ... nor does making a class, which is the newest object then.
LEMMA CreateClassKeeps ==
  ASSUME NEW e, EnvOK(e), NEW super \in Nat, NEW scope \in Nat, NEW allocate \in Allocators
  PROVE  LET f == pup_internal_create_class(e, super, scope, allocate)
         IN  Keeps(e, f) /\ last(f) = last(e) + 1
  <1> DEFINE e0 == pup_str_to_sym(e, "new")
             c == e.at["class_class"]
             e1 == NewInstance(e0, c)
             f == class_init(e1, last(e1), super, scope, allocate)
  <1>0. "new" \in Names /\ "class_class" \in Fields  BY FieldNames DEF Names
  <1>1. Keeps(e, e0) /\ e0.heap = e.heap  BY <1>0, InternKeeps
  <1>2. EnvOK(e0) /\ c \in 0..Len(e0.heap)
    <2>1. c \in Nat /\ c <= Len(e.heap) /\ Len(e.heap) \in Nat
      BY <1>0 DEF EnvOK, EnvRec, PointersInv
    <2> QED  BY <1>1, <2>1 DEF Keeps
  <1>3. pup_internal_create_class(e, super, scope, allocate) = f
    BY DEF pup_internal_create_class, pup_class_new, NewInstance, Null
  <1> HIDE DEF e0, c
  <1>4. Keeps(e0, e1) /\ last(e1) = last(e0) + 1  BY <1>2, NewInstanceKeeps
  <1> HIDE DEF e1
  <1>5. EnvOK(e1) /\ last(e1) \in 1..Len(e1.heap) /\ last(e1) = last(e) + 1
    <2>1. EnvOK(e1) /\ Len(e0.heap) \in Nat  BY <1>4 DEF Keeps
    <2> QED  BY <1>1, <1>4, <2>1 DEF last
  <1>6. Keeps(e1, f) /\ last(f) = last(e1)  BY <1>5, ClassInitKeeps DEF last
  <1> HIDE DEF f
  <1>7. Keeps(e, f)
    <2>1. Keeps(e, e1)  BY <1>1, <1>4, KeepsTrans
    <2> QED  BY <1>6, <2>1, KeepsTrans
  <1> QED  BY <1>3, <1>5, <1>6, <1>7

-----------------------------------------------------------------------------
(* The statements of runtime_init().                                       *)

\* Those after the first three.
Later ==
  [op : {"method"}, field : Fields, name : Names, with : RuntimeMethods]
    \cup [op : {"const"}, field : Fields, name : Names, with : {"class_object"}]
    \cup [op : {"class"}, field : Fields, name : Allocators, with : Fields]
    \cup [op : {"instance"}, field : Fields, name : {""}, with : Fields]

Begins(x) ==
  /\ Len(x) \in Nat /\ Len(x) >= 3
  /\ x[1].op = "class_object" /\ x[2].op = "class_class" /\ x[3].op = "obj_init"
  /\ \A k \in 4..Len(x) : x[k] \in Later

\* Appending later statements to a bootstrap.
LEMMA AddLater ==
  ASSUME NEW S, Later \subseteq S, NEW x \in Seq(S), Begins(x), NEW y \in Seq(Later)
  PROVE  x \o y \in Seq(S) /\ Begins(x \o y)
  <1> DEFINE z == x \o y
  <1>1. y \in Seq(S)  OBVIOUS
  <1>2. z \in Seq(S) /\ Len(z) = Len(x) + Len(y) /\ Len(x) \in Nat /\ Len(y) \in Nat  BY <1>1
  <1>3. \A k \in 1..Len(x) : z[k] = x[k]  BY <1>1
  <1>4. \A k \in 1..Len(y) : z[Len(x) + k] = y[k] /\ y[k] \in Later  BY <1>1
  <1> HIDE DEF z
  <1>5. Len(x) >= 3  BY DEF Begins
  <1>6. 1 \in 1..Len(x) /\ 2 \in 1..Len(x) /\ 3 \in 1..Len(x)  BY <1>2, <1>5
  <1>7. z[1].op = "class_object" /\ z[2].op = "class_class" /\ z[3].op = "obj_init"
    BY <1>3, <1>6 DEF Begins
  <1>8. ASSUME NEW k \in 4..Len(z)
        PROVE  z[k] \in Later
    <2>1. CASE k <= Len(x)
      <3>1. k \in 1..Len(x) /\ k \in 4..Len(x)  BY <1>2, <2>1
      <3> QED  BY <1>3, <3>1 DEF Begins
    <2>2. CASE ~(k <= Len(x))
      <3> DEFINE j == k - Len(x)
      <3>1. j \in 1..Len(y) /\ k = Len(x) + j  BY <1>2, <2>2
      <3> HIDE DEF j
      <3> QED  BY <1>4, <3>1
    <2> QED  BY <2>1, <2>2
  <1>9. Len(z) \in Nat /\ Len(z) >= 3  BY <1>2, <1>5
  <1> QED  BY <1>2, <1>7, <1>8, <1>9 DEF Begins, z

\* Definitions of methods are later statements.
LEMMA DefineLater ==
  ASSUME NEW class \in Fields, NEW table \in Seq(Names \X RuntimeMethods)
  PROVE  Define(class, table) \in Seq(Later)
  <1>1. ASSUME NEW i \in 1..Len(table)
        PROVE  [op |-> "method", field |-> class, name |-> table[i][1], with |-> table[i][2]]
                 \in Later
    <2>1. table[i][1] \in Names /\ table[i][2] \in RuntimeMethods  OBVIOUS
    <2> QED  BY <2>1 DEF Later
  <1>2. DOMAIN table = 1..Len(table) /\ Len(table) \in Nat  OBVIOUS
  <1> QED  BY <1>1, <1>2 DEF Define

\* A list of three.
LEMMA ThreeOf ==
  ASSUME NEW S, NEW x \in S, NEW y \in S, NEW z \in S
  PROVE  LET q == <<x>> \o <<y>> \o <<z>>
         IN  q \in Seq(S) /\ Len(q) = 3 /\ q[1] = x /\ q[2] = y /\ q[3] = z
  <1> DEFINE p == <<x>> \o <<y>>
  <1>0. p \in Seq(S)  OBVIOUS
  <1>1. Len(p) = 2 /\ p[1] = x /\ p[2] = y  OBVIOUS
  <1> HIDE DEF p
  <1>2. /\ p \o <<z>> \in Seq(S) /\ Len(p \o <<z>>) = Len(p) + 1
        /\ \A k \in 1..Len(p) : (p \o <<z>>)[k] = p[k]
        /\ (p \o <<z>>)[Len(p) + 1] = z
    BY <1>0
  <1>3. 1 \in 1..Len(p) /\ 2 \in 1..Len(p) /\ Len(p) + 1 = 3  BY <1>1
  <1> QED  BY <1>1, <1>2, <1>3 DEF p

\* What the statements 4 to k of a bootstrap x have done: the fields that are set
\* (the first two by hand), the methods of Object, and the constants.
IsSet(x, k, f) ==
  \/ f \in {"class_object", "class_class"}
  \/ \E j \in 4..k : x[j].op \in {"class", "instance"} /\ x[j].field = f
HasMethod(x, k, n) ==
  \E j \in 4..k : x[j].op = "method" /\ x[j].field = "class_object" /\ x[j].name = n
HasConst(x, k, n) == \E j \in 4..k : x[j].op = "const" /\ x[j].name = n

\* A statement that can follow when the fields F are set and Object has the
\* methods M: it uses nothing else, and sets no field again.
Creation == {"new", "allocate", "initialize"}
FitsIn(s, F, M) ==
  /\ s.op \in {"class", "instance"} => s.with \in F /\ s.field \notin F
  /\ s.op = "class" => Creation \subseteq M
  /\ s.op = "const" => s.field \in F /\ s.name \in DOMAIN WellKnown /\ WellKnown[s.name] = s.field
  /\ s.op = "method" =>
       /\ s.field \in F /\ s.field # "class_class"
       /\ s.field = "class_object" /\ s.name = "new" => s.with = "pup_class_new"
       /\ s.field = "class_object" /\ s.name = "allocate" => s.with = "pup_object_allocate"

\* Every statement can follow the ones before it.
Fits(x, k) == FitsIn(x[k], {f \in Fields : IsSet(x, k - 1, f)}, {n \in Names : HasMethod(x, k - 1, n)})
Ordered(x) == \A k \in 4..Len(x) : Fits(x, k)

\* All that is needed of a bootstrap to append to it.
Sound(x, F, M, C) ==
  /\ x \in Seq(Later \cup {[op |-> o, field |-> "", name |-> "", with |-> ""] :
                              o \in {"class_object", "class_class", "obj_init"}})
  /\ Begins(x) /\ Ordered(x) /\ M \subseteq Names
  /\ \A f \in Fields : IsSet(x, Len(x), f) <=> f \in F
  /\ \A n \in M : HasMethod(x, Len(x), n)
  /\ \A n \in C : HasConst(x, Len(x), n)

\* What statements y add to the three sets.
FieldsOf(y) == {f \in Fields : \E i \in 1..Len(y) : y[i].op \in {"class", "instance"} /\ y[i].field = f}
MethodsOf(y) ==
  {n \in Names : \E i \in 1..Len(y) : /\ y[i].op = "method" /\ y[i].field = "class_object"
                                      /\ y[i].name = n}
ConstsOf(y) == {n \in Names : \E i \in 1..Len(y) : y[i].op = "const" /\ y[i].name = n}

\* FitsIn() asks for membership in F, for fields, and for some methods in M.
LEMMA FitsMore ==
  ASSUME NEW s \in Later, NEW F, NEW M, NEW G, NEW N, FitsIn(s, F, M), M \subseteq N,
         \A f \in Fields : f \in F <=> f \in G
  PROVE  FitsIn(s, G, N)
  <1>1. s.field \in Fields /\ (s.op \in {"class", "instance"} => s.with \in Fields)
    BY DEF Later
  <1> QED  BY <1>1 DEF FitsIn

\* Statements that fit, appended, leave a bootstrap sound, with what they add.
LEMMA AddSound ==
  ASSUME NEW x, NEW F, NEW M, NEW C, Sound(x, F, M, C), NEW y \in Seq(Later),
         Len(y) = 1 \/ \A i \in 1..Len(y) : y[i].op = "method",
         \A i \in 1..Len(y) : FitsIn(y[i], F, M)
  PROVE  Sound(x \o y, F \cup FieldsOf(y), M \cup MethodsOf(y), C \cup ConstsOf(y))
  <1> DEFINE S == Later \cup {[op |-> o, field |-> "", name |-> "", with |-> ""] :
                                o \in {"class_object", "class_class", "obj_init"}}
             z == x \o y
             n == Len(x)
             m == Len(y)
  <1>1. /\ x \in Seq(S) /\ Begins(x) /\ Ordered(x) /\ M \subseteq Names
        /\ \A f \in Fields : IsSet(x, n, f) <=> f \in F
        /\ \A a \in M : HasMethod(x, n, a)
        /\ \A a \in C : HasConst(x, n, a)
    BY DEF Sound
  <1>2. Later \subseteq S  OBVIOUS
  <1> HIDE DEF S
  <1>3. z \in Seq(S) /\ Begins(z)  BY <1>1, <1>2, AddLater
  <1>4. y \in Seq(S)  BY <1>2
  <1>5. /\ Len(z) = n + m /\ n \in Nat /\ m \in Nat /\ n >= 3
        /\ \A j \in 1..n : z[j] = x[j]
        /\ \A j \in 1..m : z[n + j] = y[j] /\ y[j] \in Later
    BY <1>1, <1>4 DEF Begins
  <1> HIDE DEF z, n, m
  <1>6. \A k \in 0..n : \A j \in 4..k : j \in 1..n  BY <1>5
  <1>7. \A k \in 0..n : \A j \in 4..k : z[j] = x[j]  BY <1>5, <1>6
  <1>8. ASSUME NEW k \in 0..n
        PROVE  /\ \A f : IsSet(z, k, f) <=> IsSet(x, k, f)
               /\ \A a : HasMethod(z, k, a) <=> HasMethod(x, k, a)
               /\ \A a : HasConst(z, k, a) <=> HasConst(x, k, a)
    BY <1>7 DEF IsSet, HasMethod, HasConst
  <1>9. n \in 0..n  BY <1>5
  \* What the first i statements of y add.
  <1>10. ASSUME NEW i \in 0..m
         PROVE  /\ \A f : IsSet(z, n + i, f) <=>
                      IsSet(x, n, f) \/ \E j \in 1..i : y[j].op \in {"class", "instance"} /\ y[j].field = f
                /\ \A a : HasMethod(z, n + i, a) <=>
                      \/ HasMethod(x, n, a)
                      \/ \E j \in 1..i : /\ y[j].op = "method" /\ y[j].field = "class_object"
                                         /\ y[j].name = a
                /\ \A a : HasConst(z, n + i, a) <=>
                      HasConst(x, n, a) \/ \E j \in 1..i : y[j].op = "const" /\ y[j].name = a
    <2>1. ASSUME NEW k \in 4..(n + i)
          PROVE  (k \in 4..n /\ z[k] = x[k]) \/ \E j \in 1..i : z[k] = y[j]
      <3>1. CASE k <= n
        <4>1. k \in 4..n  BY <1>5, <3>1
        <4> QED  BY <1>7, <1>9, <4>1
      <3>2. CASE ~(k <= n)
        <4> DEFINE j == k - n
        <4>1. j \in 1..i /\ j \in 1..m /\ n + j = k  BY <1>5, <3>2
        <4> HIDE DEF j
        <4> QED  BY <1>5, <4>1
      <3> QED  BY <3>1, <3>2
    <2>2. ASSUME NEW k \in 4..n PROVE k \in 4..(n + i) /\ z[k] = x[k]
      <3>1. k \in 4..(n + i)  BY <1>5
      <3> QED  BY <1>7, <1>9, <3>1
    <2>3. ASSUME NEW j \in 1..i PROVE n + j \in 4..(n + i) /\ z[n + j] = y[j]
      <3>1. n + j \in 4..(n + i) /\ j \in 1..m  BY <1>5
      <3> QED  BY <1>5, <3>1
    <2>4. ASSUME NEW f
          PROVE  IsSet(z, n + i, f) <=>
                   IsSet(x, n, f) \/ \E j \in 1..i : y[j].op \in {"class", "instance"} /\ y[j].field = f
      <3>1. IsSet(z, n + i, f) => IsSet(x, n, f)
                 \/ \E j \in 1..i : y[j].op \in {"class", "instance"} /\ y[j].field = f
        BY <2>1 DEF IsSet
      <3>2. IsSet(x, n, f) => IsSet(z, n + i, f)  BY <2>2 DEF IsSet
      <3>3. (\E j \in 1..i : y[j].op \in {"class", "instance"} /\ y[j].field = f) => IsSet(z, n + i, f)
        BY <2>3 DEF IsSet
      <3> QED  BY <3>1, <3>2, <3>3
    <2>5. ASSUME NEW a
          PROVE  HasMethod(z, n + i, a) <=>
                      \/ HasMethod(x, n, a)
                      \/ \E j \in 1..i : /\ y[j].op = "method" /\ y[j].field = "class_object"
                                         /\ y[j].name = a
      <3> DEFINE Y == \E j \in 1..i : /\ y[j].op = "method" /\ y[j].field = "class_object"
                                     /\ y[j].name = a
      <3>1. HasMethod(z, n + i, a) => HasMethod(x, n, a) \/ Y
        BY <2>1 DEF HasMethod
      <3>2. HasMethod(x, n, a) => HasMethod(z, n + i, a)  BY <2>2 DEF HasMethod
      <3>3. (Y) => HasMethod(z, n + i, a)
        BY <2>3 DEF HasMethod
      <3> QED  BY <3>1, <3>2, <3>3
    <2>6. ASSUME NEW a
          PROVE  HasConst(z, n + i, a) <=>
                      HasConst(x, n, a) \/ \E j \in 1..i : y[j].op = "const" /\ y[j].name = a
      <3>1. HasConst(z, n + i, a) => HasConst(x, n, a) \/ \E j \in 1..i : y[j].op = "const" /\ y[j].name = a
        BY <2>1 DEF HasConst
      <3>2. HasConst(x, n, a) => HasConst(z, n + i, a)  BY <2>2 DEF HasConst
      <3>3. (\E j \in 1..i : y[j].op = "const" /\ y[j].name = a) => HasConst(z, n + i, a)
        BY <2>3 DEF HasConst
      <3> QED  BY <3>1, <3>2, <3>3
    <2> QED  BY <2>4, <2>5, <2>6
  <1>11. Ordered(z)
    <2> SUFFICES ASSUME NEW k \in 4..(n + m) PROVE Fits(z, k)  BY <1>5 DEF Ordered
    <2> DEFINE G == {f \in Fields : IsSet(z, k - 1, f)}
               N == {a \in Names : HasMethod(z, k - 1, a)}
    <2>1. CASE k <= n
      <3>1. k \in 4..n /\ k - 1 \in 0..n  BY <1>5, <2>1
      <3>2. z[k] = x[k]  BY <1>7, <1>9, <3>1
      <3>3. /\ \A f : IsSet(z, k - 1, f) <=> IsSet(x, k - 1, f)
            /\ \A a : HasMethod(z, k - 1, a) <=> HasMethod(x, k - 1, a)
        BY <1>8, <3>1
      <3>4. /\ G = {f \in Fields : IsSet(x, k - 1, f)}
            /\ N = {a \in Names : HasMethod(x, k - 1, a)}
        BY <3>3
      <3>5. Fits(x, k)  BY <1>1, <3>1 DEF Ordered, n
      <3> HIDE DEF G, N
      <3>6. FitsIn(z[k], G, N)  BY <3>2, <3>4, <3>5 DEF Fits
      <3> QED  BY <3>6 DEF Fits, G, N
    <2>2. CASE ~(k <= n)
      <3> DEFINE i == k - n
      <3>1. i \in 1..m /\ k = n + i /\ k - 1 = n + (i - 1) /\ i - 1 \in 0..m
        BY <1>5, <2>2
      <3> HIDE DEF i
      <3>2. z[k] = y[i] /\ y[i] \in Later  BY <1>5, <3>1
      <3>3. FitsIn(y[i], F, M)  BY <3>1 DEF m
      <3>4. \A f \in Fields : f \in F <=> f \in G
        <4>1. \A j \in 1..(i - 1) : y[j].op \notin {"class", "instance"}
          <5>1. CASE m = 1  BY <3>1, <5>1
          <5>2. CASE \A j \in 1..m : y[j].op = "method"
            <6>1. \A j \in 1..(i - 1) : j \in 1..m  BY <1>5, <3>1
            <6> QED  BY <5>2, <6>1
          <5> QED  BY <5>1, <5>2 DEF m
        <4>2. \A f : IsSet(z, k - 1, f) <=> IsSet(x, n, f)  BY <1>10, <3>1, <4>1
        <4> QED  BY <1>1, <4>2
      <3>5. M \subseteq N
        <4>1. \A a : HasMethod(x, n, a) => HasMethod(z, k - 1, a)  BY <1>10, <3>1
        <4> QED  BY <1>1, <4>1
      <3> HIDE DEF G, N
      <3>6. FitsIn(z[k], G, N)  BY <3>2, <3>3, <3>4, <3>5, FitsMore
      <3> QED  BY <3>6 DEF Fits, G, N
    <2> QED  BY <2>1, <2>2
  <1>12. m \in 0..m  BY <1>5
  <1>13. \A f \in Fields : IsSet(z, Len(z), f) <=> f \in F \cup FieldsOf(y)
    BY <1>1, <1>5, <1>10, <1>12 DEF FieldsOf, m
  <1>14. ASSUME NEW a \in M \cup MethodsOf(y) PROVE HasMethod(z, Len(z), a)
    <2>1. HasMethod(z, n + m, a) <=>
            \/ HasMethod(x, n, a)
            \/ \E j \in 1..m : y[j].op = "method" /\ y[j].field = "class_object" /\ y[j].name = a
      BY <1>10, <1>12
    <2>2. CASE a \in M  BY <1>1, <1>5, <2>1, <2>2
    <2>3. CASE a \in MethodsOf(y)  BY <1>5, <2>1, <2>3 DEF MethodsOf, m
    <2> QED  BY <2>2, <2>3
  <1>15. ASSUME NEW a \in C \cup ConstsOf(y) PROVE HasConst(z, Len(z), a)
    <2>1. HasConst(z, n + m, a) <=>
            HasConst(x, n, a) \/ \E j \in 1..m : y[j].op = "const" /\ y[j].name = a
      BY <1>10, <1>12
    <2>2. CASE a \in C  BY <1>1, <1>5, <2>1, <2>2
    <2>3. CASE a \in ConstsOf(y)  BY <1>5, <2>1, <2>3 DEF ConstsOf, m
    <2> QED  BY <2>2, <2>3
  <1>16. M \cup MethodsOf(y) \subseteq Names  BY <1>1 DEF MethodsOf
  <1> QED  BY <1>3, <1>11, <1>13, <1>14, <1>15, <1>16 DEF Sound, S, z

\* Fewer methods and constants than there are.
LEMMA SoundLess ==
  ASSUME NEW x, NEW F, NEW M, NEW C, Sound(x, F, M, C), NEW G, NEW N, NEW B,
         N \subseteq M, B \subseteq C, \A f \in Fields : f \in F <=> f \in G
  PROVE  Sound(x, G, N, B)
  BY DEF Sound

\* The case of one statement.
LEMMA AddOne ==
  ASSUME NEW x, NEW F, NEW M, NEW C, Sound(x, F, M, C), NEW s \in Later, FitsIn(s, F, M)
  PROVE  /\ s.op = "const" => Sound(x \o <<s>>, F, M, C \cup {s.name})
         /\ s.op \in {"class", "instance"} => Sound(x \o <<s>>, F \cup {s.field}, M, C)
  <1> DEFINE y == <<s>>
  <1>1. y \in Seq(Later) /\ Len(y) = 1 /\ y[1] = s /\ 1..Len(y) = {1}  OBVIOUS
  <1> HIDE DEF y
  <1>2. Sound(x \o y, F \cup FieldsOf(y), M \cup MethodsOf(y), C \cup ConstsOf(y))
    BY <1>1, AddSound
  <1>3. CASE s.op = "const"
    <2>1. s.name \in Names  BY <1>3 DEF Later
    <2>2. s.name \in ConstsOf(y)  BY <1>1, <1>3, <2>1 DEF ConstsOf
    <2>3. FieldsOf(y) = {}  BY <1>1, <1>3 DEF FieldsOf
    <2>4. Sound(x \o y, F, M, C \cup {s.name})  BY <1>2, <2>2, <2>3, SoundLess
    <2> QED  BY <1>3, <2>4 DEF y
  <1>4. CASE s.op \in {"class", "instance"}
    <2>1. \A f \in Fields : f \in FieldsOf(y) <=> f = s.field  BY <1>1, <1>4 DEF FieldsOf
    <2>2. Sound(x \o y, F \cup {s.field}, M, C)  BY <1>2, <2>1, SoundLess
    <2>3. s.op # "const"  BY <1>4
    <2> QED  BY <1>4, <2>2, <2>3 DEF y
  <1> QED  BY <1>3, <1>4

\* A constant, ...
LEMMA AddConst ==
  ASSUME NEW x, NEW F, NEW M, NEW C, Sound(x, F, M, C), NEW name \in DOMAIN WellKnown,
         NEW field \in Fields, field \in F, WellKnown[name] = field
  PROVE  Sound(x \o Const(name, field), F, M, C \cup {name})
  <1> DEFINE s == [op |-> "const", field |-> field, name |-> name, with |-> "class_object"]
  <1>1. name \in Names  BY DEF Names
  <1>2. s \in Later /\ s.op = "const" /\ s.name = name /\ s.field = field  BY <1>1 DEF Later
  <1>3. Const(name, field) = <<s>>  BY DEF Const
  <1> HIDE DEF s
  <1>4. FitsIn(s, F, M)  BY <1>2 DEF FitsIn
  <1> QED  BY <1>2, <1>3, <1>4, AddOne

\* ... a class, ...
LEMMA AddClass ==
  ASSUME NEW x, NEW F, NEW M, NEW C, Sound(x, F, M, C), NEW field \in Fields \ F,
         NEW super \in Fields, super \in F, NEW allocate \in Allocators, Creation \subseteq M
  PROVE  Sound(x \o NewClass(field, super, allocate), F \cup {field}, M, C)
  <1> DEFINE s == [op |-> "class", field |-> field, name |-> allocate, with |-> super]
  <1>1. s \in Later /\ s.op = "class" /\ s.with = super /\ s.field = field  BY DEF Later
  <1>2. NewClass(field, super, allocate) = <<s>>  BY DEF NewClass
  <1> HIDE DEF s
  <1>3. FitsIn(s, F, M)  BY <1>1 DEF FitsIn
  <1> QED  BY <1>1, <1>2, <1>3, AddOne

\* ... an instance ...
LEMMA AddInstance ==
  ASSUME NEW x, NEW F, NEW M, NEW C, Sound(x, F, M, C), NEW field \in Fields \ F,
         NEW class \in Fields, class \in F
  PROVE  Sound(x \o Instance(field, class), F \cup {field}, M, C)
  <1> DEFINE s == [op |-> "instance", field |-> field, name |-> "", with |-> class]
  <1>1. s \in Later /\ s.op = "instance" /\ s.with = class /\ s.field = field  BY DEF Later
  <1>2. Instance(field, class) = <<s>>  BY DEF Instance
  <1> HIDE DEF s
  <1>3. FitsIn(s, F, M)  BY <1>1 DEF FitsIn
  <1> QED  BY <1>1, <1>2, <1>3, AddOne

\* ... and methods can follow when what they use is there.
LEMMA AddMethods ==
  ASSUME NEW x, NEW F, NEW M, NEW C, Sound(x, F, M, C), NEW class \in Fields, class \in F,
         class # "class_class", NEW table \in Seq(Names \X RuntimeMethods),
         class = "class_object" => \A i \in 1..Len(table) :
             /\ table[i][1] = "new" => table[i][2] = "pup_class_new"
             /\ table[i][1] = "allocate" => table[i][2] = "pup_object_allocate"
  PROVE  /\ Sound(x \o Define(class, table), F, M, C)
         /\ class = "class_object" =>
              Sound(x \o Define(class, table), F, M \cup {table[i][1] : i \in 1..Len(table)}, C)
  <1> DEFINE y == Define(class, table)
  <1>1. y \in Seq(Later)  BY DefineLater
  <1>2. /\ Len(y) = Len(table)
        /\ \A i \in 1..Len(table) : /\ y[i].op = "method" /\ y[i].field = class
                                    /\ y[i].name = table[i][1] /\ y[i].with = table[i][2]
    <2>1. DOMAIN table = 1..Len(table) /\ Len(table) \in Nat  OBVIOUS
    <2>2. y = [i \in 1..Len(table) |->
                 [op |-> "method", field |-> class, name |-> table[i][1], with |-> table[i][2]]]
      BY <2>1 DEF Define
    <2> HIDE DEF y
    <2>3. DOMAIN y = 1..Len(table) /\ DOMAIN y = 1..Len(y)  BY <1>1, <2>2
    <2>4. Len(y) = Len(table)  BY <1>1, <2>1, <2>3
    <2> QED  BY <2>2, <2>4
  <1> HIDE DEF y
  <1>3. \A i \in 1..Len(y) : FitsIn(y[i], F, M)  BY <1>2 DEF FitsIn
  <1>4. Sound(x \o y, F \cup FieldsOf(y), M \cup MethodsOf(y), C \cup ConstsOf(y))
    BY <1>1, <1>2, <1>3, AddSound
  <1>5. FieldsOf(y) = {}  BY <1>2 DEF FieldsOf
  <1>6. \A i \in 1..Len(table) : table[i][1] \in Names  OBVIOUS
  <1>7. class = "class_object" => {table[i][1] : i \in 1..Len(table)} \subseteq MethodsOf(y)
    BY <1>2, <1>6 DEF MethodsOf
  <1>8. Sound(x \o y, F, M, C)  BY <1>4, <1>5, SoundLess
  <1>9. ASSUME class = "class_object"
        PROVE  Sound(x \o y, F, M \cup {table[i][1] : i \in 1..Len(table)}, C)
    BY <1>4, <1>5, <1>7, <1>9, SoundLess
  <1> QED  BY <1>8, <1>9 DEF y

\* The names of the runtime's constants.
LEMMA WellKnownNames ==
  /\ DOMAIN WellKnown = {"Object", "Class", "String", "Exception", "StandardError", "RuntimeError",
                         "TrueClass", "FalseClass", "Fixnum"}
  /\ WellKnown["Object"] = "class_object" /\ WellKnown["Class"] = "class_class"
  /\ WellKnown["String"] = "class_string" /\ WellKnown["Exception"] = "class_exception"
  /\ WellKnown["StandardError"] = "class_standarderror"
  /\ WellKnown["RuntimeError"] = "class_runtimeerror" /\ WellKnown["TrueClass"] = "class_true"
  /\ WellKnown["FalseClass"] = "class_false" /\ WellKnown["Fixnum"] = "class_fixnum"
  BY DEF WellKnown

\* runtime_init() begins with the two classes made by hand and obj_init() and ends
\* with the main object; in between every statement finds what it uses, no field is
\* set twice, and at the end all fields are set and all constants bound.
LEMMA RuntimeOrder ==
  /\ Begins(runtime_init) /\ Ordered(runtime_init)
  /\ LET s == runtime_init[Len(runtime_init)]
     IN  s.op = "instance" /\ s.field = "main_obj" /\ s.with = "class_object"
  /\ \A f \in Fields : IsSet(runtime_init, Len(runtime_init), f)
  /\ \A n \in DOMAIN WellKnown : HasConst(runtime_init, Len(runtime_init), n)
  <1> DEFINE S == Later \cup {[op |-> o, field |-> "", name |-> "", with |-> ""] :
                                o \in {"class_object", "class_class", "obj_init"}}
             b0 == Bare("class_object") \o Bare("class_class") \o Bare("obj_init")
             b1 == b0 \o pup_class_class_init
             b2 == b1 \o pup_object_class_init
             F0 == {"class_object", "class_class"}
             M1 == {"new", "allocate"}
  <1>1. Sound(b0, F0, {}, {})
    <2> DEFINE r(o) == [op |-> o, field |-> "", name |-> "", with |-> ""]
    <2>1. \A o : r(o).op = o  OBVIOUS
    <2>2. r("class_object") \in S /\ r("class_class") \in S /\ r("obj_init") \in S  OBVIOUS
    <2>3. \A o : Bare(o) = <<r(o)>>  BY DEF Bare
    <2> HIDE DEF r, S
    <2>b. b0 = <<r("class_object")>> \o <<r("class_class")>> \o <<r("obj_init")>>  BY <2>3
    <2> HIDE DEF b0
    <2>4. /\ b0 \in Seq(S) /\ Len(b0) = 3
          /\ b0[1] = r("class_object") /\ b0[2] = r("class_class") /\ b0[3] = r("obj_init")
      BY <2>2, <2>b, ThreeOf
    <2>5. 4..3 = {}  OBVIOUS
    <2>6. Begins(b0) /\ Ordered(b0)  BY <2>1, <2>4, <2>5 DEF Begins, Ordered
    <2>7. \A f \in Fields : IsSet(b0, Len(b0), f) <=> f \in F0  BY <2>4, <2>5 DEF IsSet
    <2> QED  BY <2>4, <2>6, <2>7 DEF Sound, S
  <1> HIDE DEF b0, S
  <1> USE FieldNames, RuntimeNames
  <1>n. /\ "new" \in Names /\ "allocate" \in Names /\ "to_s" \in Names /\ "initialize" \in Names
        /\ "raise" \in Names /\ "puts" \in Names /\ "==" \in Names /\ "message" \in Names
        /\ "+" \in Names /\ "<" \in Names
    BY DEF Names
  <1>a. /\ "object" \in Allocators /\ "string" \in Allocators /\ "fixnum" \in Allocators
    BY DEF Allocators
  <1>2. Sound(b1, F0, M1, {})
    <2> DEFINE t == << <<"new", "pup_class_new">>, <<"allocate", "pup_object_allocate">>,
                       <<"to_s", "pup_class_to_s">> >>
    <2>1. t \in Seq(Names \X RuntimeMethods)  BY <1>n DEF RuntimeMethods
    <2>2. pup_class_class_init = Define("class_object", t)  BY DEF pup_class_class_init
    <2>3. /\ Len(t) = 3 /\ t[1][1] = "new" /\ t[2][1] = "allocate" /\ t[3][1] = "to_s"
          /\ t[1][2] = "pup_class_new" /\ t[2][2] = "pup_object_allocate"
      OBVIOUS
    <2> HIDE DEF t
    <2>4. \A i \in 1..Len(t) : i = 1 \/ i = 2 \/ i = 3  BY <2>3
    <2>5. \A i \in 1..Len(t) : /\ t[i][1] = "new" => t[i][2] = "pup_class_new"
                               /\ t[i][1] = "allocate" => t[i][2] = "pup_object_allocate"
      BY <2>3, <2>4
    <2>6. Sound(b1, F0, {} \cup {t[i][1] : i \in 1..Len(t)}, {})
      BY <1>1, <2>1, <2>2, <2>5, AddMethods
    <2>7. M1 \subseteq {} \cup {t[i][1] : i \in 1..Len(t)}
      <3>1. 1 \in 1..Len(t) /\ 2 \in 1..Len(t)  BY <2>3
      <3> QED  BY <2>3, <3>1
    <2> HIDE DEF b1, F0, M1
    <2> QED  BY <2>6, <2>7, SoundLess
  <1> HIDE DEF b1
  <1>3. Sound(b2, F0, Creation, {})
    <2> DEFINE t == << <<"initialize", "pup_object_initialize">>, <<"raise", "pup_object_raise">>,
                       <<"puts", "pup_puts">>, <<"==", "pup_object_op_equals">> >>
    <2>1. t \in Seq(Names \X RuntimeMethods)  BY <1>n DEF RuntimeMethods
    <2>2. pup_object_class_init = Define("class_object", t)  BY DEF pup_object_class_init
    <2>3. /\ Len(t) = 4 /\ t[1][1] = "initialize" /\ t[2][1] = "raise" /\ t[3][1] = "puts"
          /\ t[4][1] = "=="
      OBVIOUS
    <2> HIDE DEF t
    <2>4. \A i \in 1..Len(t) : i = 1 \/ i = 2 \/ i = 3 \/ i = 4  BY <2>3
    <2>5. \A i \in 1..Len(t) : t[i][1] # "new" /\ t[i][1] # "allocate"
      BY <2>3, <2>4
    <2>6. Sound(b2, F0, M1 \cup {t[i][1] : i \in 1..Len(t)}, {})
      BY <1>2, <2>1, <2>2, <2>5, AddMethods
    <2>7. Creation \subseteq M1 \cup {t[i][1] : i \in 1..Len(t)}
      <3>1. 1 \in 1..Len(t)  BY <2>3
      <3> QED  BY <2>3, <3>1 DEF Creation
    <2> HIDE DEF b2, F0, M1
    <2> QED  BY <2>6, <2>7, SoundLess
  <1> HIDE DEF b2
  <1> DEFINE b3 == b2 \o Const("Object", "class_object")
             b4 == b3 \o Const("Class", "class_class")
             b5 == b4 \o NewClass("class_string", "class_object", "string")
             b6 == b5 \o Const("String", "class_string")
             F1 == F0 \cup {"class_string"}
             C1 == {} \cup {"Object"}
             C2 == C1 \cup {"Class"}
             C3 == C2 \cup {"String"}
             K == Creation
  <1> USE WellKnownNames
  <1>4. Sound(b3, F0, K, C1)  BY <1>3, AddConst
  <1>5. Sound(b4, F0, K, C2)
    <2> HIDE DEF b3, K, C1
    <2> QED  BY <1>4, AddConst
  <1>6. Sound(b5, F1, K, C2)
    <2> HIDE DEF b4, C2
    <2> QED  BY <1>5, <1>a, AddClass
  <1>7. Sound(b6, F1, K, C3)
    <2> HIDE DEF b5, K, C2
    <2> QED  BY <1>6, AddConst
  <1>8. bootstrap_core = b6  BY DEF bootstrap_core, b2, b1, b0
  <1> HIDE DEF b3, b4, b5, b6
  <1> DEFINE c1 == b6 \o NewClass("class_exception", "class_object", "object")
             c2 == c1 \o Const("Exception", "class_exception")
             c3 == c2 \o NewClass("class_standarderror", "class_exception", "object")
             c4 == c3 \o Const("StandardError", "class_standarderror")
             c5 == c4 \o NewClass("class_runtimeerror", "class_standarderror", "object")
             c6 == c5 \o Const("RuntimeError", "class_runtimeerror")
             c7 == c6 \o NewClass("class_true", "class_object", "object")
             c8 == c7 \o Const("TrueClass", "class_true")
             c9 == c8 \o NewClass("class_false", "class_object", "object")
             c10 == c9 \o Const("FalseClass", "class_false")
             c11 == c10 \o Instance("object_true", "class_true")
             c12 == c11 \o Instance("object_false", "class_false")
             te == << <<"initialize", "pup_exception_initialize">>,
                      <<"message", "pup_exception_message">> >>
             c13 == c12 \o Define("class_exception", te)
             c14 == c13 \o NewClass("class_fixnum", "class_object", "fixnum")
             tf == << <<"+", "pup_fixnum_plus">>, <<"==", "pup_fixnum_op_equals">>,
                      <<"<", "pup_fixnum_op_lessthan">> >>
             c15 == c14 \o Define("class_fixnum", tf)
             c16 == c15 \o Const("Fixnum", "class_fixnum")
             c17 == c16 \o Instance("main_obj", "class_object")
             F2 == F1 \cup {"class_exception"}
             F3 == F2 \cup {"class_standarderror"}
             F4 == F3 \cup {"class_runtimeerror"}
             F5 == F4 \cup {"class_true"}
             F6 == F5 \cup {"class_false"}
             F7 == F6 \cup {"object_true"}
             F8 == F7 \cup {"object_false"}
             F9 == F8 \cup {"class_fixnum"}
             F10 == F9 \cup {"main_obj"}
             C4 == C3 \cup {"Exception"}
             C5 == C4 \cup {"StandardError"}
             C6 == C5 \cup {"RuntimeError"}
             C7 == C6 \cup {"TrueClass"}
             C8 == C7 \cup {"FalseClass"}
             C9 == C8 \cup {"Fixnum"}
  <1>9. runtime_init = c17  BY <1>8 DEF runtime_init
  <1>10. te \in Seq(Names \X RuntimeMethods)  BY <1>n DEF RuntimeMethods
  <1>11. tf \in Seq(Names \X RuntimeMethods)  BY <1>n DEF RuntimeMethods
  <1>f. Fields \subseteq F10  BY DEF Fields
  <1>g. DOMAIN WellKnown \subseteq C9  OBVIOUS
  <1> HIDE DEF te, tf, c1, c2, c3, c4, c5, c6, c7, c8, c9, c10, c11, c12, c13, c14, c15, c16, c17
  <1> HIDE DEF C3, C4, C5, C6, C7, C8, C9
  <1>12. Sound(c1, F2, K, C3)  BY <1>7, <1>a, AddClass DEF c1
  <1>13. Sound(c2, F2, K, C4)  BY <1>12, AddConst DEF c2, C4
  <1>14. Sound(c3, F3, K, C4)  BY <1>13, <1>a, AddClass DEF c3
  <1>15. Sound(c4, F3, K, C5)  BY <1>14, AddConst DEF c4, C5
  <1>16. Sound(c5, F4, K, C5)  BY <1>15, <1>a, AddClass DEF c5
  <1>17. Sound(c6, F4, K, C6)  BY <1>16, AddConst DEF c6, C6
  <1>18. Sound(c7, F5, K, C6)  BY <1>17, <1>a, AddClass DEF c7
  <1>19. Sound(c8, F5, K, C7)  BY <1>18, AddConst DEF c8, C7
  <1>20. Sound(c9, F6, K, C7)  BY <1>19, <1>a, AddClass DEF c9
  <1>21. Sound(c10, F6, K, C8)  BY <1>20, AddConst DEF c10, C8
  <1>22. Sound(c11, F7, K, C8)  BY <1>21, AddInstance DEF c11
  <1>23. Sound(c12, F8, K, C8)  BY <1>22, AddInstance DEF c12
  <1>24. Sound(c13, F8, K, C8)  BY <1>23, <1>10, AddMethods DEF c13
  <1>25. Sound(c14, F9, K, C8)  BY <1>24, <1>a, AddClass DEF c14
  <1>26. Sound(c15, F9, K, C8)  BY <1>25, <1>11, AddMethods DEF c15
  <1>27. Sound(c16, F9, K, C9)  BY <1>26, AddConst DEF c16, C9
  <1>28. Sound(c17, F10, K, C9)  BY <1>27, AddInstance DEF c17
  <1>29. LET s == c17[Len(c17)]
         IN  s.op = "instance" /\ s.field = "main_obj" /\ s.with = "class_object"
    <2> DEFINE s == [op |-> "instance", field |-> "main_obj", name |-> "", with |-> "class_object"]
    <2>1. c17 = c16 \o <<s>>  BY DEF c17, Instance
    <2>2. s.op = "instance" /\ s.field = "main_obj" /\ s.with = "class_object"  OBVIOUS
    <2>3. c16 \in Seq(S)  BY <1>27 DEF Sound, S
    <2>4. s \in S  BY DEF S, Later
    <2> HIDE DEF s
    <2>5. Len(c16 \o <<s>>) = Len(c16) + 1 /\ (c16 \o <<s>>)[Len(c16) + 1] = s  BY <2>3, <2>4
    <2> QED  BY <2>1, <2>2, <2>5
  <1> HIDE DEF F10
  <1> QED  BY <1>9, <1>28, <1>29, <1>f, <1>g DEF Sound

\* Of that order, this is all the attributes need.
LEMMA RuntimeInit ==
  /\ Begins(runtime_init)
  /\ LET s == runtime_init[Len(runtime_init)]
     IN  s.op = "instance" /\ s.field = "main_obj" /\ s.with = "class_object"
  BY RuntimeOrder

-----------------------------------------------------------------------------
(* The invariant after a step, by what the step does to the attributes.    *)

\* The names of the properties and the actions are in use.
LEMMA NamesInUse ==
  /\ ProgramNames \subseteq Names
  /\ IvNames \subseteq Names /\ ClassNames \subseteq Names /\ MethodNames \subseteq Names
  /\ "@message" \in Names
  BY DEF ProgramNames, Names

\* The objects are numbered from 1.
LEMMA HeapDomain ==
  ASSUME NEW e, EnvOK(e)
  PROVE  e.heap \in Seq(ObjectRec) /\ Len(e.heap) \in Nat /\ DOMAIN e.heap = 1..Len(e.heap)
  BY DEF EnvOK, EnvRec

\* What is found under a name is what was last stored there, as a fact about e.
Found(e) ==
  \A o \in 1..Len(e.heap), n \in ProgramNames : pup_iv_get(e, o, n) = Bound(o, n)

\* The invariant has that of the current environment.
LEMMA FoundInv ==
  Inv => Found(env)
  BY HeapDomain DEF Inv, AttributesByName, Objects, Found

\* Nothing is stored.
LEMMA KeepStep ==
  ASSUME Inv, Keeps(env, env'), ivars' = ivars, step' \in step..Len(runtime_init),
         body' \in 0..Len(env'.heap), MainInv'
  PROVE  Inv'
  <1>1. /\ EnvOK(env) /\ EnvOK(env') /\ step \in 0..Len(runtime_init) /\ BoundInv
        /\ Len(env.heap) \in Nat /\ Len(env'.heap) \in Nat /\ Len(env.heap) <= Len(env'.heap)
    BY DEF Inv, Keeps
  <1>2. Len(runtime_init) \in Nat  BY RuntimeInit DEF Begins
  <1>3. step' \in 0..Len(runtime_init) /\ (step' < 3 => step < 3)  BY <1>1, <1>2
  <1>4. BoundInv'
    <2>1. (0..Len(env.heap)) \X Names \subseteq (0..Len(env'.heap)) \X Names  BY <1>1
    <2> QED  BY <1>1, <1>3, <2>1 DEF BoundInv
  <1>5. AttributesByName'
    <2> SUFFICES ASSUME NEW o \in 1..Len(env'.heap), NEW n \in ProgramNames
                 PROVE  pup_iv_get(env', o, n) = Bound(o, n)'
      <3>1. DOMAIN env'.heap = 1..Len(env'.heap)  BY <1>1, HeapDomain
      <3> QED  BY <3>1 DEF AttributesByName, Objects
    <2>1. Bound(o, n)' = Bound(o, n)  BY DEF Bound
    <2>2. pup_iv_get(env', o, n) = IF o <= Len(env.heap) THEN pup_iv_get(env, o, n) ELSE Null
      BY NamesInUse DEF Keeps
    <2>3. CASE o <= Len(env.heap)
      <3>1. o \in 1..Len(env.heap)  BY <1>1, <2>3
      <3>2. pup_iv_get(env, o, n) = Bound(o, n)  BY <3>1, FoundInv DEF Found
      <3> QED  BY <2>1, <2>2, <2>3, <3>2
    <2>4. CASE ~(o <= Len(env.heap))
      <3>1. o \notin 0..Len(env.heap)  BY <1>1, <2>4
      <3>2. <<o, n>> \notin DOMAIN ivars  BY <1>1, <3>1 DEF BoundInv
      <3>3. Bound(o, n) = Null  BY <3>2 DEF Bound
      <3> QED  BY <2>1, <2>2, <2>4, <3>3
    <2> QED  BY <2>3, <2>4
  <1> QED  BY <1>1, <1>3, <1>4, <1>5 DEF Inv

\* After steps that store nothing, and make e of env, val is stored.
LEMMA StoreStep ==
  ASSUME Inv, NEW e, Keeps(env, e), NEW obj \in 0..Len(e.heap), NEW str \in Names, NEW val \in Nat,
         Stores(e, env', obj, str, val), Bind(obj, str, val),
         step' \in 3..Len(runtime_init), body' \in 0..Len(env'.heap), MainInv'
  PROVE  Inv'
  <1>1. /\ EnvOK(env) /\ EnvOK(env') /\ step \in 0..Len(runtime_init) /\ BoundInv
        /\ Len(env.heap) \in Nat /\ Len(e.heap) \in Nat /\ Len(env.heap) <= Len(e.heap)
        /\ Len(env'.heap) = Len(e.heap)
    BY DEF Inv, Keeps, Stores
  <1>2. Len(runtime_init) \in Nat  BY RuntimeInit DEF Begins
  <1>3. step' \in 0..Len(runtime_init) /\ ~(step' < 3)  BY <1>2
  <1>b. /\ DOMAIN ivars' = DOMAIN ivars \cup {<<obj, str>>}
        /\ \A p \in DOMAIN ivars' : ivars'[p] = IF p = <<obj, str>> THEN val ELSE ivars[p]
    BY DEF Bind
  <1>4. BoundInv'
    <2>1. (0..Len(env.heap)) \X Names \subseteq (0..Len(env'.heap)) \X Names  BY <1>1
    <2>2. <<obj, str>> \in (0..Len(env'.heap)) \X Names  BY <1>1
    <2> QED  BY <1>1, <1>3, <1>b, <2>1, <2>2 DEF BoundInv
  <1>5. AttributesByName'
    <2> SUFFICES ASSUME NEW o \in 1..Len(env'.heap), NEW n \in ProgramNames
                 PROVE  pup_iv_get(env', o, n) = Bound(o, n)'
      <3>1. DOMAIN env'.heap = 1..Len(env'.heap)  BY <1>1, HeapDomain
      <3> QED  BY <3>1 DEF AttributesByName, Objects
    <2>1. Bound(o, n)' = IF o = obj /\ n = str THEN val ELSE Bound(o, n)
      <3>1. <<o, n>> = <<obj, str>> <=> o = obj /\ n = str  OBVIOUS
      <3>2. CASE <<o, n>> = <<obj, str>>
        <4>1. <<o, n>> \in DOMAIN ivars' /\ ivars'[<<o, n>>] = val  BY <1>b, <3>2
        <4> QED  BY <3>1, <3>2, <4>1 DEF Bound
      <3>3. CASE <<o, n>> # <<obj, str>>
        <4>1. <<o, n>> \in DOMAIN ivars' <=> <<o, n>> \in DOMAIN ivars  BY <1>b, <3>3
        <4>2. <<o, n>> \in DOMAIN ivars' => ivars'[<<o, n>>] = ivars[<<o, n>>]  BY <1>b, <3>3
        <4> QED  BY <3>1, <3>3, <4>1, <4>2 DEF Bound
      <3> QED  BY <3>2, <3>3
    <2>2. pup_iv_get(env', o, n) = IF o = obj /\ n = str THEN val ELSE pup_iv_get(e, o, n)
      BY NamesInUse DEF Stores
    <2>3. pup_iv_get(e, o, n) = Bound(o, n)
      <3>0. o \in 1..Len(e.heap) /\ n \in Names  BY <1>1, NamesInUse
      <3>1. pup_iv_get(e, o, n) = IF o <= Len(env.heap) THEN pup_iv_get(env, o, n) ELSE Null
        BY <3>0 DEF Keeps
      <3>2. CASE o <= Len(env.heap)
        <4>1. o \in 1..Len(env.heap)  BY <1>1, <3>2
        <4>2. pup_iv_get(env, o, n) = Bound(o, n)  BY <4>1, FoundInv DEF Found
        <4> QED  BY <3>1, <3>2, <4>2
      <3>3. CASE ~(o <= Len(env.heap))
        <4>1. o \notin 0..Len(env.heap)  BY <1>1, <3>3
        <4>2. <<o, n>> \notin DOMAIN ivars  BY <1>1, <4>1 DEF BoundInv
        <4>3. Bound(o, n) = Null  BY <4>2 DEF Bound
        <4> QED  BY <3>1, <3>3, <4>3
      <3> QED  BY <3>2, <3>3
    <2> QED  BY <2>1, <2>2, <2>3
  <1> QED  BY <1>1, <1>3, <1>4, <1>5 DEF Inv

-----------------------------------------------------------------------------
(* The bootstrap.                                                          *)

AtExists(e, field) == e.at[field] \in Nat /\ e.at[field] <= Len(e.heap)

\* A field of struct RuntimeEnv is null or an object that exists.
LEMMA AtOK ==
  ASSUME NEW e, EnvOK(e), NEW field \in Fields
  PROVE  AtExists(e, field) /\ e.at[field] \in 0..Len(e.heap)
  <1>1. e.at[field] \in Nat /\ e.at[field] <= Len(e.heap) /\ Len(e.heap) \in Nat
    BY DEF EnvOK, EnvRec, PointersInv
  <1> QED  BY <1>1 DEF AtExists

\* The first two classes are made by hand.
LEMMA FirstClassKeeps ==
  ASSUME NEW e, EnvOK(e), NEW super \in Nat, NEW allocate \in Allocators, NEW field \in Fields
  PROVE  Keeps(e, SetField(class_init(new_class(e, Null), last(e) + 1, super, super, allocate),
                           field))
  <1> DEFINE e1 == new_class(e, 0)
             e2 == class_init(e1, last(e) + 1, super, super, allocate)
  <1>0. Len(e.heap) \in Nat  BY HeapDomain
  <1>1. Keeps(e, e1) /\ last(e1) = last(e) + 1  BY <1>0, NewClassKeeps
  <1>2. EnvOK(e1) /\ last(e) + 1 \in 1..Len(e1.heap)
    <2>1. EnvOK(e1)  BY <1>1 DEF Keeps
    <2> QED  BY <1>0, <1>1, <2>1 DEF last
  <1> HIDE DEF e1
  <1>3. Keeps(e1, e2)  BY <1>2, ClassInitKeeps
  <1> HIDE DEF e2
  <1>4. EnvOK(e2) /\ Len(e2.heap) # 0
    <2>1. EnvOK(e2) /\ Len(e2.heap) \in Nat /\ Len(e1.heap) <= Len(e2.heap)  BY <1>3 DEF Keeps
    <2>2. Len(e1.heap) \in Nat /\ Len(e1.heap) # 0  BY <1>0, <1>1 DEF last
    <2> QED  BY <2>1, <2>2
  <1>5. Keeps(e2, SetField(e2, field))  BY <1>4, SetFieldKeeps
  <1>6. Keeps(e, e2)  BY <1>1, <1>3, KeepsTrans
  <1>7. Keeps(e, SetField(e2, field))  BY <1>5, <1>6, KeepsTrans
  <1> QED  BY <1>7 DEF e2, e1, Null

\* obj_init() on all objects, which so far are classes.
Reset(e, c) ==
  [e EXCEPT !.heap = [o \in DOMAIN @ |-> [@[o] EXCEPT !.type = c, !.attrs = <<>>]]]

\* Nothing is found in an empty list.
LEMMA EmptyValue ==
  ASSUME NEW t
  PROVE  ValueOf(<<>>, t) = Null
  <1>1. <<>> \in Seq(AttrRec) /\ \A j \in 1..Len(<<>>) : <<>>[j].sym # t  OBVIOUS
  <1>2. AttrAt(<<>>, t) = 0  BY <1>1, AttrAtNone
  <1> QED  BY <1>2 DEF ValueOf

\* Afterwards nothing is found anywhere.
LEMMA ResetOK ==
  ASSUME NEW e, EnvOK(e), NEW c \in 0..Len(e.heap)
  PROVE  /\ EnvOK(Reset(e, c)) /\ Len(Reset(e, c).heap) = Len(e.heap)
         /\ \A o \in 1..Len(e.heap) : \A z : pup_iv_get(Reset(e, c), o, z) = Null
  <1> DEFINE n == Len(e.heap)
             hp == [o \in DOMAIN e.heap |-> [e.heap[o] EXCEPT !.type = c, !.attrs = <<>>]]
             f == Reset(e, c)
  <1>1. e \in EnvRec /\ e.heap \in Seq(ObjectRec) /\ n \in Nat /\ DOMAIN e.heap = 1..n
    BY HeapDomain DEF EnvOK
  <1>2. c \in Nat /\ c <= n  BY <1>1
  <1>3. f = [e EXCEPT !.heap = hp]  BY DEF Reset
  <1>4. ASSUME NEW o \in 1..n
        PROVE  hp[o] \in ObjectRec /\ hp[o].attrs = <<>> /\ hp[o].type = c
    <2> DEFINE h == e.heap[o]
               h1 == [h EXCEPT !.type = c]
               h2 == [h1 EXCEPT !.attrs = <<>>]
    <2>1. hp[o] = [e.heap[o] EXCEPT !.type = c, !.attrs = <<>>]  BY <1>1
    <2>2. [e.heap[o] EXCEPT !.type = c, !.attrs = <<>>] = h2  OBVIOUS
    <2>3. h \in ObjectRec  BY <1>1
    <2> HIDE DEF h, hp
    <2>4. h1 \in ObjectRec /\ h1.type = c  BY <1>2, <2>3 DEF ObjectRec
    <2> HIDE DEF h1
    <2>5. h2 \in ObjectRec /\ h2.attrs = <<>> /\ h2.type = c
      <3> DEFINE nil == <<>>
      <3>1. nil \in Seq(AttrRec)  OBVIOUS
      <3>2. h2 = [h1 EXCEPT !.attrs = nil]  OBVIOUS
      <3> HIDE DEF nil, h2
      <3>3. h2 \in ObjectRec /\ h2.attrs = nil /\ h2.type = c  BY <2>4, <3>1, <3>2 DEF ObjectRec
      <3> QED  BY <3>3 DEF nil
    <2> HIDE DEF h2
    <2> QED  BY <2>1, <2>2, <2>5
  <1>5. hp = [o \in 1..n |-> hp[o]]  BY <1>1
  <1> HIDE DEF hp, f
  <1>6. hp \in Seq(ObjectRec) /\ Len(hp) = n
    <2>1. hp \in [1..n -> ObjectRec]  BY <1>4, <1>5
    <2> QED  BY <1>1, <2>1
  <1>7. /\ f \in EnvRec /\ f.heap = hp /\ f.symbols = e.symbols
        /\ f.next_sym = e.next_sym /\ f.at = e.at
    BY <1>1, <1>3, <1>6, WithHeap
  <1>8. EnvOK(f)
    <2>1. SymbolsInv(f)  BY <1>7 DEF EnvOK, SymbolsInv
    <2>2. AttrsInv(f)
      <3>1. \A o \in 1..n : 1..Len(hp[o].attrs) = {}  BY <1>4
      <3> QED  BY <1>6, <1>7, <3>1 DEF AttrsInv
    <2>3. PointersInv(f)  BY <1>2, <1>4, <1>6, <1>7 DEF EnvOK, PointersInv
    <2> QED  BY <1>7, <2>1, <2>2, <2>3 DEF EnvOK
  <1>9. ASSUME NEW o \in 1..n, NEW z
        PROVE  pup_iv_get(f, o, z) = Null
    BY <1>4, <1>7, GetIsValue, EmptyValue
  <1> QED  BY <1>6, <1>7, <1>8, <1>9 DEF f

\* It comes when there is nothing to be found.
LEMMA ObjInitStep ==
  ASSUME Inv, step = 2, step' = 3, body' = body, ivars' = ivars,
         env' = Reset(env, env.at["class_class"]), MainInv'
  PROVE  Inv'
  <1>1. EnvOK(env) /\ BoundInv /\ body \in 0..Len(env.heap)  BY DEF Inv
  <1>2. env.at["class_class"] \in 0..Len(env.heap)  BY <1>1, AtOK, FieldNames
  <1>3. /\ EnvOK(env') /\ Len(env'.heap) = Len(env.heap)
        /\ \A o \in 1..Len(env.heap) : \A z : pup_iv_get(env', o, z) = Null
    BY <1>1, <1>2, ResetOK
  <1>4. DOMAIN ivars = {}  BY <1>1 DEF BoundInv
  <1>5. AttributesByName'
    <2>1. \A o, m : Bound(o, m)' = Null  BY <1>4 DEF Bound
    <2>2. DOMAIN env'.heap = 1..Len(env.heap)  BY <1>3, HeapDomain
    <2> QED  BY <1>3, <2>1, <2>2 DEF AttributesByName, Objects
  <1>6. BoundInv'  BY <1>4 DEF BoundInv
  <1>7. step' \in 0..Len(runtime_init)  BY RuntimeInit DEF Begins
  <1> QED  BY <1>1, <1>3, <1>5, <1>6, <1>7 DEF Inv

\* Every statement of runtime_init() preserves the invariant.
LEMMA BootstrapStep ==
  ASSUME Inv, Bootstrap
  PROVE  Inv'
  <1> DEFINE s == runtime_init[step + 1]
             L == Len(runtime_init)
  <1>1. /\ EnvOK(env) /\ step \in 0..L /\ body \in 0..Len(env.heap) /\ L \in Nat /\ L >= 3
        /\ Len(env.heap) \in Nat
    BY RuntimeInit, HeapDomain DEF Inv, Begins
  <1>2. step' = step + 1 /\ body' = body /\ step + 1 \in 1..L /\ step' \in step..L
    BY <1>1 DEF Bootstrap, Booted
  <1>m. MainInv'
    <2> SUFFICES ASSUME step' = L, ~failed' PROVE env'.at["main_obj"] # 0
      BY DEF MainInv, Booted
    <2>1. Ready(env, s) /\ env' = Execute(env, s)  BY DEF Bootstrap
    <2>2. s.op = "instance" /\ s.field = "main_obj" /\ s.with = "class_object"
      BY <1>2, RuntimeInit
    <2> HIDE DEF s
    <2> DEFINE e == new_obj(env, env.at["class_object"])
    <2>3. env' = SetField(e, "main_obj")  BY <2>1, <2>2 DEF Execute
    <2>4. env.at["class_object"] \in Nat /\ env.at["class_object"] <= Len(env.heap)
      BY <1>1, AtOK, FieldNames DEF AtExists
    <2>5. Keeps(env, e) /\ last(e) = last(env) + 1  BY <1>1, <2>4, NewObjKeeps
    <2> HIDE DEF e
    <2>6. EnvOK(e) /\ Len(e.heap) # 0
      <3>1. EnvOK(e)  BY <2>5 DEF Keeps
      <3> QED  BY <1>1, <2>5, <3>1 DEF last
    <2> QED  BY <2>3, <2>6, SetFieldKeeps, FieldNames
  <1>3. ASSUME Keeps(env, env'), ivars' = ivars
        PROVE  Inv'
    <2>1. body' \in 0..Len(env'.heap)  BY <1>1, <1>2, <1>3 DEF Keeps
    <2> QED  BY <1>2, <1>3, <1>m, <2>1, KeepStep
  <1>4. CASE failed'
    <2>1. env' = env /\ ivars' = ivars  BY <1>4 DEF Bootstrap
    <2>2. Keeps(env, env)  BY <1>1 DEF Keeps
    <2> QED  BY <1>3, <2>1, <2>2
  <1>5. CASE ~failed'
    <2>1. Ready(env, s) /\ env' = Execute(env, s)  BY <1>5 DEF Bootstrap
    <2>2. s.op # "const" => ivars' = ivars  BY <1>5 DEF Bootstrap
    <2>3. CASE step = 0
      <3>1. s.op = "class_object"  BY <2>3, RuntimeInit DEF Begins
      <3>2. env' = SetField(class_init(new_class(env, Null), last(env) + 1, Null, Null, "object"),
                            "class_object")
        BY <2>1, <3>1 DEF Execute
      <3>3. "object" \in Allocators /\ Null \in Nat  BY DEF Allocators, Null
      <3>4. Keeps(env, env')  BY <1>1, <3>2, <3>3, FieldNames, FirstClassKeeps
      <3> QED  BY <1>3, <2>2, <3>1, <3>4
    <2>4. CASE step = 1
      <3>1. s.op = "class_class"  BY <2>4, RuntimeInit DEF Begins
      <3> DEFINE c == env.at["class_object"]
      <3>2. env' = SetField(class_init(new_class(env, Null), last(env) + 1, c, c, "class"),
                            "class_class")
        BY <2>1, <3>1 DEF Execute
      <3>3. "class" \in Allocators /\ c \in Nat  BY <1>1, FieldNames, AtOK DEF Allocators, AtExists
      <3> HIDE DEF c
      <3>4. Keeps(env, env')  BY <1>1, <3>2, <3>3, FieldNames, FirstClassKeeps
      <3> QED  BY <1>3, <2>2, <3>1, <3>4
    <2>5. CASE step = 2
      <3>1. s.op = "obj_init"  BY <2>5, RuntimeInit DEF Begins
      <3>2. env' = Reset(env, env.at["class_class"])  BY <2>1, <3>1 DEF Execute, Reset
      <3>3. step' = 3  BY <1>2, <2>5
      <3> QED  BY <1>2, <2>2, <2>5, <3>1, <3>2, <3>3, <1>m, ObjInitStep
    <2>6. CASE step >= 3
      <3>1. s \in Later /\ step' \in 3..L
        <4>1. step + 1 \in 4..Len(runtime_init)  BY <1>1, <1>2, <2>6
        <4> QED  BY <1>1, <1>2, <2>6, <4>1, RuntimeInit DEF Begins
      <3> HIDE DEF s
      <3>2. \/ s \in [op : {"method"}, field : Fields, name : Names, with : RuntimeMethods]
            \/ s \in [op : {"const"}, field : Fields, name : Names, with : {"class_object"}]
            \/ s \in [op : {"class"}, field : Fields, name : Allocators, with : Fields]
            \/ s \in [op : {"instance"}, field : Fields, name : {""}, with : Fields]
        BY <3>1 DEF Later
      <3>3. CASE s \in [op : {"method"}, field : Fields, name : Names, with : RuntimeMethods]
        <4>1. s.op = "method" /\ s.field \in Fields /\ s.name \in Names /\ s.with \in RuntimeMethods
          BY <3>3
        <4>2. env' = pup_define_method(env, env.at[s.field], s.name, s.with)
          BY <2>1, <4>1 DEF Execute
        <4>3. env.at[s.field] # 0  BY <2>1, <4>1 DEF Ready, Null
        <4>4. env.at[s.field] \in 1..Len(env.heap)
          <5>1. env.at[s.field] \in 0..Len(env.heap)  BY <1>1, <4>1, AtOK
          <5> QED  BY <1>1, <4>3, <5>1
        <4>5. s.with \in MethodValues  BY <4>1 DEF MethodValues
        <4>6. Keeps(env, env')  BY <1>1, <4>1, <4>2, <4>4, <4>5, DefineMethodKeeps
        <4> QED  BY <1>3, <2>2, <4>1, <4>6
      <3>4. CASE s \in [op : {"const"}, field : Fields, name : Names, with : {"class_object"}]
        <4>1. s.op = "const" /\ s.field \in Fields /\ s.name \in Names /\ s.with = "class_object"
          BY <3>4
        <4>2. env' = pup_iv_set(env, env.at["class_object"], s.name, env.at[s.field])
          BY <2>1, <4>1 DEF Execute
        <4>3. Bind(env.at["class_object"], s.name, env.at[s.field])
          BY <1>5, <4>1 DEF Bootstrap, s
        <4>4. env.at["class_object"] \in 0..Len(env.heap) /\ env.at[s.field] \in Nat
          BY <1>1, <4>1, FieldNames, AtOK DEF AtExists
        <4>5. Stores(env, env', env.at["class_object"], s.name, env.at[s.field])
          BY <1>1, <4>1, <4>2, <4>4, SetAnyStores
        <4>6. Keeps(env, env)  BY <1>1 DEF Keeps
        <4>7. body' \in 0..Len(env'.heap)  BY <1>1, <1>2, <4>5 DEF Stores
        <4> QED  BY <3>1, <4>1, <4>3, <4>4, <4>5, <4>6, <4>7, <1>m, StoreStep
      <3>5. CASE s \in [op : {"class"}, field : Fields, name : Allocators, with : Fields]
        <4>1. s.op = "class" /\ s.field \in Fields /\ s.name \in Allocators /\ s.with \in Fields
          BY <3>5
        <4> DEFINE e == pup_internal_create_class(env, env.at[s.with], Null, s.name)
        <4>2. env' = SetField(e, s.field)  BY <2>1, <4>1 DEF Execute
        <4>3. env.at[s.with] \in Nat /\ Null \in Nat  BY <1>1, <4>1, AtOK DEF AtExists, Null
        <4>4. Keeps(env, e) /\ last(e) = last(env) + 1  BY <1>1, <4>1, <4>3, CreateClassKeeps
        <4> HIDE DEF e
        <4>5. EnvOK(e) /\ Len(e.heap) # 0
          <5>1. EnvOK(e)  BY <4>4 DEF Keeps
          <5> QED  BY <1>1, <4>4, <5>1 DEF last
        <4>6. Keeps(e, env')  BY <4>1, <4>2, <4>5, SetFieldKeeps
        <4>7. Keeps(env, env')  BY <4>4, <4>6, KeepsTrans
        <4> QED  BY <1>3, <2>2, <4>1, <4>7
      <3>6. CASE s \in [op : {"instance"}, field : Fields, name : {""}, with : Fields]
        <4>1. s.op = "instance" /\ s.field \in Fields /\ s.with \in Fields
          BY <3>6
        <4> DEFINE e == new_obj(env, env.at[s.with])
        <4>2. env' = SetField(e, s.field)  BY <2>1, <4>1 DEF Execute
        <4>3. env.at[s.with] \in Nat /\ env.at[s.with] <= Len(env.heap)
          BY <1>1, <4>1, AtOK DEF AtExists
        <4>4. Keeps(env, e) /\ last(e) = last(env) + 1  BY <1>1, <4>3, NewObjKeeps
        <4> HIDE DEF e
        <4>5. EnvOK(e) /\ Len(e.heap) # 0
          <5>1. EnvOK(e)  BY <4>4 DEF Keeps
          <5> QED  BY <1>1, <4>4, <5>1 DEF last
        <4>6. Keeps(e, env')  BY <4>1, <4>2, <4>5, SetFieldKeeps
        <4>7. Keeps(env, env')  BY <4>4, <4>6, KeepsTrans
        <4> QED  BY <1>3, <2>2, <4>1, <4>7
      <3> QED  BY <3>2, <3>3, <3>4, <3>5, <3>6
    <2>7. step = 0 \/ step = 1 \/ step = 2 \/ step >= 3  BY <1>1
    <2> QED  BY <2>3, <2>4, <2>5, <2>6, <2>7
  <1> QED  BY <1>4, <1>5

-----------------------------------------------------------------------------
(* The program.                                                            *)

\* What the actions of the program start from.
LEMMA RunningFacts ==
  ASSUME Inv, Running
  PROVE  /\ EnvOK(env) /\ Len(env.heap) \in Nat /\ DOMAIN env.heap = 1..Len(env.heap)
         /\ step \in 3..Len(runtime_init) /\ body = 0
         /\ main \in 1..Len(env.heap) /\ main \in Nat /\ Keeps(env, env)
  <1>1. EnvOK(env) /\ Len(env.heap) \in Nat /\ DOMAIN env.heap = 1..Len(env.heap)
    BY HeapDomain DEF Inv
  <1>2. step \in 3..Len(runtime_init)  BY RuntimeInit DEF Running, Booted, Begins
  <1>3. main \in 1..Len(env.heap) /\ main \in Nat
    <2>1. main \in 0..Len(env.heap) /\ main \in Nat  BY <1>1, AtOK, FieldNames DEF main, AtExists
    <2>2. main # 0  BY DEF Inv, MainInv, Running, main
    <2> QED  BY <1>1, <2>1, <2>2
  <1>4. Keeps(env, env)  BY <1>1 DEF Keeps
  <1> QED  BY <1>1, <1>2, <1>3, <1>4 DEF Running, Null

\* Code runs with an object as self.
LEMMA SelfExists ==
  ASSUME Inv, Running, NEW self \in Selves
  PROVE  self \in 1..Len(env.heap)
  <1>1. self = main \/ self \in 1..Len(env.heap)  BY RunningFacts DEF Selves, Objects
  <1> QED  BY <1>1, RunningFacts

\* The type of an object is one.
LEMMA TypeExists ==
  ASSUME NEW e, EnvOK(e), NEW o \in 1..Len(e.heap)
  PROVE  e.heap[o].type \in 0..Len(e.heap)
  <1>1. e.heap[o] \in ObjectRec /\ e.heap[o].type <= Len(e.heap) /\ Len(e.heap) \in Nat
    BY HeapDomain DEF EnvOK, PointersInv
  <1>2. e.heap[o].type \in Nat  BY <1>1 DEF ObjectRec
  <1> QED  BY <1>1, <1>2

\* The main object stays.
LEMMA MainKept ==
  ASSUME Inv, Running, NEW e, Keeps(env, e), env'.at = e.at
  PROVE  MainInv'
  <1>1. env.at["main_obj"] # 0  BY DEF Inv, MainInv, Running
  <1> QED  BY <1>1, FieldNames DEF Keeps, MainInv

\* A step that neither stores an attribute nor starts a class body.
LEMMA QuietStep ==
  ASSUME Inv, Running, Keeps(env, env'), ivars' = ivars, step' = step, body' = body
  PROVE  Inv'
  <1>1. step' \in step..Len(runtime_init)  BY RunningFacts
  <1>2. body' \in 0..Len(env'.heap)  BY RunningFacts DEF Keeps
  <1>3. MainInv'  BY MainKept
  <1> QED  BY <1>1, <1>2, <1>3, KeepStep

\* One lemma per action of the program.
LEMMA IvSetStep ==
  ASSUME Inv, Running, NEW self \in Selves, NEW name \in IvNames, NEW val \in Values,
         IvSet(self, name, val)
  PROVE  Inv'
  <1>1. name \in Names /\ self \in 0..Len(env.heap)  BY NamesInUse, SelfExists, RunningFacts
  <1>2. val \in Nat  BY RunningFacts DEF Values, Null
  <1>3. env' = pup_iv_set(env, self, name, val) /\ Bind(self, name, val)
        /\ step' = step /\ body' = body
    BY DEF IvSet
  <1>4. Stores(env, env', self, name, val)  BY <1>1, <1>2, <1>3, RunningFacts, SetAnyStores
  <1>5. body' \in 0..Len(env'.heap) /\ step' \in 3..Len(runtime_init)
    BY <1>3, <1>4, RunningFacts DEF Stores
  <1>6. MainInv'  BY <1>4, RunningFacts, MainKept DEF Stores
  <1> QED  BY <1>1, <1>2, <1>3, <1>4, <1>5, <1>6, RunningFacts, StoreStep

\* Reading one.
LEMMA IvGetStep ==
  ASSUME Inv, Running, NEW self, NEW name \in IvNames, IvGet(self, name)
  PROVE  Inv'
  <1>1. name \in Names  BY NamesInUse
  <1>2. env' = pup_str_to_sym(env, name) /\ ivars' = ivars /\ step' = step /\ body' = body
    BY DEF IvGet
  <1>3. Keeps(env, env')  BY <1>1, <1>2, RunningFacts, InternKeeps
  <1> QED  BY <1>2, <1>3, QuietStep

\* A class definition.
LEMMA ClassDefStep ==
  ASSUME Inv, Running, NEW self \in Selves, NEW name \in ClassNames, ClassDef(self, name)
  PROVE  Inv'
  <1> DEFINE scope == pup_class_context_from(env, self)
             super == env.at["class_object"]
             e == pup_internal_create_class(env, super, scope, "object")
  <1>0. Running /\ Room /\ EnvOK(env) /\ Len(env.heap) \in Nat  BY RunningFacts DEF ClassDef
  <1>1. env' = pup_iv_set(e, scope, name, last(e)) /\ Bind(scope, name, last(e))
        /\ body' = last(e) /\ step' = step
    BY DEF ClassDef
  <1>2. self \in 1..Len(env.heap)  BY SelfExists
  <1>3. scope \in 0..Len(env.heap)
    BY <1>0, <1>2, TypeExists DEF pup_class_context_from
  <1>4. super \in Nat /\ scope \in Nat /\ "object" \in Allocators /\ name \in Names
    BY <1>0, <1>3, NamesInUse, FieldNames, AtOK DEF AtExists, Allocators
  <1> HIDE DEF scope, super
  <1>5. Keeps(env, e) /\ last(e) = last(env) + 1  BY <1>0, <1>4, CreateClassKeeps
  <1> HIDE DEF e
  <1>6. /\ EnvOK(e) /\ last(e) = Len(e.heap) /\ Len(e.heap) \in Nat /\ scope \in 0..Len(e.heap)
    <2>1. EnvOK(e) /\ Len(e.heap) \in Nat /\ Len(env.heap) <= Len(e.heap)  BY <1>5 DEF Keeps
    <2> QED  BY <1>0, <1>3, <2>1 DEF last
  <1>7. Stores(e, env', scope, name, last(e))  BY <1>1, <1>4, <1>6, SetAnyStores
  <1>8. body' \in 0..Len(env'.heap) /\ step' \in 3..Len(runtime_init)
    BY <1>1, <1>6, <1>7, RunningFacts DEF Stores
  <1>9. MainInv'  BY <1>5, <1>7, MainKept DEF Stores
  <1> QED  BY <1>1, <1>4, <1>5, <1>6, <1>7, <1>8, <1>9, StoreStep

\* The steps of a class body.
LEMMA MethodDefStep ==
  ASSUME Inv, NEW name \in MethodNames, MethodDef(name)
  PROVE  Inv'
  <1> DEFINE n == Len(env.heap[body].methods) + 1
             method == "method" \o ToString(n)
  <1>1. /\ EnvOK(env) /\ body \in 1..Len(env.heap) /\ step \in 0..Len(runtime_init)
        /\ env.heap \in Seq(ObjectRec) /\ Len(env.heap) \in Nat /\ Len(runtime_init) \in Nat
    <2>1. EnvOK(env) /\ body \in 0..Len(env.heap) /\ step \in 0..Len(runtime_init) /\ body # 0
      BY DEF Inv, MethodDef, Null
    <2> QED  BY <2>1, HeapDomain, RuntimeInit DEF Begins
  <1>2. /\ env' = pup_define_method(env, body, name, method)
        /\ step' = step /\ body' = body /\ failed' = failed /\ ivars' = ivars
    BY DEF MethodDef
  <1>3. n \in Nat
    <2>1. env.heap[body] \in ObjectRec  BY <1>1
    <2>2. env.heap[body].methods \in Seq(MethodRec)  BY <2>1 DEF ObjectRec
    <2> QED  BY <2>2
  <1> HIDE DEF n
  <1>4. method \in MethodValues
    <2>1. method \in {"method" \o ToString(m) : m \in Nat}  BY <1>3, Zenon
    <2> QED  BY <2>1, Zenon DEF MethodValues
  <1> HIDE DEF method
  <1>5. name \in Names  BY NamesInUse
  <1>6. Keeps(env, env')  BY <1>1, <1>2, <1>4, <1>5, DefineMethodKeeps
  <1>7. body' \in 0..Len(env'.heap)  BY <1>1, <1>2, <1>6 DEF Keeps
  <1>8. MainInv'  BY <1>2, <1>6, FieldNames DEF Inv, MainInv, Booted, Keeps
  <1>9. step' \in step..Len(runtime_init)  BY <1>1, <1>2
  <1> QED  BY <1>2, <1>6, <1>7, <1>8, <1>9, KeepStep

\* The end of a class body changes nothing else.
LEMMA EndClassStep ==
  ASSUME Inv, EndClass
  PROVE  Inv'
  <1>1. /\ env' = env /\ step' = step /\ body' = 0 /\ failed' = failed /\ ivars' = ivars
    BY DEF EndClass, Null
  <1>2. EnvOK(env) /\ Len(env.heap) \in Nat  BY HeapDomain DEF Inv
  <1>3. body' \in 0..Len(env'.heap)  BY <1>1, <1>2
  <1>4. MainInv'  BY <1>1 DEF Inv, MainInv, Booted
  <1>5. AttributesByName'  BY <1>1 DEF Inv, AttributesByName, Objects, Bound
  <1>6. BoundInv'  BY <1>1 DEF Inv, BoundInv
  <1> QED  BY <1>1, <1>2, <1>3, <1>4, <1>5, <1>6 DEF Inv

\* An exception with a message, in an environment with some more names.
LEMMA RaiseStep ==
  ASSUME Inv, Running, NEW e, Keeps(env, e), RaiseRuntimeError(e)
  PROVE  Inv'
  <1> DEFINE c == e.at["class_runtimeerror"]
             e1 == new_obj(e, c)
  <1>1. EnvOK(e) /\ Len(e.heap) \in Nat  BY DEF Keeps
  <1>2. c \in Nat /\ c <= Len(e.heap)  BY <1>1, AtOK, FieldNames DEF AtExists
  <1>3. /\ env' = pup_iv_set(e1, last(e1), "@message", last(e1))
        /\ Bind(last(env'), "@message", last(env')) /\ step' = step /\ body' = body
    BY DEF RaiseRuntimeError, pup_new_runtimeerror
  <1> HIDE DEF c
  <1>4. Keeps(e, e1) /\ last(e1) = last(e) + 1  BY <1>1, <1>2, NewObjKeeps
  <1> HIDE DEF e1
  <1>5. EnvOK(e1) /\ last(e1) \in 0..Len(e1.heap) /\ last(e1) \in Nat
    <2>1. EnvOK(e1) /\ Len(e1.heap) \in Nat  BY <1>4 DEF Keeps
    <2> QED  BY <2>1 DEF last
  <1>6. Stores(e1, env', last(e1), "@message", last(e1))
    BY <1>3, <1>5, NamesInUse, SetAnyStores
  <1>7. last(env') = last(e1)  BY <1>6 DEF Stores, last
  <1>8. Keeps(env, e1)  BY <1>4, KeepsTrans
  <1>9. body' \in 0..Len(env'.heap) /\ step' \in 3..Len(runtime_init)
    BY <1>3, <1>5, <1>7, RunningFacts DEF last
  <1>10. MainInv'  BY <1>6, <1>8, MainKept DEF Stores
  <1> QED  BY <1>3, <1>5, <1>6, <1>7, <1>8, <1>9, <1>10, NamesInUse, StoreStep

\* A constant is found, or an exception raised.
LEMMA ConstGetStep ==
  ASSUME Inv, Running, NEW self, NEW name \in ClassNames \cup {"Missing"}, ConstGet(self, name)
  PROVE  Inv'
  <1> DEFINE e == pup_str_to_sym(env, name)
  <1>1. name \in Names  BY DEF Names
  <1>2. Keeps(env, e)  BY <1>1, RunningFacts, InternKeeps
  <1>3. \/ RaiseRuntimeError(e)
        \/ env' = e /\ step' = step /\ body' = body /\ ivars' = ivars
    BY DEF ConstGet
  <1> HIDE DEF e
  <1>4. CASE RaiseRuntimeError(e)  BY <1>2, <1>4, RaiseStep
  <1>5. CASE env' = e /\ step' = step /\ body' = body /\ ivars' = ivars
    BY <1>2, <1>5, QuietStep
  <1> QED  BY <1>3, <1>4, <1>5

\* new, which may store the argument as the message of the new exception.
LEMMA InvokeNewStep ==
  ASSUME Inv, Running, NEW e, Keeps(env, e), NEW target \in 0..Len(env.heap), NEW arg \in Nat,
         InvokeNew(e, target, arg)
  PROVE  Inv'
  <1> DEFINE n == NewInstance(e, target)
             x == pup_str_to_sym(e, "allocate")
  <1>0. EnvOK(e) /\ target \in 0..Len(e.heap)
    <2>1. EnvOK(e) /\ Len(e.heap) \in Nat /\ Len(env.heap) <= Len(e.heap) /\ Len(env.heap) \in Nat
      BY DEF Keeps
    <2> QED  BY <2>1
  <1>1. \/ env' = e /\ step' = step /\ body' = body /\ ivars' = ivars
        \/ RaiseRuntimeError(x)
        \/ /\ env' = pup_class_new(e, target, arg) /\ step' = step /\ body' = body
           /\ IF pup_iv_get(env', last(env'), "@message") # Null
              THEN Bind(last(env'), "@message", arg) ELSE ivars' = ivars
    BY DEF InvokeNew
  <1>2. CASE env' = e /\ step' = step /\ body' = body /\ ivars' = ivars  BY <1>2, QuietStep
  <1>3. CASE RaiseRuntimeError(x)
    <2>1. "allocate" \in Names  BY DEF Names
    <2>2. Keeps(e, x)  BY <1>0, <2>1, InternKeeps
    <2>3. Keeps(env, x)  BY <2>2, KeepsTrans
    <2> HIDE DEF x
    <2> QED  BY <1>3, <2>3, RaiseStep
  <1>4. CASE /\ env' = pup_class_new(e, target, arg) /\ step' = step /\ body' = body
             /\ IF pup_iv_get(env', last(env'), "@message") # Null
                THEN Bind(last(env'), "@message", arg) ELSE ivars' = ivars
    <2>1. Keeps(e, n) /\ last(n) = last(e) + 1  BY <1>0, NewInstanceKeeps
    <2>2. Keeps(env, n)  BY <2>1, KeepsTrans
    <2>3. EnvOK(n) /\ last(n) \in 1..Len(n.heap) /\ last(n) = Len(n.heap) /\ Len(e.heap) \in Nat
      <3>1. EnvOK(n) /\ Len(n.heap) \in Nat /\ Len(e.heap) \in Nat  BY <2>1 DEF Keeps
      <3> QED  BY <2>1, <3>1 DEF last
    <2>4. \/ arg # 0 /\ env' = pup_iv_set(n, last(n), "@message", arg)
          \/ env' = n
      BY <1>4 DEF pup_class_new, NewInstance, Null
    <2> HIDE DEF n
    <2>5. CASE arg # 0 /\ env' = pup_iv_set(n, last(n), "@message", arg)
      <3>0. last(n) \in 0..Len(n.heap)  BY <2>3
      <3>1. Stores(n, env', last(n), "@message", arg)
        BY <2>3, <2>5, <3>0, NamesInUse, SetAnyStores
      <3>2. last(env') = last(n) /\ last(n) \in 1..Len(env'.heap)  BY <2>3, <3>1 DEF Stores, last
      <3>3. pup_iv_get(env', last(n), "@message") = arg  BY <3>1, <3>2, NamesInUse DEF Stores
      <3>4. Bind(last(n), "@message", arg)  BY <1>4, <2>5, <3>2, <3>3 DEF Null
      <3>5. body' \in 0..Len(env'.heap) /\ step' \in 3..Len(runtime_init)
        BY <1>4, <2>3, <3>1, RunningFacts DEF Stores
      <3>6. MainInv'  BY <2>2, <3>1, MainKept DEF Stores
      <3> QED  BY <2>2, <3>0, <3>1, <3>4, <3>5, <3>6, NamesInUse, StoreStep
    <2>6. CASE env' = n
      <3>1. last(n) \in 1..Len(n.heap) /\ ~(last(n) <= Len(e.heap))  BY <2>1, <2>3 DEF last
      <3>2. pup_iv_get(env', last(env'), "@message") = Null
        BY <2>1, <2>6, <3>1, NamesInUse DEF Keeps
      <3>3. ivars' = ivars  BY <1>4, <3>2
      <3> QED  BY <1>4, <2>2, <2>6, <3>3, QuietStep
    <2> QED  BY <2>4, <2>5, <2>6
  <1> QED  BY <1>1, <1>2, <1>3, <1>4

\* A method call, by the method that is found.
LEMMA InvokeStep ==
  ASSUME Inv, Running, NEW target \in Targets, NEW name \in MethodNames \cup {"new", "message"},
         NEW arg \in {Null, main}, pup_invoke(target, name, arg)
  PROVE  Inv'
  <1> DEFINE e == pup_str_to_sym(env, name)
             Still == step' = step /\ body' = body /\ ivars' = ivars
  <1>1. name \in Names /\ arg \in Nat  BY RunningFacts DEF Names, Null
  <1>2. target \in 0..Len(env.heap)
    <2>1. \/ target \in 1..Len(env.heap)
          \/ \E f \in {"class_class", "class_runtimeerror", "class_fixnum"} : target = env.at[f]
      BY RunningFacts DEF Targets, Objects
    <2>2. \A f \in {"class_class", "class_runtimeerror", "class_fixnum"} : f \in Fields
      BY FieldNames
    <2> QED  BY <2>1, <2>2, RunningFacts, AtOK
  <1>3. Keeps(env, e) /\ e.heap = env.heap  BY <1>1, RunningFacts, InternKeeps
  <1>4. \/ RaiseRuntimeError(e)
        \/ InvokeNew(e, target, arg)
        \/ env' = pup_str_to_sym(e, "@message") /\ Still
        \/ /\ env' = pup_iv_set(e, target, "@message", arg) /\ Bind(target, "@message", arg)
           /\ step' = step /\ body' = body
        \/ env' = e /\ Still
    BY DEF pup_invoke
  <1> HIDE DEF e
  <1>5. EnvOK(e)  BY <1>3 DEF Keeps
  <1>6. CASE RaiseRuntimeError(e)  BY <1>3, <1>6, RaiseStep
  <1>7. CASE InvokeNew(e, target, arg)  BY <1>1, <1>2, <1>3, <1>7, InvokeNewStep
  <1>8. CASE env' = pup_str_to_sym(e, "@message") /\ Still
    <2>1. Keeps(e, env')  BY <1>5, <1>8, NamesInUse, InternKeeps
    <2>2. Keeps(env, env')  BY <1>3, <2>1, KeepsTrans
    <2> QED  BY <1>8, <2>2, QuietStep
  <1>9. CASE /\ env' = pup_iv_set(e, target, "@message", arg) /\ Bind(target, "@message", arg)
             /\ step' = step /\ body' = body
    <2>0. target \in 0..Len(e.heap)  BY <1>2, <1>3
    <2>1. Stores(e, env', target, "@message", arg)
      BY <1>1, <1>5, <1>9, <2>0, NamesInUse, SetAnyStores
    <2>2. body' \in 0..Len(env'.heap) /\ step' \in 3..Len(runtime_init)
      BY <1>3, <1>9, <2>1, RunningFacts DEF Stores
    <2>3. MainInv'  BY <1>3, <2>1, MainKept DEF Stores
    <2> QED  BY <1>1, <1>3, <1>9, <2>0, <2>1, <2>2, <2>3, NamesInUse, StoreStep
  <1>10. CASE env' = e /\ Still  BY <1>3, <1>10, QuietStep
  <1> QED  BY <1>4, <1>6, <1>7, <1>8, <1>9, <1>10

\* The abort on a null target.
LEMMA InvokeOnNullStep ==
  ASSUME Inv, Running, NEW self, NEW name, InvokeOnNull(self, name)
  PROVE  Inv'
  <1>1. env' = env /\ step' = step /\ body' = body /\ ivars' = ivars  BY DEF InvokeOnNull
  <1> QED  BY <1>1, RunningFacts, QuietStep

-----------------------------------------------------------------------------
(* Attributes.                                                             *)

\* The invariant holds before the bootstrap, ...
LEMMA InvInit ==
  Init => Inv
  <1> SUFFICES ASSUME Init PROVE Inv  OBVIOUS
  <1>1. /\ env = [symbols |-> <<>>, next_sym |-> 1, heap |-> <<>>, at |-> [f \in Fields |-> 0]]
        /\ step = 0 /\ body = 0 /\ ivars = <<>>
    BY DEF Init, Null
  <1>2. <<>> \in Seq(EntryRec) /\ Len(<<>>) = 0  OBVIOUS
  <1>3. <<>> \in Seq(ObjectRec)  OBVIOUS
  <1>4. env \in EnvRec  BY <1>1, <1>2, <1>3 DEF EnvRec
  <1>5. /\ env.symbols = <<>> /\ env.next_sym = 1 /\ env.heap = <<>>
        /\ env.at = [f \in Fields |-> 0]
    BY <1>1
  <1>6. 1..Len(env.heap) = {} /\ Len(env.heap) = 0 /\ 1..Len(env.symbols) = {}
        /\ Len(env.symbols) = 0 /\ DOMAIN env.heap = {}
    BY <1>2, <1>5
  <1>7. EnvOK(env)
    BY <1>4, <1>5, <1>6 DEF EnvOK, SymbolsInv, AttrsInv, PointersInv
  <1>8. DOMAIN ivars = {}  BY <1>1
  <1>9. BoundInv  BY <1>8 DEF BoundInv
  <1>10. AttributesByName  BY <1>6 DEF AttributesByName, Objects
  <1>11. Len(runtime_init) \in Nat /\ Len(runtime_init) >= 3  BY RuntimeInit DEF Begins
  <1>12. MainInv  BY <1>1, <1>11 DEF MainInv, Booted
  <1>13. step \in 0..Len(runtime_init) /\ body \in 0..Len(env.heap)  BY <1>1, <1>6, <1>11
  <1> QED  BY <1>7, <1>9, <1>10, <1>12, <1>13 DEF Inv

\* ... and every step preserves it.
LEMMA InvNext ==
  Inv /\ [Next]_vars => Inv'
  <1> SUFFICES ASSUME Inv, [Next]_vars PROVE Inv'  OBVIOUS
  <1>1. CASE Bootstrap  BY <1>1, BootstrapStep
  <1>2. CASE Program
    <2>1. Running  BY <1>2 DEF Program
    <2>2. CASE \E self \in Selves, n \in IvNames, v \in Values : IvSet(self, n, v)
      BY <2>1, <2>2, IvSetStep
    <2>3. CASE \E self \in Selves, n \in IvNames : IvGet(self, n)
      BY <2>1, <2>3, IvGetStep
    <2>4. CASE \E self \in Selves, n \in ClassNames : ClassDef(self, n)
      BY <2>1, <2>4, ClassDefStep
    <2>5. CASE \E self \in Selves, n \in ClassNames \cup {"Missing"} : ConstGet(self, n)
      BY <2>1, <2>5, ConstGetStep
    <2>6. CASE \E t \in Targets, n \in MethodNames \cup {"new", "message"}, arg \in {Null, main} :
                 pup_invoke(t, n, arg)
      BY <2>1, <2>6, InvokeStep
    <2>7. CASE \E self \in Selves, n \in IvNames : InvokeOnNull(self, n)
      BY <2>1, <2>7, InvokeOnNullStep
    <2> QED  BY <1>2, <2>2, <2>3, <2>4, <2>5, <2>6, <2>7 DEF Program
  <1>3. CASE ClassBody  BY <1>3, MethodDefStep, EndClassStep DEF ClassBody
  <1>4. CASE UNCHANGED vars
    <2>1. /\ env' = env /\ step' = step /\ body' = body /\ failed' = failed /\ ivars' = ivars
      BY <1>4 DEF vars
    <2>2. MainInv'  BY <2>1 DEF Inv, MainInv, Booted
    <2>3. AttributesByName'  BY <2>1 DEF Inv, AttributesByName, Objects, Bound
    <2>4. BoundInv'  BY <2>1 DEF Inv, BoundInv
    <2> QED  BY <2>1, <2>2, <2>3, <2>4 DEF Inv
  <1> QED  BY <1>1, <1>2, <1>3, <1>4 DEF Next

\* The inductive invariant of the object model holds for every set of names the
\* program uses and any number of objects, from the first statement of
\* runtime_init() on: symbols are handed out in order and only once, and
\* attributes only ever carry a symbol of the table.
THEOREM InvHolds ==
  Spec => []Inv
  BY InvInit, InvNext, PTL DEF Spec

\* Whatever the program, its names and the number of objects it makes, every
\* attribute and constant is found under the name it was stored under, with
\* the value last stored there, and nothing is found under other names: the
\* search for interned symbols in pup_iv_get(), and pup_iv_set(), which grows
\* or overwrites the list, implement a map.
THEOREM AttributesAlwaysByName ==
  Spec => []AttributesByName
  <1>1. Inv => AttributesByName  BY DEF Inv
  <1> QED  BY <1>1, InvHolds, PTL

-----------------------------------------------------------------------------
(* Walks up the classes: recursive functions along a pointer that leads to *)
(* a lower object.                                                         *)

Downward(n, down) == down \in [1..n -> Nat] /\ \A c \in 1..n : down[c] < c
Walk(n, V, z, down, G, f) ==
  f \in [0..n -> V] /\ f[0] = z /\ \A c \in 1..n : f[c] = G[<<c, f[down[c]]>>]

\* A function can follow a pointer down to 0 and apply G on the way.
LEMMA Chain ==
  ASSUME NEW n \in Nat, NEW V, NEW z \in V, NEW down, Downward(n, down),
         NEW G \in [(1..n) \X V -> V]
  PROVE  \E f : Walk(n, V, z, down, G, f)
  <1>0. down \in [1..n -> Nat] /\ \A c \in 1..n : down[c] < c  BY DEF Downward
  <1> DEFINE Good(m) == \E f \in [0..m -> V] :
                          f[0] = z /\ \A c \in 1..m : f[c] = G[<<c, f[down[c]]>>]
             bad == {m \in 0..n : ~Good(m)}
  <1>1. bad \in SUBSET Nat  OBVIOUS
  <1>2. SUFFICES ASSUME bad # {} PROVE FALSE
    <2>1. n \in 0..n  OBVIOUS
    <2>2. Good(n)  BY <1>2, <2>1
    <2> QED  BY <2>2 DEF Walk
  <1> DEFINE m == Min(bad)
  <1>3. m \in bad /\ \A j \in bad : m <= j  BY <1>1, <1>2, Least
  <1>4. m \in 0..n /\ ~Good(m) /\ \A j \in 0..n : j < m => Good(j)
    <2>1. m \in 0..n /\ ~Good(m)  BY <1>3
    <2>2. ASSUME NEW j \in 0..n, j < m PROVE Good(j)
      <3> SUFFICES ASSUME ~Good(j) PROVE FALSE  OBVIOUS
      <3>1. j \in bad  OBVIOUS
      <3>2. m <= j  BY <1>3, <3>1
      <3> HIDE DEF m
      <3> QED  BY <2>1, <2>2, <3>2
    <2> QED  BY <2>1, <2>2
  <1> HIDE DEF bad, m
  <1>5. CASE m = 0
    <2> DEFINE f == [c \in 0..0 |-> z]
    <2>1. f \in [0..0 -> V] /\ f[0] = z /\ 1..0 = {}  OBVIOUS
    <2> HIDE DEF f
    <2>2. Good(0)  BY <2>1
    <2> QED  BY <1>4, <1>5, <2>2
  <1>6. CASE m # 0
    <2>1. m - 1 \in 0..n /\ m - 1 < m /\ m \in 1..n  BY <1>4, <1>6
    <2>2. PICK f \in [0..(m - 1) -> V] :
            f[0] = z /\ \A c \in 1..(m - 1) : f[c] = G[<<c, f[down[c]]>>]
      BY <1>4, <2>1
    <2>3. \A c \in 1..m : down[c] \in 0..(m - 1)
      <3> SUFFICES ASSUME NEW c \in 1..m PROVE down[c] \in 0..(m - 1)  OBVIOUS
      <3>1. c \in 1..n  BY <2>1
      <3>2. down[c] \in Nat /\ down[c] < c  BY <1>0, <3>1
      <3> QED  BY <2>1, <3>2
    <2> DEFINE v == G[<<m, f[down[m]]>>]
               g == [c \in 0..m |-> IF c = m THEN v ELSE f[c]]
    <2>4. f[down[m]] \in V /\ v \in V
      <3>1. m \in 1..m  BY <2>1
      <3>2. f[down[m]] \in V  BY <2>3, <3>1
      <3> QED  BY <2>1, <3>2
    <2>5. \A c \in 0..m : c # m => c \in 0..(m - 1)  BY <2>1
    <2>6. g \in [0..m -> V] /\ g[m] = v /\ \A c \in 0..(m - 1) : g[c] = f[c]
      <3> HIDE DEF v
      <3>1. \A c \in 0..(m - 1) : c \in 0..m /\ c # m  BY <2>1
      <3>2. m \in 0..m  BY <2>1
      <3> QED  BY <2>4, <2>5, <3>1, <3>2
    <2> HIDE DEF g
    <2>7. g[0] = z
      <3>1. 0 \in 0..(m - 1)  BY <2>1
      <3> QED  BY <2>2, <2>6, <3>1
    <2>8. ASSUME NEW c \in 1..m PROVE g[c] = G[<<c, g[down[c]]>>]
      <3>1. g[down[c]] = f[down[c]]  BY <2>3, <2>6
      <3>2. CASE c = m  BY <2>6, <3>1, <3>2 DEF v
      <3>3. CASE c # m
        <4>1. c \in 1..(m - 1) /\ c \in 0..(m - 1)  BY <2>1, <3>3
        <4> QED  BY <2>2, <2>6, <3>1, <4>1
      <3> QED  BY <3>2, <3>3
    <2>9. Good(m)  BY <2>6, <2>7, <2>8
    <2> QED  BY <1>4, <2>9
  <1> QED  BY <1>5, <1>6

\* The superclass and the scope of a class are older than the class.
TreeInv(e) ==
  \A o \in 1..Len(e.heap) : e.heap[o].superclass < o /\ e.heap[o].scope < o

\* The first method with symbol s, and the search along the superclasses.
MethodAt(ml, s) == SelectInSeq(ml, LAMBDA m : m.sym = s)
OwnMethod(e, c, str) == MethodAt(e.heap[c].methods, sym(e, str))

FindStep(e, str, f) ==
  [c \in 0 .. Len(e.heap) |->
     IF c = Null THEN "none"
     ELSE IF OwnMethod(e, c, str) # 0 THEN e.heap[c].methods[OwnMethod(e, c, str)].method
     ELSE f[e.heap[c].superclass]]

\* The search returns the first method with the symbol, or 0.
LEMMA MethodAtFirst ==
  ASSUME NEW ml \in Seq(MethodRec), NEW s
  PROVE  /\ MethodAt(ml, s) \in 0..Len(ml)
         /\ MethodAt(ml, s) # 0 => ml[MethodAt(ml, s)].sym = s
         /\ \A j \in 1..Len(ml) : ml[j].sym = s => MethodAt(ml, s) # 0 /\ MethodAt(ml, s) <= j
  <1> DEFINE I == {i \in 1..Len(ml) : ml[i].sym = s}
  <1>1. MethodAt(ml, s) = IF I # {} THEN Min(I) ELSE 0  BY DEF MethodAt, SelectInSeq
  <1>2. I \in SUBSET Nat  OBVIOUS
  <1>3. CASE I = {}  BY <1>1, <1>3
  <1>4. CASE I # {}
    <2>1. MethodAt(ml, s) \in I /\ \A j \in I : MethodAt(ml, s) <= j
      <3> HIDE DEF I
      <3> QED  BY <1>1, <1>2, <1>4, Least
    <2> QED  BY <2>1
  <1> QED  BY <1>3, <1>4

\* The walk of find_method_in_classes(), one class at a time.
LEMMA FindWalk ==
  ASSUME NEW e, EnvOK(e), TreeInv(e), NEW str
  PROVE  /\ find_method_in_classes(e, 0, str) = "none"
         /\ \A c \in 1..Len(e.heap) :
              find_method_in_classes(e, c, str)
                = IF OwnMethod(e, c, str) # 0 THEN e.heap[c].methods[OwnMethod(e, c, str)].method
                  ELSE find_method_in_classes(e, e.heap[c].superclass, str)
  <1> DEFINE n == Len(e.heap)
             V == MethodValues \cup {"none"}
             Here(c) == OwnMethod(e, c, str)
             down == [c \in 1..n |-> e.heap[c].superclass]
             G == [p \in (1..n) \X V |->
                     IF Here(p[1]) # 0 THEN e.heap[p[1]].methods[Here(p[1])].method ELSE p[2]]
  <1>1. n \in Nat /\ e.heap \in Seq(ObjectRec)  BY HeapDomain
  <1>2. \A c \in 1..n : e.heap[c] \in ObjectRec  BY <1>1
  <1>3. /\ down \in [1..n -> Nat] /\ \A c \in 1..n : down[c] < c /\ down[c] = e.heap[c].superclass
    BY <1>2 DEF ObjectRec, TreeInv
  <1>4. ASSUME NEW c \in 1..n, Here(c) # 0 PROVE e.heap[c].methods[Here(c)].method \in V
    <2>1. e.heap[c].methods \in Seq(MethodRec)  BY <1>2 DEF ObjectRec
    <2>2. Here(c) \in 1..Len(e.heap[c].methods)
      <3>1. Here(c) \in 0..Len(e.heap[c].methods)  BY <2>1, MethodAtFirst DEF OwnMethod
      <3>2. Len(e.heap[c].methods) \in Nat  BY <2>1
      <3> HIDE DEF Here
      <3> QED  BY <1>4, <3>1, <3>2
    <2> HIDE DEF Here
    <2>3. e.heap[c].methods[Here(c)] \in MethodRec  BY <2>1, <2>2
    <2>4. e.heap[c].methods[Here(c)].method \in MethodValues  BY <2>3 DEF MethodRec
    <2> QED  BY <2>4, Zenon
  <1> HIDE DEF Here
  <1>5. /\ G \in [(1..n) \X V -> V]
        /\ \A c \in 1..n : \A v \in V :
             G[<<c, v>>] = IF Here(c) # 0 THEN e.heap[c].methods[Here(c)].method ELSE v
    <2>1. ASSUME NEW p \in (1..n) \X V
          PROVE  (IF Here(p[1]) # 0 THEN e.heap[p[1]].methods[Here(p[1])].method ELSE p[2]) \in V
      <3>1. p[1] \in 1..n /\ p[2] \in V  OBVIOUS
      <3> HIDE DEF V
      <3> QED  BY <1>4, <3>1
    <2> HIDE DEF V
    <2> QED  BY <2>1
  <1>6. "none" \in V  OBVIOUS
  <1> HIDE DEF down, G, V
  <1>7. PICK f \in [0..n -> V] : f[0] = "none" /\ \A c \in 1..n : f[c] = G[<<c, f[down[c]]>>]
    <2>1. Downward(n, down)  BY <1>3 DEF Downward
    <2>2. \A z \in V : \E f : Walk(n, V, z, down, G, f)
      <3> HIDE DEF n
      <3> QED  BY <1>1, <1>5, <2>1, Chain, Zenon
    <2>3. \E f : Walk(n, V, "none", down, G, f)  BY <1>6, <2>2, Zenon
    <2> QED  BY <2>3 DEF Walk
  <1>8. ASSUME NEW c \in 1..n
        PROVE  f[c] = IF Here(c) # 0 THEN e.heap[c].methods[Here(c)].method
                      ELSE f[e.heap[c].superclass]
    <2>1. down[c] \in 0..n /\ down[c] = e.heap[c].superclass
      <3>1. down[c] \in Nat /\ down[c] < c /\ down[c] = e.heap[c].superclass  BY <1>3
      <3> QED  BY <1>1, <3>1
    <2>2. f[down[c]] \in V  BY <2>1
    <2> QED  BY <1>5, <1>7, <2>1, <2>2
  <1>9. f = FindStep(e, str, f)
    <2>1. \A c \in 0..n : c = 0 \/ c \in 1..n  BY <1>1
    <2>2. \A c \in 1..n : c # 0  BY <1>1
    <2>3. ASSUME NEW c \in 0..n PROVE f[c] = FindStep(e, str, f)[c]
      BY <1>7, <1>8, <2>1, <2>2 DEF FindStep, Null, Here
    <2>4. DOMAIN f = 0..n /\ DOMAIN FindStep(e, str, f) = 0..n
          /\ f = [c \in DOMAIN f |-> f[c]]
          /\ FindStep(e, str, f) = [c \in 0..n |-> FindStep(e, str, f)[c]]
      BY DEF FindStep
    <2> HIDE DEF n
    <2> QED  BY <2>3, <2>4
  <1> DEFINE find == CHOOSE g : g = FindStep(e, str, g)
  <1>10. find = FindStep(e, str, find)
    <2>1. \E g : g = FindStep(e, str, g)  BY <1>9
    <2> QED  BY <2>1, Zenon
  <1>11. \A c : find_method_in_classes(e, c, str) = find[c]
    BY Zenon DEF find_method_in_classes, FindStep, OwnMethod, MethodAt
  <1> HIDE DEF find
  <1>12. find[0] = "none"
    <2>1. 0 \in 0..n  BY <1>1
    <2> QED  BY <1>10, <2>1 DEF FindStep, Null
  <1>13. \A c \in 1..n : find[c] = IF Here(c) # 0 THEN e.heap[c].methods[Here(c)].method
                                   ELSE find[e.heap[c].superclass]
    <2>1. \A c \in 1..n : c \in 0..n /\ c # 0  BY <1>1
    <2> QED  BY <1>10, <2>1 DEF FindStep, Null, Here
  <1> QED  BY <1>11, <1>12, <1>13 DEF Here

\* The walk of pup_const_get() through the scopes.
GetStep(e, str, f) ==
  [c \in 0 .. Len(e.heap) |->
     IF c = Null THEN Null
     ELSE IF pup_iv_get(e, c, str) # Null THEN pup_iv_get(e, c, str)
     ELSE f[e.heap[c].scope]]

\* pup_const_get(), one scope at a time.
LEMMA GetWalk ==
  ASSUME NEW e, EnvOK(e), TreeInv(e), NEW str
  PROVE  /\ pup_const_get(e, 0, str) = 0
         /\ \A c \in 1..Len(e.heap) :
              pup_const_get(e, c, str)
                = IF pup_iv_get(e, c, str) # 0 THEN pup_iv_get(e, c, str)
                  ELSE pup_const_get(e, e.heap[c].scope, str)
  <1> DEFINE n == Len(e.heap)
             Here(c) == pup_iv_get(e, c, str)
             V == {Here(c) : c \in 1..n} \cup {0}
             down == [c \in 1..n |-> e.heap[c].scope]
             G == [p \in (1..n) \X V |-> IF Here(p[1]) # 0 THEN Here(p[1]) ELSE p[2]]
  <1>1. n \in Nat /\ e.heap \in Seq(ObjectRec)  BY HeapDomain
  <1>2. \A c \in 1..n : e.heap[c] \in ObjectRec  BY <1>1
  <1>3. /\ down \in [1..n -> Nat] /\ \A c \in 1..n : down[c] < c /\ down[c] = e.heap[c].scope
    BY <1>2 DEF ObjectRec, TreeInv
  <1>4. 0 \in V /\ \A c \in 1..n : Here(c) \in V  OBVIOUS
  <1> HIDE DEF Here, V
  <1>5. /\ G \in [(1..n) \X V -> V]
        /\ \A c \in 1..n : \A v \in V : G[<<c, v>>] = IF Here(c) # 0 THEN Here(c) ELSE v
    BY <1>4
  <1> HIDE DEF down, G
  <1>7. PICK f \in [0..n -> V] : f[0] = 0 /\ \A c \in 1..n : f[c] = G[<<c, f[down[c]]>>]
    <2>1. Downward(n, down)  BY <1>3 DEF Downward
    <2>2. \A z \in V : \E f : Walk(n, V, z, down, G, f)
      <3> HIDE DEF n
      <3> QED  BY <1>1, <1>5, <2>1, Chain, Zenon
    <2>3. \E f : Walk(n, V, 0, down, G, f)  BY <1>4, <2>2, Zenon
    <2> QED  BY <2>3 DEF Walk
  <1>8. ASSUME NEW c \in 1..n
        PROVE  f[c] = IF Here(c) # 0 THEN Here(c) ELSE f[e.heap[c].scope]
    <2>1. down[c] \in 0..n /\ down[c] = e.heap[c].scope
      <3>1. down[c] \in Nat /\ down[c] < c /\ down[c] = e.heap[c].scope  BY <1>3
      <3> QED  BY <1>1, <3>1
    <2>2. f[down[c]] \in V  BY <2>1
    <2> QED  BY <1>5, <1>7, <2>1, <2>2
  <1>9. f = GetStep(e, str, f)
    <2>1. \A c \in 0..n : c = 0 \/ c \in 1..n  BY <1>1
    <2>2. \A c \in 1..n : c # 0  BY <1>1
    <2>3. ASSUME NEW c \in 0..n PROVE f[c] = GetStep(e, str, f)[c]
      BY <1>7, <1>8, <2>1, <2>2 DEF GetStep, Null, Here
    <2>4. DOMAIN f = 0..n /\ DOMAIN GetStep(e, str, f) = 0..n
          /\ f = [c \in DOMAIN f |-> f[c]]
          /\ GetStep(e, str, f) = [c \in 0..n |-> GetStep(e, str, f)[c]]
      BY DEF GetStep
    <2> HIDE DEF n
    <2> QED  BY <2>3, <2>4
  <1> DEFINE get == CHOOSE g : g = GetStep(e, str, g)
  <1>10. get = GetStep(e, str, get)
    <2>1. \E g : g = GetStep(e, str, g)  BY <1>9
    <2> QED  BY <2>1, Zenon
  <1>11. \A c : pup_const_get(e, c, str) = get[c]
    BY Zenon DEF pup_const_get, GetStep
  <1> HIDE DEF get
  <1>12. get[0] = 0
    <2>1. 0 \in 0..n  BY <1>1
    <2> QED  BY <1>10, <2>1 DEF GetStep, Null
  <1>13. \A c \in 1..n : get[c] = IF Here(c) # 0 THEN Here(c) ELSE get[e.heap[c].scope]
    <2>1. \A c \in 1..n : c \in 0..n /\ c # 0  BY <1>1
    <2> QED  BY <1>10, <2>1 DEF GetStep, Null, Here
  <1> QED  BY <1>11, <1>12, <1>13 DEF Here

\* The superclasses of a class are the class and those of its superclass, and are
\* not newer than it.
UpStep(f) ==
  [c \in Ref |-> IF c = Null THEN {} ELSE {c} \cup f[env.heap[c].superclass]]

\* The superclasses of a class: it and those of its superclass, all as old or older.
LEMMA UpWalk ==
  ASSUME EnvOK(env), TreeInv(env)
  PROVE  /\ Superclasses(0) = {}
         /\ \A c \in 1..Len(env.heap) :
              /\ Superclasses(c) = {c} \cup Superclasses(env.heap[c].superclass)
              /\ Superclasses(c) \subseteq 1..c
  <1> DEFINE n == Len(env.heap)
             V == SUBSET (1..n)
             down == [c \in 1..n |-> env.heap[c].superclass]
             G == [p \in (1..n) \X V |-> {p[1]} \cup p[2]]
  <1>1. n \in Nat /\ env.heap \in Seq(ObjectRec) /\ DOMAIN env.heap = 1..n  BY HeapDomain
  <1>r. Ref = 0..n  BY <1>1 DEF Ref, Objects, Null
  <1>2. \A c \in 1..n : env.heap[c] \in ObjectRec  BY <1>1
  <1>3. /\ down \in [1..n -> Nat] /\ \A c \in 1..n : down[c] < c /\ down[c] = env.heap[c].superclass
    BY <1>2 DEF ObjectRec, TreeInv
  <1>4. {} \in V  OBVIOUS
  <1>5. /\ G \in [(1..n) \X V -> V]
        /\ \A c \in 1..n : \A v \in V : G[<<c, v>>] = {c} \cup v
    OBVIOUS
  <1> HIDE DEF down, G, V
  <1>7. PICK f \in [0..n -> V] : f[0] = {} /\ \A c \in 1..n : f[c] = G[<<c, f[down[c]]>>]
    <2>1. Downward(n, down)  BY <1>3 DEF Downward
    <2>2. \A z \in V : \E f : Walk(n, V, z, down, G, f)
      <3> HIDE DEF n
      <3> QED  BY <1>1, <1>5, <2>1, Chain, Zenon
    <2>3. \E f : Walk(n, V, {}, down, G, f)  BY <1>4, <2>2, Zenon
    <2> QED  BY <2>3 DEF Walk
  <1>s. \A c \in 1..n : down[c] \in 0..n /\ down[c] = env.heap[c].superclass /\ down[c] < c
    <2> SUFFICES ASSUME NEW c \in 1..n
                 PROVE  down[c] \in 0..n /\ down[c] = env.heap[c].superclass /\ down[c] < c
      OBVIOUS
    <2>1. down[c] \in Nat /\ down[c] < c /\ down[c] = env.heap[c].superclass  BY <1>3
    <2> QED  BY <1>1, <2>1
  <1>8. ASSUME NEW c \in 1..n
        PROVE  f[c] = {c} \cup f[env.heap[c].superclass]
    <2>1. f[down[c]] \in V  BY <1>s
    <2> QED  BY <1>5, <1>7, <1>s, <2>1
  <1>9. f = UpStep(f)
    <2>1. \A c \in 0..n : c = 0 \/ c \in 1..n  BY <1>1
    <2>2. \A c \in 1..n : c # 0  BY <1>1
    <2>3. ASSUME NEW c \in 0..n PROVE f[c] = UpStep(f)[c]
      BY <1>7, <1>8, <1>r, <2>1, <2>2 DEF UpStep, Null
    <2>4. DOMAIN f = 0..n /\ DOMAIN UpStep(f) = 0..n
          /\ f = [c \in DOMAIN f |-> f[c]]
          /\ UpStep(f) = [c \in 0..n |-> UpStep(f)[c]]
      BY <1>r DEF UpStep
    <2> HIDE DEF n
    <2> QED  BY <2>3, <2>4
  <1> DEFINE up == CHOOSE g : g = UpStep(g)
  <1>10. up = UpStep(up)
    <2>1. \E g : g = UpStep(g)  BY <1>9
    <2> QED  BY <2>1, Zenon
  <1>11. \A c : Superclasses(c) = up[c]  BY Zenon DEF Superclasses, UpStep
  <1> HIDE DEF up
  <1>12. up[0] = {}
    <2>1. 0 \in 0..n  BY <1>1
    <2> QED  BY <1>10, <1>r, <2>1 DEF UpStep, Null
  <1>13. \A c \in 1..n : up[c] = {c} \cup up[env.heap[c].superclass]
    <2>1. \A c \in 1..n : c \in 0..n /\ c # 0  BY <1>1
    <2> QED  BY <1>10, <1>r, <2>1 DEF UpStep, Null
  <1> DEFINE bad == {c \in 1..n : ~(up[c] \subseteq 1..c)}
  <1>14. bad = {}
    <2> SUFFICES ASSUME bad # {} PROVE FALSE  OBVIOUS
    <2>1. bad \in SUBSET Nat  BY <1>1
    <2>2. PICK c \in bad : \A j \in bad : c <= j
      <3> HIDE DEF bad
      <3> QED  BY <2>1, Least
    <2>3. c \in 1..n /\ up[c] = {c} \cup up[down[c]] /\ down[c] \in 0..n /\ down[c] < c
      BY <1>13, <1>s, <2>2
    <2>4. CASE down[c] = 0
      <3>1. up[c] = {c}  BY <1>12, <2>3, <2>4
      <3>2. c \in 1..c  BY <1>1, <2>3
      <3> QED  BY <2>2, <3>1, <3>2
    <2>5. CASE down[c] # 0
      <3>1. down[c] \in 1..n  BY <1>1, <2>3, <2>5
      <3>2. down[c] \notin bad  BY <1>1, <2>2, <2>3, <3>1
      <3>3. up[down[c]] \subseteq 1..down[c]  BY <3>1, <3>2
      <3>4. \A x \in 1..down[c] : x \in 1..c  BY <1>1, <2>3, <3>1
      <3>5. c \in 1..c  BY <1>1, <2>3
      <3>6. up[c] \subseteq 1..c  BY <2>3, <3>3, <3>4, <3>5
      <3> QED  BY <2>2, <3>6
    <2> QED  BY <2>4, <2>5
  <1> HIDE DEF n
  <1> QED  BY <1>11, <1>12, <1>13, <1>14 DEF n

-----------------------------------------------------------------------------
(* Method calls.                                                           *)

\* The method lists are what was defined, by name; D is what was.
MethodSymsInv(e) ==
  \A o \in 1..Len(e.heap) : \A i \in 1..Len(e.heap[o].methods) :
    e.heap[o].methods[i].sym \in 1..Len(e.symbols)
DefsInv(e, D) ==
  /\ DOMAIN D \subseteq (1..Len(e.heap)) \X Names
  /\ \A o \in 1..Len(e.heap), str \in Names :
       /\ OwnMethod(e, o, str) # 0 <=> <<o, str>> \in DOMAIN D
       /\ OwnMethod(e, o, str) # 0 => e.heap[o].methods[OwnMethod(e, o, str)].method = D[<<o, str>>]
ClassesOK(e, D) == TreeInv(e) /\ MethodSymsInv(e) /\ DefsInv(e, D)

Definers(c, name) == {x \in Superclasses(c) : <<x, name>> \in DOMAIN defs}

\* What is found is the definition in the definer that has all others above it.
LEMMA FindsNearest ==
  ASSUME EnvOK(env), ClassesOK(env, defs), NEW name \in Names, NEW c \in 0..Len(env.heap)
  PROVE  /\ Definers(c, name) = {} => find_method_in_classes(env, c, name) = "none"
         /\ Definers(c, name) # {} =>
              \E x \in Definers(c, name) :
                /\ Definers(c, name) \subseteq Superclasses(x) /\ x \in 1..Len(env.heap)
                /\ find_method_in_classes(env, c, name) = defs[<<x, name>>]
  <1> DEFINE n == Len(env.heap)
             find(x) == find_method_in_classes(env, x, name)
             Good(d) == /\ Definers(d, name) = {} => find(d) = "none"
                        /\ Definers(d, name) # {} =>
                             \E x \in Definers(d, name) :
                               /\ Definers(d, name) \subseteq Superclasses(x) /\ x \in 1..n
                               /\ find(d) = defs[<<x, name>>]
             bad == {d \in 0..n : ~Good(d)}
  <1>1. n \in Nat  BY HeapDomain
  <1>2. TreeInv(env) /\ DefsInv(env, defs)  BY DEF ClassesOK
  <1>3. SUFFICES ASSUME bad # {} PROVE FALSE
    <2>1. Good(c)  BY <1>3
    <2> QED  BY <2>1
  <1>4. bad \in SUBSET Nat  BY <1>1
  <1>5. PICK d \in bad : \A j \in bad : d <= j
    <2> HIDE DEF bad
    <2> QED  BY <1>3, <1>4, Least
  <1>6. d \in 0..n /\ ~Good(d)  BY <1>5
  <1>7. \A j \in 0..n : j < d => Good(j)
    <2> SUFFICES ASSUME NEW j \in 0..n, j < d, ~Good(j) PROVE FALSE  OBVIOUS
    <2>1. j \in bad  OBVIOUS
    <2>2. d <= j  BY <1>5, <2>1
    <2> QED  BY <1>1, <1>6, <2>2
  <1> HIDE DEF bad, find
  <1>8. CASE d = 0
    <2>1. Superclasses(0) = {}  BY <1>2, UpWalk
    <2>2. Definers(0, name) = {}  BY <2>1 DEF Definers
    <2>3. find(0) = "none"  BY <1>2, FindWalk DEF find
    <2> QED  BY <1>6, <1>8, <2>2, <2>3
  <1>9. CASE d # 0
    <2> DEFINE u == env.heap[d].superclass
    <2>1. d \in 1..n  BY <1>1, <1>6, <1>9
    <2>2. u \in 0..n /\ u < d
      <3>1. env.heap[d] \in ObjectRec  BY <2>1, HeapDomain
      <3>2. u \in Nat /\ u < d  BY <1>2, <2>1, <3>1 DEF ObjectRec, TreeInv
      <3> QED  BY <1>1, <2>1, <3>2
    <2>3. /\ Superclasses(d) = {d} \cup Superclasses(u)  BY <1>2, <2>1, UpWalk
    <2>4. find(d) = IF OwnMethod(env, d, name) # 0
                    THEN env.heap[d].methods[OwnMethod(env, d, name)].method ELSE find(u)
      BY <1>2, <2>1, FindWalk DEF find
    <2>5. /\ OwnMethod(env, d, name) # 0 <=> <<d, name>> \in DOMAIN defs
          /\ OwnMethod(env, d, name) # 0 =>
               env.heap[d].methods[OwnMethod(env, d, name)].method = defs[<<d, name>>]
      BY <1>2, <2>1 DEF DefsInv
    <2>6. Good(u)  BY <1>7, <2>2
    <2> HIDE DEF u
    <2>7. CASE <<d, name>> \in DOMAIN defs
      <3>1. find(d) = defs[<<d, name>>]  BY <2>4, <2>5, <2>7
      <3>2. d \in Definers(d, name) /\ Definers(d, name) \subseteq Superclasses(d)
        BY <2>3, <2>7 DEF Definers
      <3>3. Good(d)  BY <2>1, <3>1, <3>2
      <3> QED  BY <1>6, <3>3
    <2>8. CASE <<d, name>> \notin DOMAIN defs
      <3>1. find(d) = find(u)  BY <2>4, <2>5, <2>8
      <3>2. Definers(d, name) = Definers(u, name)  BY <2>3, <2>8 DEF Definers
      <3>3. Good(d)  BY <2>6, <3>1, <3>2
      <3> QED  BY <1>6, <3>3
    <2> QED  BY <2>7, <2>8
  <1> QED  BY <1>8, <1>9

\* Search along sound method lists is lookup by name.
LEMMA Dispatch ==
  ASSUME EnvOK(env), ClassesOK(env, defs)
  PROVE  DispatchByName
  <1> SUFFICES ASSUME NEW o \in Objects,
                      NEW name \in MethodNames \cup {"new", "initialize", "message"}
               PROVE  LET definers == Definers(env.heap[o].type, name)
                          nearest  == CHOOSE c \in definers : definers \subseteq Superclasses(c)
                      IN  find_method_in_classes(env, env.heap[o].type, name)
                            = IF definers = {} THEN "none" ELSE defs[<<nearest, name>>]
    BY DEF DispatchByName, Definers
  <1> DEFINE t == env.heap[o].type
             definers == Definers(t, name)
             nearest == CHOOSE c \in definers : definers \subseteq Superclasses(c)
  <1>1. name \in Names  BY DEF Names
  <1>2. t \in 0..Len(env.heap)
    <2>1. o \in 1..Len(env.heap)  BY HeapDomain DEF Objects
    <2> QED  BY <2>1, TypeExists
  <1>3. /\ definers = {} => find_method_in_classes(env, t, name) = "none"
        /\ definers # {} =>
             \E x \in definers :
               /\ definers \subseteq Superclasses(x) /\ x \in 1..Len(env.heap)
               /\ find_method_in_classes(env, t, name) = defs[<<x, name>>]
    BY <1>1, <1>2, FindsNearest
  <1> HIDE DEF t, definers, nearest
  <1>4. CASE definers = {}  BY <1>3, <1>4 DEF t, definers
  <1>5. CASE definers # {}
    <2>1. PICK x \in definers : /\ definers \subseteq Superclasses(x) /\ x \in 1..Len(env.heap)
                                /\ find_method_in_classes(env, t, name) = defs[<<x, name>>]
      BY <1>3, <1>5
    <2>2. nearest \in definers /\ definers \subseteq Superclasses(nearest)
      BY <2>1, Zenon DEF nearest
    <2>3. \A c \in 1..Len(env.heap) : Superclasses(c) \subseteq 1..c  BY UpWalk DEF ClassesOK
    <2>4. nearest \in 1..x  BY <2>1, <2>2, <2>3
    <2>5. Len(env.heap) \in Nat  BY HeapDomain
    <2>6. nearest \in 1..Len(env.heap)  BY <2>1, <2>4, <2>5
    <2>7. x \in 1..nearest  BY <2>1, <2>2, <2>3, <2>6
    <2>8. x = nearest  BY <2>1, <2>4, <2>5, <2>6, <2>7
    <2>9. find_method_in_classes(env, t, name) = defs[<<nearest, name>>]  BY <2>1, <2>8
    <2> QED  BY <1>5, <2>9 DEF t, definers, nearest
  <1> QED  BY <1>4, <1>5

-----------------------------------------------------------------------------
(* What the functions of the runtime do to classes.                        *)

\* All but the attributes.
Same(e, f, o) ==
  /\ f.heap[o].type = e.heap[o].type /\ f.heap[o].methods = e.heap[o].methods
  /\ f.heap[o].superclass = e.heap[o].superclass /\ f.heap[o].scope = e.heap[o].scope
  /\ f.heap[o].allocate = e.heap[o].allocate

SymsGrow(e, f) ==
  /\ Len(e.symbols) <= Len(f.symbols)
  /\ \A str : sym(f, str) = sym(e, str) \/ (sym(e, str) = 0 /\ sym(f, str) > Len(e.symbols))

\* The environment e has become f, by adding symbols and objects and by storing
\* attributes.
Extends(e, f) ==
  /\ EnvOK(e) /\ EnvOK(f) /\ SymsGrow(e, f) /\ f.at = e.at
  /\ Len(e.heap) <= Len(f.heap)
  /\ \A o \in 1..Len(e.heap) : Same(e, f, o)

\* The sizes of an environment are numbers.
LEMMA SizesNat ==
  ASSUME NEW e, EnvOK(e)
  PROVE  Len(e.heap) \in Nat /\ Len(e.symbols) \in Nat /\ \A str : sym(e, str) \in Nat
  <1>1. Len(e.heap) \in Nat /\ Len(e.symbols) \in Nat  BY DEF EnvOK, EnvRec
  <1>2. \A str : sym(e, str) \in 0..Len(e.symbols)  BY SymIsIndex
  <1> QED  BY <1>1, <1>2

\* Extensions compose.
LEMMA ExtendsTrans ==
  ASSUME NEW e, NEW f, NEW g, Extends(e, f), Extends(f, g)
  PROVE  Extends(e, g)
  <1>1. EnvOK(e) /\ EnvOK(f) /\ EnvOK(g) /\ g.at = e.at  BY DEF Extends
  <1>2. /\ Len(e.heap) \in Nat /\ Len(f.heap) \in Nat /\ Len(g.heap) \in Nat
        /\ Len(e.symbols) \in Nat /\ Len(f.symbols) \in Nat /\ Len(g.symbols) \in Nat
    BY <1>1, SizesNat
  <1>3. Len(e.heap) <= Len(f.heap) /\ Len(f.heap) <= Len(g.heap)  BY DEF Extends
  <1>4. SymsGrow(e, g)
    <2>1. SymsGrow(e, f) /\ SymsGrow(f, g)  BY DEF Extends
    <2>2. Len(e.symbols) <= Len(f.symbols) /\ Len(f.symbols) <= Len(g.symbols)
      BY <2>1 DEF SymsGrow
    <2>3. ASSUME NEW str
          PROVE  sym(g, str) = sym(e, str) \/ (sym(e, str) = 0 /\ sym(g, str) > Len(e.symbols))
      <3>1. sym(f, str) = sym(e, str) \/ (sym(e, str) = 0 /\ sym(f, str) > Len(e.symbols))
        BY <2>1 DEF SymsGrow
      <3>2. sym(g, str) = sym(f, str) \/ (sym(f, str) = 0 /\ sym(g, str) > Len(f.symbols))
        BY <2>1 DEF SymsGrow
      <3>3. sym(f, str) \in Nat /\ sym(g, str) \in Nat  BY <1>1, SizesNat
      <3> QED  BY <1>2, <2>2, <3>1, <3>2, <3>3
    <2> QED  BY <1>2, <2>2, <2>3 DEF SymsGrow
  <1>5. ASSUME NEW o \in 1..Len(e.heap) PROVE Same(e, g, o)
    <2>1. o \in 1..Len(f.heap)  BY <1>2, <1>3
    <2>2. Same(e, f, o) /\ Same(f, g, o)  BY <2>1 DEF Extends
    <2> QED  BY <2>2 DEF Same
  <1> QED  BY <1>1, <1>2, <1>3, <1>4, <1>5 DEF Extends

\* The same symbols, or more.
LEMMA SymsSame ==
  ASSUME NEW e, EnvOK(e), NEW f, EnvOK(f), f.symbols = e.symbols
  PROVE  SymsGrow(e, f)
  <1>1. \A str : sym(f, str) = sym(e, str)  BY SymIsIndex
  <1>2. Len(e.symbols) <= Len(f.symbols)  BY SizesNat
  <1> QED  BY <1>1, <1>2 DEF SymsGrow

\* pup_str_to_sym() adds a symbol at most, and the string has one then.
LEMMA InternExtends ==
  ASSUME NEW e, EnvOK(e), NEW str \in Names
  PROVE  LET f == pup_str_to_sym(e, str)
         IN  Extends(e, f) /\ f.heap = e.heap /\ sym(f, str) # 0
  <1> DEFINE f == pup_str_to_sym(e, str)
             ss == e.symbols
             n == Len(ss)
             x == [sym |-> e.next_sym, str |-> str]
  <1>1. Keeps(e, f) /\ f.heap = e.heap /\ f.at = e.at /\ sym(f, str) # 0  BY InternKeeps
  <1>2. EnvOK(f) /\ Len(e.heap) \in Nat  BY <1>1 DEF Keeps
  <1>3. e \in EnvRec /\ ss \in Seq(EntryRec) /\ n \in Nat /\ e.next_sym \in Nat
    BY DEF EnvOK, EnvRec
  <1>4. SymsGrow(e, f)
    <2>1. CASE \E i \in DOMAIN ss : ss[i].str = str
      <3>1. f = e  BY <2>1 DEF pup_str_to_sym
      <3> QED  BY <3>1, SymsSame
    <2>2. CASE ~ \E i \in DOMAIN ss : ss[i].str = str
      <3>1. f.symbols = Append(ss, x)
        <4>1. f = [e EXCEPT !.symbols = Append(@, x), !.next_sym = @ + 1]
          BY <2>2 DEF pup_str_to_sym
        <4> HIDE DEF x
        <4> QED  BY <1>3, <4>1 DEF EnvRec
      <3>2. x \in EntryRec /\ x.str = str  BY <1>3 DEF EntryRec
      <3>3. EntryAt(ss, str) = 0
        <4> SUFFICES ASSUME EntryAt(ss, str) # 0 PROVE FALSE  OBVIOUS
        <4>1. EntryAt(ss, str) \in 1..n /\ ss[EntryAt(ss, str)].str = str
          BY <1>3, EntryAtFirst
        <4>2. DOMAIN ss = 1..n  BY <1>3
        <4> QED  BY <2>2, <4>1, <4>2
      <3> HIDE DEF x, f
      <3>4. \A z : EntryAt(f.symbols, z) = IF z = str THEN n + 1 ELSE EntryAt(ss, z)
        BY <1>3, <3>1, <3>2, <3>3, EntryAppend
      <3>5. \A z : sym(f, z) = EntryAt(f.symbols, z) /\ sym(e, z) = EntryAt(ss, z)
        BY <1>2, SymIsIndex
      <3>6. Len(f.symbols) = n + 1  BY <1>3, <3>1, <3>2
      <3>7. n <= n + 1 /\ n + 1 > n  BY <1>3
      <3>8. \A z : sym(f, z) = sym(e, z) \/ (sym(e, z) = 0 /\ sym(f, z) > n)
        BY <3>3, <3>4, <3>5, <3>7
      <3> QED  BY <3>6, <3>7, <3>8 DEF SymsGrow
    <2> QED  BY <2>1, <2>2
  <1> HIDE DEF f
  <1>5. \A o \in 1..Len(e.heap) : Same(e, f, o)  BY <1>1 DEF Same
  <1>6. Len(e.heap) <= Len(f.heap)  BY <1>1, <1>2
  <1>7. Extends(e, f)  BY <1>1, <1>2, <1>4, <1>5, <1>6 DEF Extends
  <1> QED  BY <1>1, <1>7 DEF f

\* A heap with the same classes, and possibly more objects.
LEMMA HeapExtends ==
  ASSUME NEW e, EnvOK(e), NEW f, EnvOK(f), f.symbols = e.symbols, f.at = e.at,
         Len(e.heap) <= Len(f.heap), \A o \in 1..Len(e.heap) : Same(e, f, o)
  PROVE  Extends(e, f)
  BY SymsSame DEF Extends

\* The newest object of f.
New(f, type, super, scope, allocate) ==
  LET h == f.heap[Len(f.heap)]
  IN  /\ h.type = type /\ h.methods = <<>> /\ h.superclass = super /\ h.scope = scope
      /\ h.allocate = allocate

\* A new object comes last.
LEMMA AppendExtends ==
  ASSUME NEW e, EnvOK(e), NEW rec \in ObjectRec, rec.attrs = <<>>, rec.type <= Len(e.heap)
  PROVE  LET f == [e EXCEPT !.heap = Append(@, rec)]
         IN  Extends(e, f) /\ Len(f.heap) = Len(e.heap) + 1 /\ f.heap[Len(f.heap)] = rec
  <1> DEFINE f == [e EXCEPT !.heap = Append(@, rec)]
             hp == Append(e.heap, rec)
             n == Len(e.heap)
  <1>1. e \in EnvRec /\ e.heap \in Seq(ObjectRec) /\ n \in Nat  BY DEF EnvOK, EnvRec
  <1>2. /\ hp \in Seq(ObjectRec) /\ Len(hp) = n + 1 /\ hp[n + 1] = rec
        /\ \A o \in 1..n : hp[o] = e.heap[o]
    BY <1>1
  <1>3. f = [e EXCEPT !.heap = hp]  OBVIOUS
  <1>4. EnvOK(f)
    <2>1. Keeps(e, f)  BY AppendKeeps
    <2> QED  BY <2>1 DEF Keeps
  <1> HIDE DEF f, hp
  <1>5. /\ f \in EnvRec /\ f.heap = hp /\ f.symbols = e.symbols
        /\ f.next_sym = e.next_sym /\ f.at = e.at
    BY <1>1, <1>2, <1>3, WithHeap
  <1>6. \A o \in 1..n : Same(e, f, o)  BY <1>2, <1>5 DEF Same
  <1>7. n <= Len(f.heap)  BY <1>1, <1>2, <1>5
  <1>8. Extends(e, f)  BY <1>4, <1>5, <1>6, <1>7, HeapExtends
  <1> QED  BY <1>2, <1>5, <1>8 DEF f

\* new_obj() adds an object that is not a class, ...
LEMMA NewObjExtends ==
  ASSUME NEW e, EnvOK(e), NEW type \in Nat, type <= Len(e.heap)
  PROVE  LET f == new_obj(e, type)
         IN  Extends(e, f) /\ Len(f.heap) = Len(e.heap) + 1 /\ New(f, type, 0, 0, "none")
  <1> DEFINE f == new_obj(e, type)
  <1>1. /\ Object(type) \in ObjectRec /\ Object(type).attrs = <<>> /\ Object(type).type = type
        /\ Object(type) = [type |-> type, attrs |-> <<>>, methods |-> <<>>,
              superclass |-> 0, scope |-> 0, allocate |-> "none"]
    BY ObjectType
  <1>2. f = [e EXCEPT !.heap = Append(@, Object(type))]  BY DEF new_obj
  <1> HIDE DEF f
  <1>3. Extends(e, f) /\ Len(f.heap) = Len(e.heap) + 1 /\ f.heap[Len(f.heap)] = Object(type)
    BY <1>1, <1>2, AppendExtends
  <1>4. New(f, type, 0, 0, "none")  BY <1>1, <1>3 DEF New
  <1> QED  BY <1>3, <1>4 DEF f

\* ... and new_class() a class with its fields unset.
LEMMA NewClassExtends ==
  ASSUME NEW e, EnvOK(e), NEW type \in Nat, type <= Len(e.heap)
  PROVE  LET f == new_class(e, type)
         IN  Extends(e, f) /\ Len(f.heap) = Len(e.heap) + 1 /\ New(f, type, 0, 0, "unset")
  <1> DEFINE f == new_class(e, type)
             rec == [Object(type) EXCEPT !.allocate = "unset"]
  <1>1. rec = [type |-> type, attrs |-> <<>>, methods |-> <<>>,
               superclass |-> 0, scope |-> 0, allocate |-> "unset"]
    BY ObjectType
  <1>2. <<>> \in Seq(AttrRec)  OBVIOUS
  <1>3. <<>> \in Seq(MethodRec)  OBVIOUS
  <1>4. "unset" \in Allocators  BY DEF Allocators
  <1>5. f = [e EXCEPT !.heap = Append(@, rec)]  BY DEF new_class
  <1> HIDE DEF rec, f
  <1>6. rec \in ObjectRec /\ rec.attrs = <<>> /\ rec.type = type
    BY <1>1, <1>2, <1>3, <1>4 DEF ObjectRec
  <1>7. Extends(e, f) /\ Len(f.heap) = Len(e.heap) + 1 /\ f.heap[Len(f.heap)] = rec
    BY <1>5, <1>6, AppendExtends
  <1>8. New(f, type, 0, 0, "unset")  BY <1>1, <1>7 DEF New
  <1> QED  BY <1>7, <1>8 DEF f

\* A change to one object, which leaves the others.
LEMMA ChangeExtends ==
  ASSUME NEW e, EnvOK(e), NEW c \in 1..Len(e.heap), NEW rec \in ObjectRec,
         NEW f, EnvOK(f), f = [e EXCEPT !.heap = [e.heap EXCEPT ![c] = rec]]
  PROVE  /\ f.symbols = e.symbols /\ f.at = e.at /\ Len(f.heap) = Len(e.heap) /\ f.heap[c] = rec
         /\ \A o \in 1..Len(e.heap) : o # c => f.heap[o] = e.heap[o]
  <1> DEFINE hp == [e.heap EXCEPT ![c] = rec]
  <1>1. e \in EnvRec /\ e.heap \in Seq(ObjectRec) /\ Len(e.heap) \in Nat  BY DEF EnvOK, EnvRec
  <1>2. /\ hp \in Seq(ObjectRec) /\ Len(hp) = Len(e.heap) /\ hp[c] = rec
        /\ \A o \in 1..Len(e.heap) : o # c => hp[o] = e.heap[o]
    BY <1>1
  <1>3. f = [e EXCEPT !.heap = hp]  OBVIOUS
  <1> HIDE DEF hp
  <1>4. f.heap = hp /\ f.symbols = e.symbols /\ f.at = e.at  BY <1>1, <1>2, <1>3, WithHeap
  <1> QED  BY <1>2, <1>4

\* A store.
LEMMA SetExtends ==
  ASSUME NEW e, EnvOK(e), NEW obj \in 0..Len(e.heap), NEW str \in Names, NEW val \in Nat
  PROVE  LET f == pup_iv_set(e, obj, str, val)
         IN  Extends(e, f) /\ Len(f.heap) = Len(e.heap)
  <1> DEFINE e1 == pup_str_to_sym(e, str)
             f == pup_iv_set(e, obj, str, val)
             h == e1.heap[obj]
             s == sym(e1, str)
             i == SelectInSeq(h.attrs, LAMBDA a : a.sym = s)
             nl == IF i # 0 THEN [h.attrs EXCEPT ![i].value = val]
                   ELSE <<[sym |-> s, value |-> val]>> \o h.attrs
             rec == [h EXCEPT !.attrs = nl]
             hp == [e1.heap EXCEPT ![obj] = rec]
  <1>1. Extends(e, e1) /\ e1.heap = e.heap  BY InternExtends
  <1>2. EnvOK(e1) /\ e1.at = e.at /\ Len(e.heap) \in Nat /\ e1 \in EnvRec
    BY <1>1, SizesNat DEF Extends, EnvOK
  <1>3. EnvOK(f) /\ Len(f.heap) = Len(e.heap) /\ f.at = e.at
    <2>1. Stores(e, f, obj, str, val)  BY SetAnyStores
    <2> QED  BY <2>1 DEF Stores
  <1>4. f = [e1 EXCEPT !.heap = hp]
    <2>1. CASE i # 0  BY <2>1 DEF pup_iv_set
    <2>2. CASE i = 0  BY <2>2 DEF pup_iv_set
    <2> QED  BY <2>1, <2>2
  <1> HIDE DEF e1, f, nl
  <1>5. e1.heap \in Seq(ObjectRec) /\ Len(e1.heap) \in Nat  BY <1>2, HeapDomain
  <1>6. f.heap = hp /\ f.symbols = e1.symbols /\ f.at = e1.at
    <2> HIDE DEF hp
    <2> QED  BY <1>2, <1>4 DEF EnvRec
  <1>7. \A o \in 1..Len(e1.heap) : Same(e1, f, o)
    <2>1. ASSUME NEW o \in 1..Len(e1.heap), o # obj PROVE hp[o] = e1.heap[o]
      <3> HIDE DEF rec
      <3> QED  BY <1>5, <2>1
    <2>2. ASSUME NEW o \in 1..Len(e1.heap), o = obj PROVE hp[o] = rec
      <3> HIDE DEF rec
      <3> QED  BY <1>5, <2>2
    <2>3. ASSUME h \in ObjectRec
          PROVE  /\ rec.type = h.type /\ rec.methods = h.methods /\ rec.superclass = h.superclass
                 /\ rec.scope = h.scope /\ rec.allocate = h.allocate
      <3> HIDE DEF h
      <3> QED  BY <2>3 DEF ObjectRec
    <2> HIDE DEF rec, hp
    <2>4. ASSUME NEW o \in 1..Len(e1.heap) PROVE Same(e1, f, o)
      <3>1. CASE o # obj  BY <1>6, <2>1, <3>1 DEF Same
      <3>2. CASE o = obj
        <4>1. h \in ObjectRec  BY <1>5, <3>2
        <4> QED  BY <1>6, <2>2, <2>3, <3>2, <4>1 DEF Same
      <3> QED  BY <3>1, <3>2
    <2> QED  BY <2>4
  <1>8. Len(e1.heap) <= Len(f.heap)  BY <1>1, <1>2, <1>3
  <1>9. Extends(e1, f)  BY <1>2, <1>3, <1>6, <1>7, <1>8, HeapExtends
  <1>10. Extends(e, f)  BY <1>1, <1>9, ExtendsTrans
  <1> QED  BY <1>3, <1>10 DEF f

\* A class that was just allocated is initialised.
LEMMA ClassInitExtends ==
  ASSUME NEW e, NEW e1, Extends(e, e1), Len(e1.heap) = Len(e.heap) + 1, NEW super \in Nat,
         NEW scope \in Nat, NEW allocate \in Allocators
  PROVE  LET f == class_init(e1, Len(e1.heap), super, scope, allocate)
         IN  /\ Extends(e, f) /\ Len(f.heap) = Len(e.heap) + 1
             /\ New(f, e1.heap[Len(e1.heap)].type, super, scope, allocate)
  <1> DEFINE n == Len(e.heap)
             c == Len(e1.heap)
             f == class_init(e1, c, super, scope, allocate)
             h == e1.heap[c]
             h1 == [h EXCEPT !.superclass = super]
             h2 == [h1 EXCEPT !.methods = <<>>]
             h3 == [h2 EXCEPT !.scope = scope]
             rec == [h3 EXCEPT !.allocate = allocate]
             hp == [e1.heap EXCEPT ![c] = rec]
  <1>1. EnvOK(e) /\ EnvOK(e1) /\ e1.at = e.at /\ n \in Nat /\ c = n + 1 /\ c \in 1..Len(e1.heap)
    BY SizesNat DEF Extends
  <1>2. EnvOK(f) /\ f.at = e1.at /\ Len(f.heap) = Len(e1.heap)
    <2>0. EnvOK(e1) /\ c \in 1..Len(e1.heap)  BY <1>1
    <2> HIDE DEF c
    <2>1. Keeps(e1, f) /\ f.at = e1.at /\ Len(f.heap) = Len(e1.heap)  BY <2>0, ClassInitKeeps
    <2> QED  BY <2>1 DEF Keeps
  <1>3. f = [e1 EXCEPT !.heap = hp]  BY DEF class_init
  <1>4. h \in ObjectRec  BY <1>1, HeapDomain
  <1> HIDE DEF f, h
  <1>5. h1 \in ObjectRec /\ h1.type = h.type /\ h1.superclass = super  BY <1>4 DEF ObjectRec
  <1> HIDE DEF h1
  <1>6. h2 \in ObjectRec /\ h2.type = h.type /\ h2.superclass = super /\ h2.methods = <<>>
    <2> DEFINE nil == <<>>
    <2>1. nil \in Seq(MethodRec) /\ h2 = [h1 EXCEPT !.methods = nil]  OBVIOUS
    <2> HIDE DEF h2, nil
    <2>2. h2 \in ObjectRec /\ h2.type = h.type /\ h2.superclass = super /\ h2.methods = nil
      BY <1>5, <2>1 DEF ObjectRec
    <2> QED  BY <2>2 DEF nil
  <1> HIDE DEF h2
  <1>7. /\ h3 \in ObjectRec /\ h3.type = h.type /\ h3.superclass = super /\ h3.methods = <<>>
        /\ h3.scope = scope
    BY <1>6 DEF ObjectRec
  <1> HIDE DEF h3
  <1>8. /\ rec \in ObjectRec /\ rec.type = h.type /\ rec.superclass = super /\ rec.methods = <<>>
        /\ rec.scope = scope /\ rec.allocate = allocate
    BY <1>7 DEF ObjectRec
  <1> HIDE DEF rec
  <1>9. /\ f.symbols = e1.symbols /\ f.heap[c] = rec
        /\ \A o \in 1..Len(e1.heap) : o # c => f.heap[o] = e1.heap[o]
    BY <1>1, <1>2, <1>3, <1>8, ChangeExtends
  <1>10. \A o \in 1..n : Same(e, f, o)
    <2> SUFFICES ASSUME NEW o \in 1..n PROVE Same(e, f, o)  OBVIOUS
    <2>1. o \in 1..Len(e1.heap) /\ o # c  BY <1>1
    <2>2. Same(e, e1, o)  BY DEF Extends
    <2> QED  BY <1>9, <2>1, <2>2 DEF Same
  <1>11. SymsGrow(e, f)
    <2>1. SymsGrow(e1, f)  BY <1>1, <1>2, <1>9, SymsSame
    <2>2. \A str : sym(f, str) = sym(e1, str)  BY <1>1, <1>2, <1>9, SymIsIndex
    <2> QED  BY <1>9, <2>2 DEF Extends, SymsGrow
  <1>12. Extends(e, f)
    <2>1. Len(e.heap) <= Len(f.heap)  BY <1>1, <1>2
    <2> QED  BY <1>1, <1>2, <1>10, <1>11, <2>1 DEF Extends
  <1>13. New(f, h.type, super, scope, allocate)  BY <1>2, <1>8, <1>9 DEF New
  <1> QED  BY <1>1, <1>2, <1>12, <1>13 DEF f, h

\* An instance of a class: allocate and initialize are interned around it.
LEMMA NewInstanceExtends ==
  ASSUME NEW e, EnvOK(e), NEW class \in 0..Len(e.heap)
  PROVE  LET f == NewInstance(e, class)
         IN  /\ Extends(e, f) /\ Len(f.heap) = Len(e.heap) + 1
             /\ New(f, class, 0, 0, IF e.heap[class].allocate = "class" THEN "unset" ELSE "none")
  <1> DEFINE e1 == pup_str_to_sym(e, "allocate")
             e2 == allocate_instance(e1, class)
             e3 == pup_str_to_sym(e2, "initialize")
             al == IF e.heap[class].allocate = "class" THEN "unset" ELSE "none"
  <1>0. "allocate" \in Names /\ "initialize" \in Names  BY DEF Names
  <1>1. Extends(e, e1) /\ e1.heap = e.heap  BY <1>0, InternExtends
  <1>2. EnvOK(e1) /\ class \in Nat /\ class <= Len(e1.heap)
    <2>1. Len(e.heap) \in Nat  BY SizesNat
    <2> QED  BY <1>1, <2>1 DEF Extends
  <1> HIDE DEF e1
  <1>3. Extends(e1, e2) /\ Len(e2.heap) = Len(e1.heap) + 1 /\ New(e2, class, 0, 0, al)
    <2>1. CASE e1.heap[class].allocate = "class"
      BY <1>1, <1>2, <2>1, NewClassExtends DEF allocate_instance
    <2>2. CASE e1.heap[class].allocate # "class"
      BY <1>1, <1>2, <2>2, NewObjExtends DEF allocate_instance
    <2> QED  BY <2>1, <2>2
  <1> HIDE DEF e2, al
  <1>4. Extends(e2, e3) /\ e3.heap = e2.heap
    <2>1. EnvOK(e2)  BY <1>3 DEF Extends
    <2> QED  BY <1>0, <2>1, InternExtends
  <1> HIDE DEF e3
  <1>5. Extends(e, e3)
    <2>1. Extends(e, e2)  BY <1>1, <1>3, ExtendsTrans
    <2> QED  BY <1>4, <2>1, ExtendsTrans
  <1>6. Len(e3.heap) = Len(e.heap) + 1 /\ New(e3, class, 0, 0, al)  BY <1>1, <1>3, <1>4 DEF New
  <1>7. e3 = NewInstance(e, class)  BY DEF NewInstance, e3, e2, e1
  <1> QED  BY <1>5, <1>6, <1>7 DEF al

\* A class.
LEMMA CreateClassExtends ==
  ASSUME NEW e, EnvOK(e), NEW super \in Nat, NEW scope \in Nat, NEW allocate \in Allocators
  PROVE  LET f == pup_internal_create_class(e, super, scope, allocate)
         IN  /\ Extends(e, f) /\ Len(f.heap) = Len(e.heap) + 1
             /\ New(f, e.at["class_class"], super, scope, allocate)
  <1> DEFINE e0 == pup_str_to_sym(e, "new")
             c == e.at["class_class"]
             e1 == NewInstance(e0, c)
             f == class_init(e1, Len(e1.heap), super, scope, allocate)
  <1>0. "new" \in Names /\ "class_class" \in Fields  BY FieldNames DEF Names
  <1>1. Extends(e, e0) /\ e0.heap = e.heap  BY <1>0, InternExtends
  <1>2. EnvOK(e0) /\ c \in 0..Len(e0.heap)
    <2>1. c \in 0..Len(e.heap)  BY <1>0, AtOK
    <2> QED  BY <1>1, <2>1 DEF Extends
  <1>3. pup_internal_create_class(e, super, scope, allocate) = f
    BY DEF pup_internal_create_class, pup_class_new, NewInstance, Null, last
  <1> HIDE DEF e0, c
  <1>4. Extends(e0, e1) /\ Len(e1.heap) = Len(e0.heap) + 1 /\ e1.heap[Len(e1.heap)].type = c
    BY <1>2, NewInstanceExtends DEF New
  <1> HIDE DEF e1
  <1>5. Extends(e, e1) /\ Len(e1.heap) = Len(e.heap) + 1  BY <1>1, <1>4, ExtendsTrans
  <1>6. Extends(e, f) /\ Len(f.heap) = Len(e.heap) + 1 /\ New(f, c, super, scope, allocate)
    <2>1. /\ Extends(e, f) /\ Len(f.heap) = Len(e.heap) + 1
          /\ New(f, e1.heap[Len(e1.heap)].type, super, scope, allocate)
      BY <1>5, ClassInitExtends
    <2> HIDE DEF f
    <2> QED  BY <1>4, <2>1
  <1> QED  BY <1>3, <1>6 DEF c

\* An exception with a message.
LEMMA RuntimeErrorExtends ==
  ASSUME NEW e, EnvOK(e)
  PROVE  LET f == pup_new_runtimeerror(e)
         IN  /\ Extends(e, f) /\ Len(f.heap) = Len(e.heap) + 1
             /\ New(f, e.at["class_runtimeerror"], 0, 0, "none")
  <1> DEFINE c == e.at["class_runtimeerror"]
             e1 == new_obj(e, c)
             n == Len(e1.heap)
             f == pup_iv_set(e1, n, "@message", n)
  <1>1. c \in Nat /\ c <= Len(e.heap)  BY AtOK, FieldNames DEF AtExists
  <1>2. pup_new_runtimeerror(e) = f  BY DEF pup_new_runtimeerror, last
  <1> HIDE DEF c
  <1>3. Extends(e, e1) /\ Len(e1.heap) = Len(e.heap) + 1 /\ New(e1, c, 0, 0, "none")
    BY <1>1, NewObjExtends
  <1> HIDE DEF e1
  <1>4. EnvOK(e1) /\ n \in Nat /\ n \in 0..Len(e1.heap) /\ n \in 1..Len(e1.heap)
    BY <1>3, SizesNat DEF Extends
  <1>5. Extends(e1, f) /\ Len(f.heap) = Len(e1.heap)
    BY <1>4, NamesInUse, SetExtends
  <1> HIDE DEF f
  <1>6. Extends(e, f)  BY <1>3, <1>5, ExtendsTrans
  <1>7. Same(e1, f, n)  BY <1>4, <1>5 DEF Extends
  <1>8. New(f, c, 0, 0, "none")  BY <1>3, <1>5, <1>7 DEF New, Same
  <1> QED  BY <1>2, <1>3, <1>5, <1>6, <1>8 DEF c

\* new, called by the program.
LEMMA ClassNewExtends ==
  ASSUME NEW e, EnvOK(e), NEW class \in 0..Len(e.heap), NEW arg \in Nat
  PROVE  LET f == pup_class_new(e, class, arg)
         IN  /\ Extends(e, f) /\ Len(f.heap) = Len(e.heap) + 1
             /\ New(f, class, 0, 0, IF e.heap[class].allocate = "class" THEN "unset" ELSE "none")
  <1> DEFINE e1 == NewInstance(e, class)
             n == Len(e1.heap)
             f == pup_class_new(e, class, arg)
             al == IF e.heap[class].allocate = "class" THEN "unset" ELSE "none"
  <1>1. f = e1 \/ f = pup_iv_set(e1, n, "@message", arg)  BY DEF pup_class_new, NewInstance, last
  <1> HIDE DEF f
  <1>2. Extends(e, e1) /\ Len(e1.heap) = Len(e.heap) + 1 /\ New(e1, class, 0, 0, al)
    BY NewInstanceExtends
  <1> HIDE DEF e1, al
  <1>3. CASE f = e1  BY <1>2, <1>3 DEF f, al
  <1>4. CASE f = pup_iv_set(e1, n, "@message", arg)
    <2>1. EnvOK(e1) /\ n \in Nat /\ n \in 0..Len(e1.heap) /\ n \in 1..Len(e1.heap)
      BY <1>2, SizesNat DEF Extends
    <2>2. Extends(e1, f) /\ Len(f.heap) = Len(e1.heap)
      BY <1>4, <2>1, NamesInUse, SetExtends
    <2>3. Extends(e, f)  BY <1>2, <2>2, ExtendsTrans
    <2>4. Same(e1, f, n)  BY <2>1, <2>2 DEF Extends
    <2>5. New(f, class, 0, 0, al)  BY <1>2, <2>2, <2>4 DEF New, Same
    <2> QED  BY <1>2, <2>2, <2>3, <2>5 DEF f, al
  <1> QED  BY <1>1, <1>3, <1>4

-----------------------------------------------------------------------------
(* Classes after a step.                                                   *)

\* A new object has no methods, and its superclass and scope are older.
Fresh(f, o) == f.heap[o].methods = <<>> /\ f.heap[o].superclass < o /\ f.heap[o].scope < o

Grows(e, f) ==
  Extends(e, f) /\ \A o \in 1..Len(f.heap) : o > Len(e.heap) => Fresh(f, o)

\* An extension without a new object grows, ...
LEMMA GrowsSame ==
  ASSUME NEW e, NEW f, Extends(e, f), Len(f.heap) = Len(e.heap)
  PROVE  Grows(e, f)
  <1>1. Len(e.heap) \in Nat  BY SizesNat DEF Extends
  <1>2. \A o \in 1..Len(f.heap) : ~(o > Len(e.heap))  BY <1>1
  <1> QED  BY <1>2 DEF Grows

\* ... and so does one by a fresh object.
LEMMA GrowsOne ==
  ASSUME NEW e, NEW f, Extends(e, f), Len(f.heap) = Len(e.heap) + 1, NEW type,
         NEW super \in 0..Len(e.heap), NEW scope \in 0..Len(e.heap), NEW allocate,
         New(f, type, super, scope, allocate)
  PROVE  Grows(e, f)
  <1>1. Len(e.heap) \in Nat  BY SizesNat DEF Extends
  <1>2. ASSUME NEW o \in 1..Len(f.heap), o > Len(e.heap) PROVE Fresh(f, o)
    <2>1. o = Len(f.heap) /\ super < o /\ scope < o  BY <1>1, <1>2
    <2> QED  BY <2>1 DEF New, Fresh
  <1> QED  BY <1>2 DEF Grows

\* A symbol that no method has is not found.
LEMMA MethodAtNone ==
  ASSUME NEW ml \in Seq(MethodRec), NEW s, \A j \in 1..Len(ml) : ml[j].sym # s
  PROVE  MethodAt(ml, s) = 0
  <1> SUFFICES ASSUME MethodAt(ml, s) # 0 PROVE FALSE  OBVIOUS
  <1>1. MethodAt(ml, s) \in 1..Len(ml) /\ ml[MethodAt(ml, s)].sym = s  BY MethodAtFirst
  <1> QED  BY <1>1

\* The method list of an object is one.
LEMMA MethodList ==
  ASSUME NEW e, EnvOK(e), NEW o \in 1..Len(e.heap)
  PROVE  e.heap[o].methods \in Seq(MethodRec)
  <1>1. e.heap[o] \in ObjectRec  BY HeapDomain
  <1> QED  BY <1>1 DEF ObjectRec

\* Symbols that are interned later are those of no method.
LEMMA OwnKept ==
  ASSUME NEW e, NEW f, EnvOK(e), EnvOK(f), SymsGrow(e, f), MethodSymsInv(e),
         NEW o \in 1..Len(e.heap), f.heap[o].methods = e.heap[o].methods, NEW str
  PROVE  OwnMethod(f, o, str) = OwnMethod(e, o, str)
  <1> DEFINE ml == e.heap[o].methods
  <1>1. ml \in Seq(MethodRec)  BY MethodList
  <1>2. \A i \in 1..Len(ml) : ml[i].sym \in 1..Len(e.symbols)  BY DEF MethodSymsInv
  <1>3. OwnMethod(f, o, str) = MethodAt(ml, sym(f, str)) /\ OwnMethod(e, o, str) = MethodAt(ml, sym(e, str))
    BY DEF OwnMethod
  <1> HIDE DEF ml
  <1>4. sym(f, str) = sym(e, str) \/ (sym(e, str) = 0 /\ sym(f, str) > Len(e.symbols))
    BY DEF SymsGrow
  <1>5. CASE sym(f, str) = sym(e, str)  BY <1>3, <1>5
  <1>6. CASE sym(e, str) = 0 /\ sym(f, str) > Len(e.symbols)
    <2>1. Len(e.symbols) \in Nat /\ sym(f, str) \in Nat  BY SizesNat
    <2>2. \A i \in 1..Len(ml) : ml[i].sym # sym(f, str) /\ ml[i].sym # sym(e, str)
      BY <1>2, <1>6, <2>1
    <2>3. MethodAt(ml, sym(f, str)) = 0 /\ MethodAt(ml, sym(e, str)) = 0
      BY <1>1, <2>2, MethodAtNone
    <2> QED  BY <1>3, <2>3
  <1> QED  BY <1>4, <1>5, <1>6

\* Growth keeps the classes in order.
LEMMA ClassesGrow ==
  ASSUME NEW e, NEW f, NEW D, Grows(e, f), ClassesOK(e, D)
  PROVE  ClassesOK(f, D)
  <1>1. Extends(e, f) /\ EnvOK(e) /\ EnvOK(f) /\ SymsGrow(e, f)  BY DEF Grows, Extends
  <1>2. TreeInv(e) /\ MethodSymsInv(e) /\ DefsInv(e, D)  BY DEF ClassesOK
  <1>3. Len(e.heap) \in Nat /\ Len(f.heap) \in Nat /\ Len(e.heap) <= Len(f.heap)
        /\ Len(e.symbols) \in Nat /\ Len(f.symbols) \in Nat /\ Len(e.symbols) <= Len(f.symbols)
    BY <1>1, SizesNat DEF Extends, SymsGrow
  <1>4. ASSUME NEW o \in 1..Len(f.heap)
        PROVE  \/ o \in 1..Len(e.heap) /\ Same(e, f, o)
               \/ o \notin 1..Len(e.heap) /\ Fresh(f, o)
    <2>1. CASE o > Len(e.heap)  BY <1>3, <2>1 DEF Grows
    <2>2. CASE ~(o > Len(e.heap))  BY <1>1, <1>3, <2>2 DEF Extends
    <2> QED  BY <2>1, <2>2
  <1>5. TreeInv(f)
    <2> SUFFICES ASSUME NEW o \in 1..Len(f.heap)
                 PROVE  f.heap[o].superclass < o /\ f.heap[o].scope < o
      BY DEF TreeInv
    <2> QED  BY <1>2, <1>4 DEF TreeInv, Same, Fresh
  <1>b. 1..Len(e.symbols) \subseteq 1..Len(f.symbols)  BY <1>3
  <1>6. MethodSymsInv(f)
    <2> SUFFICES ASSUME NEW o \in 1..Len(f.heap), NEW i \in 1..Len(f.heap[o].methods)
                 PROVE  f.heap[o].methods[i].sym \in 1..Len(f.symbols)
      BY DEF MethodSymsInv
    <2>1. f.heap[o].methods # <<>>
      <3>1. 1..Len(<<>>) = {}  OBVIOUS
      <3> QED  BY <3>1
    <2>2. o \in 1..Len(e.heap) /\ f.heap[o].methods = e.heap[o].methods
      BY <1>4, <2>1 DEF Fresh, Same
    <2>3. f.heap[o].methods[i].sym \in 1..Len(e.symbols)  BY <1>2, <2>2 DEF MethodSymsInv
    <2> QED  BY <1>b, <2>3
  <1>7. DefsInv(f, D)
    <2>1. DOMAIN D \subseteq (1..Len(f.heap)) \X Names
      <3>1. (1..Len(e.heap)) \X Names \subseteq (1..Len(f.heap)) \X Names  BY <1>3
      <3> QED  BY <1>2, <3>1 DEF DefsInv
    <2>2. ASSUME NEW o \in 1..Len(f.heap), NEW str \in Names
          PROVE  /\ OwnMethod(f, o, str) # 0 <=> <<o, str>> \in DOMAIN D
                 /\ OwnMethod(f, o, str) # 0
                      => f.heap[o].methods[OwnMethod(f, o, str)].method = D[<<o, str>>]
      <3>1. CASE o \in 1..Len(e.heap) /\ Same(e, f, o)
        <4>1. f.heap[o].methods = e.heap[o].methods  BY <3>1 DEF Same
        <4>2. OwnMethod(f, o, str) = OwnMethod(e, o, str)  BY <1>1, <1>2, <3>1, <4>1, OwnKept
        <4> QED  BY <1>2, <3>1, <4>1, <4>2 DEF DefsInv
      <3>2. CASE o \notin 1..Len(e.heap) /\ Fresh(f, o)
        <4>1. f.heap[o].methods = <<>>  BY <3>2 DEF Fresh
        <4>2. <<>> \in Seq(MethodRec) /\ \A j \in 1..Len(<<>>) : <<>>[j].sym # sym(f, str)  OBVIOUS
        <4>3. OwnMethod(f, o, str) = 0  BY <4>1, <4>2, MethodAtNone DEF OwnMethod
        <4>4. <<o, str>> \notin DOMAIN D  BY <1>2, <3>2 DEF DefsInv
        <4> QED  BY <4>3, <4>4
      <3> QED  BY <1>4, <3>1, <3>2
    <2> QED  BY <2>1, <2>2 DEF DefsInv
  <1> QED  BY <1>5, <1>6, <1>7 DEF ClassesOK

\* Classes are found through the heap and the symbols only.
LEMMA ClassesMoved ==
  ASSUME NEW e, EnvOK(e), NEW f, EnvOK(f), NEW D, ClassesOK(e, D), f.symbols = e.symbols,
         Len(f.heap) = Len(e.heap),
         \A o \in 1..Len(e.heap) : /\ f.heap[o].methods = e.heap[o].methods
                                   /\ f.heap[o].superclass = e.heap[o].superclass
                                   /\ f.heap[o].scope = e.heap[o].scope
  PROVE  ClassesOK(f, D)
  <1>1. SymsGrow(e, f)  BY SymsSame
  <1>2. TreeInv(e) /\ MethodSymsInv(e) /\ DefsInv(e, D)  BY DEF ClassesOK
  <1>3. TreeInv(f)  BY <1>2 DEF TreeInv
  <1>4. MethodSymsInv(f)  BY <1>2 DEF MethodSymsInv
  <1>5. \A o \in 1..Len(e.heap), str \in Names : OwnMethod(f, o, str) = OwnMethod(e, o, str)
    BY <1>1, <1>2, OwnKept
  <1>6. DefsInv(f, D)  BY <1>2, <1>5 DEF DefsInv
  <1> QED  BY <1>3, <1>4, <1>6 DEF ClassesOK

\* A method at the end of the list is found if none of its symbol is before it.
LEMMA MethodAppend ==
  ASSUME NEW ml \in Seq(MethodRec), NEW r \in MethodRec, NEW s
  PROVE  MethodAt(Append(ml, r), s) = IF MethodAt(ml, s) # 0 THEN MethodAt(ml, s)
                                      ELSE IF r.sym = s THEN Len(ml) + 1 ELSE 0
  <1> DEFINE nl == Append(ml, r)
             n == Len(ml)
             k == MethodAt(ml, s)
             l == MethodAt(nl, s)
  <1>1. nl \in Seq(MethodRec) /\ Len(nl) = n + 1 /\ n \in Nat /\ nl[n + 1] = r
        /\ \A j \in 1..n : nl[j] = ml[j]
    OBVIOUS
  <1>2. \A j \in 1..Len(nl) : j \in 1..n \/ j = n + 1  BY <1>1
  <1>4. /\ k \in 0..n /\ (k # 0 => ml[k].sym = s)
        /\ \A j \in 1..n : ml[j].sym = s => k # 0 /\ k <= j
    BY MethodAtFirst
  <1>5. /\ l \in 0..Len(nl) /\ (l # 0 => nl[l].sym = s)
        /\ \A j \in 1..Len(nl) : nl[j].sym = s => l # 0 /\ l <= j
    BY <1>1, MethodAtFirst
  <1> HIDE DEF nl, k, l
  <1>6. CASE k # 0
    <2>1. k \in 1..n /\ k \in 1..Len(nl)  BY <1>1, <1>4, <1>6
    <2>2. nl[k].sym = s  BY <1>1, <1>4, <1>6, <2>1
    <2>3. l # 0 /\ l <= k  BY <1>5, <2>1, <2>2
    <2>4. l \in 1..n  BY <1>1, <1>5, <2>1, <2>3
    <2>5. ml[l].sym = s  BY <1>1, <1>5, <2>3, <2>4
    <2>6. k <= l  BY <1>4, <2>4, <2>5
    <2>7. k = l  BY <2>1, <2>3, <2>4, <2>6
    <2> QED  BY <1>6, <2>7 DEF k, l, nl
  <1>7. CASE k = 0 /\ r.sym = s
    <2>1. n + 1 \in 1..Len(nl)  BY <1>1
    <2>2. l # 0  BY <1>1, <1>5, <1>7, <2>1
    <2>3. l \in 1..Len(nl)  BY <1>1, <1>5, <2>2
    <2>4. l \notin 1..n  BY <1>1, <1>4, <1>5, <1>7, <2>2
    <2>5. l = n + 1  BY <1>2, <2>3, <2>4
    <2> QED  BY <1>7, <2>5 DEF k, l, nl
  <1>8. CASE k = 0 /\ r.sym # s
    <2>1. \A j \in 1..Len(nl) : nl[j].sym # s  BY <1>1, <1>2, <1>4, <1>8
    <2>2. l = 0  BY <1>1, <2>1, MethodAtNone DEF l
    <2> QED  BY <1>8, <2>2 DEF k, l, nl
  <1> QED  BY <1>6, <1>7, <1>8

\* What pup_define_method() changes.
Defines(e, f, c) ==
  /\ EnvOK(f) /\ Len(f.heap) = Len(e.heap) /\ f.at = e.at
  /\ \A o \in 1..Len(e.heap) :
       /\ f.heap[o].type = e.heap[o].type /\ f.heap[o].superclass = e.heap[o].superclass
       /\ f.heap[o].scope = e.heap[o].scope /\ f.heap[o].allocate = e.heap[o].allocate
       /\ o # c => f.heap[o].methods = e.heap[o].methods

\* pup_define_method() appends to the list of one class.
LEMMA DefineShape ==
  ASSUME NEW e, EnvOK(e), NEW c \in 1..Len(e.heap), NEW str \in Names,
         NEW method \in MethodValues
  PROVE  LET f == pup_define_method(e, c, str, method)
             e1 == pup_str_to_sym(e, str)
             r == [sym |-> sym(e1, str), method |-> method]
         IN  /\ Defines(e, f, c) /\ f.symbols = e1.symbols /\ r \in MethodRec
             /\ f.heap[c].methods = Append(e.heap[c].methods, r)
  <1> DEFINE f == pup_define_method(e, c, str, method)
             e1 == pup_str_to_sym(e, str)
             h == e1.heap[c]
             r == [sym |-> sym(e1, str), method |-> method]
             ml == Append(h.methods, r)
             rec == [h EXCEPT !.methods = ml]
  <1>1. Extends(e, e1) /\ e1.heap = e.heap  BY InternExtends
  <1>2. EnvOK(e1) /\ e1.at = e.at /\ c \in 1..Len(e1.heap)  BY <1>1 DEF Extends
  <1>3. EnvOK(f)
    <2>1. Keeps(e, f)  BY DefineMethodKeeps
    <2> QED  BY <2>1 DEF Keeps
  <1>4. f = [e1 EXCEPT !.heap = [e1.heap EXCEPT ![c] = rec]]  BY DEF pup_define_method
  <1>5. h \in ObjectRec  BY <1>2, HeapDomain
  <1> HIDE DEF e1, f, h
  <1>6. r \in MethodRec
    <2>1. sym(e1, str) \in Nat  BY <1>2, SizesNat
    <2> QED  BY <2>1 DEF MethodRec
  <1> HIDE DEF r
  <1>7. ml \in Seq(MethodRec)  BY <1>5, <1>6 DEF ObjectRec
  <1> HIDE DEF ml
  <1>8. /\ rec \in ObjectRec /\ rec.type = h.type /\ rec.superclass = h.superclass
        /\ rec.scope = h.scope /\ rec.allocate = h.allocate /\ rec.methods = ml
    BY <1>5, <1>7 DEF ObjectRec
  <1> HIDE DEF rec
  <1>9. /\ f.symbols = e1.symbols /\ f.at = e1.at /\ Len(f.heap) = Len(e1.heap) /\ f.heap[c] = rec
        /\ \A o \in 1..Len(e1.heap) : o # c => f.heap[o] = e1.heap[o]
    BY <1>2, <1>3, <1>4, <1>8, ChangeExtends
  <1>10. Defines(e, f, c)
    <2>1. ASSUME NEW o \in 1..Len(e.heap)
          PROVE  /\ f.heap[o].type = e.heap[o].type /\ f.heap[o].superclass = e.heap[o].superclass
                 /\ f.heap[o].scope = e.heap[o].scope /\ f.heap[o].allocate = e.heap[o].allocate
                 /\ o # c => f.heap[o].methods = e.heap[o].methods
      <3>1. CASE o = c  BY <1>1, <1>8, <1>9, <3>1 DEF h
      <3>2. CASE o # c  BY <1>1, <1>9, <3>2
      <3> QED  BY <3>1, <3>2
    <2> QED  BY <1>1, <1>2, <1>3, <1>9, <2>1 DEF Defines
  <1>11. f.heap[c].methods = Append(e.heap[c].methods, r)  BY <1>1, <1>8, <1>9 DEF ml, h
  <1> QED  BY <1>6, <1>9, <1>10, <1>11 DEF f, e1, r

\* What DefineOnce() makes of the definitions.
Once(D, c, str, method) ==
  [p \in DOMAIN D \cup {<<c, str>>} |-> IF p \in DOMAIN D THEN D[p] ELSE method]

\* The first definition of a name is the one that is found.
LEMMA DefineClasses ==
  ASSUME NEW e, EnvOK(e), NEW D, ClassesOK(e, D), NEW c \in 1..Len(e.heap), NEW str \in Names,
         NEW method \in MethodValues
  PROVE  ClassesOK(pup_define_method(e, c, str, method), Once(D, c, str, method))
  <1> DEFINE f == pup_define_method(e, c, str, method)
             e1 == pup_str_to_sym(e, str)
             r == [sym |-> sym(e1, str), method |-> method]
             ml == e.heap[c].methods
             E == Once(D, c, str, method)
  <1>1. /\ Defines(e, f, c) /\ f.symbols = e1.symbols /\ r \in MethodRec
        /\ f.heap[c].methods = Append(ml, r)
    BY DefineShape
  <1>2. Extends(e, e1) /\ e1.heap = e.heap /\ sym(e1, str) # 0  BY InternExtends
  <1>3. EnvOK(e1) /\ Grows(e, e1)
    BY <1>2, GrowsSame DEF Extends
  <1> HIDE DEF f, e1
  <1>4. TreeInv(e) /\ MethodSymsInv(e1) /\ DefsInv(e1, D)
    <2>1. ClassesOK(e1, D)  BY <1>3, ClassesGrow
    <2> QED  BY <2>1 DEF ClassesOK
  <1>5. EnvOK(f) /\ Len(f.heap) = Len(e.heap) /\ Len(e.heap) \in Nat  BY <1>1, SizesNat DEF Defines
  <1>6. TreeInv(f)  BY <1>1, <1>4, <1>5 DEF TreeInv, Defines
  <1>7. \A z : sym(f, z) = sym(e1, z)  BY <1>1, <1>3, <1>5, SymIsIndex
  <1>8. ml \in Seq(MethodRec)  BY MethodList
  <1>9. r.sym = sym(e1, str) /\ r.method = method  OBVIOUS
  <1>10. r.sym \in 1..Len(e1.symbols)
    <2>1. sym(e1, str) \in 0..Len(e1.symbols) /\ Len(e1.symbols) \in Nat  BY <1>3, SymIsIndex, SizesNat
    <2>2. sym(e1, str) \in 1..Len(e1.symbols)  BY <1>2, <2>1
    <2> HIDE DEF r
    <2> QED  BY <1>9, <2>2
  <1> HIDE DEF r
  <1>11. /\ Len(Append(ml, r)) = Len(ml) + 1 /\ Len(ml) \in Nat /\ Append(ml, r)[Len(ml) + 1] = r
         /\ \A j \in 1..Len(ml) : Append(ml, r)[j] = ml[j]
    <2>1. r \in MethodRec  BY <1>1
    <2> HIDE DEF ml
    <2> QED  BY <1>8, <2>1
  <1>12. MethodSymsInv(f)
    <2> SUFFICES ASSUME NEW o \in 1..Len(e.heap), NEW i \in 1..Len(f.heap[o].methods)
                 PROVE  f.heap[o].methods[i].sym \in 1..Len(e1.symbols)
      BY <1>1, <1>5 DEF MethodSymsInv
    <2>1. CASE o # c
      <3>1. f.heap[o].methods = e1.heap[o].methods  BY <1>1, <1>2, <2>1 DEF Defines
      <3> QED  BY <1>2, <1>4, <3>1 DEF MethodSymsInv
    <2>2. CASE o = c
      <3>1. i \in 1..Len(ml) \/ i = Len(ml) + 1
        <4>1. i \in 1..(Len(ml) + 1)  BY <1>1, <1>11, <2>2
        <4> HIDE DEF ml
        <4> QED  BY <1>11, <4>1
      <3>2. CASE i = Len(ml) + 1  BY <1>1, <1>10, <1>11, <2>2, <3>2
      <3>3. CASE i \in 1..Len(ml)
        <4>1. f.heap[o].methods[i] = e1.heap[c].methods[i]  BY <1>1, <1>2, <1>11, <2>2, <3>3
        <4> QED  BY <1>2, <1>4, <2>2, <3>3, <4>1 DEF MethodSymsInv
      <3> QED  BY <3>1, <3>2, <3>3
    <2> QED  BY <2>1, <2>2
  <1>13. /\ DOMAIN E = DOMAIN D \cup {<<c, str>>}
         /\ \A p \in DOMAIN D : E[p] = D[p]
         /\ <<c, str>> \notin DOMAIN D => E[<<c, str>>] = method
    BY DEF Once
  <1> HIDE DEF E
  <1>14. DefsInv(f, E)
    <2>1. DOMAIN E \subseteq (1..Len(f.heap)) \X Names
      BY <1>2, <1>4, <1>5, <1>13 DEF DefsInv
    <2>2. ASSUME NEW o \in 1..Len(e.heap), NEW z \in Names
          PROVE  /\ OwnMethod(f, o, z) # 0 <=> <<o, z>> \in DOMAIN E
                 /\ OwnMethod(f, o, z) # 0
                      => f.heap[o].methods[OwnMethod(f, o, z)].method = E[<<o, z>>]
      <3>0. /\ OwnMethod(e1, o, z) # 0 <=> <<o, z>> \in DOMAIN D
            /\ OwnMethod(e1, o, z) # 0
                 => e1.heap[o].methods[OwnMethod(e1, o, z)].method = D[<<o, z>>]
        BY <1>2, <1>4 DEF DefsInv
      <3>1. CASE o # c
        <4>1. f.heap[o].methods = e1.heap[o].methods  BY <1>1, <1>2, <3>1 DEF Defines
        <4>2. OwnMethod(f, o, z) = OwnMethod(e1, o, z)  BY <1>7, <4>1 DEF OwnMethod
        <4>3. <<o, z>> # <<c, str>>  BY <3>1
        <4> QED  BY <1>13, <3>0, <4>1, <4>2, <4>3
      <3>2. CASE o = c
        <4> DEFINE k == MethodAt(ml, sym(e1, z))
        <4>1. OwnMethod(e1, o, z) = k  BY <1>2, <3>2 DEF OwnMethod
        <4>2. OwnMethod(f, o, z) = IF k # 0 THEN k ELSE IF r.sym = sym(e1, z) THEN Len(ml) + 1 ELSE 0
          <5>1. OwnMethod(f, o, z) = MethodAt(Append(ml, r), sym(e1, z))
            BY <1>1, <1>7, <3>2 DEF OwnMethod
          <5> QED  BY <1>1, <1>8, <5>1, MethodAppend
        <4>3. r.sym = sym(e1, z) <=> z = str
          <5>1. r.sym = sym(e1, z) => z = str  BY <1>2, <1>3, <1>9, SymInjective
          <5> QED  BY <1>9, <5>1
        <4>4. k \in 0..Len(ml)  BY <1>8, MethodAtFirst
        <4> HIDE DEF k
        <4>5. CASE k # 0
          <5>1. k \in 1..Len(ml)  BY <1>11, <4>4, <4>5
          <5>2. f.heap[o].methods[k] = e1.heap[o].methods[k]  BY <1>1, <1>2, <1>11, <3>2, <5>1
          <5> QED  BY <1>13, <3>0, <4>1, <4>2, <4>5, <5>2
        <4>6. CASE k = 0 /\ z = str
          <5>1. OwnMethod(f, o, z) = Len(ml) + 1 /\ Len(ml) + 1 # 0  BY <1>11, <4>2, <4>3, <4>6
          <5>2. f.heap[o].methods[Len(ml) + 1].method = method  BY <1>1, <1>9, <1>11, <3>2
          <5>3. <<o, z>> \notin DOMAIN D /\ <<o, z>> = <<c, str>>  BY <3>0, <3>2, <4>1, <4>6
          <5> QED  BY <1>13, <5>1, <5>2, <5>3
        <4>7. CASE k = 0 /\ z # str
          <5>1. OwnMethod(f, o, z) = 0  BY <4>2, <4>3, <4>7
          <5>2. <<o, z>> \notin DOMAIN D /\ <<o, z>> # <<c, str>>  BY <3>0, <4>1, <4>7
          <5> QED  BY <1>13, <5>1, <5>2
        <4> QED  BY <4>5, <4>6, <4>7
      <3> QED  BY <3>1, <3>2
    <2> QED  BY <1>5, <2>1, <2>2 DEF DefsInv
  <1> QED  BY <1>6, <1>12, <1>14 DEF ClassesOK, f, E

-----------------------------------------------------------------------------
(* What a step of the program does to classes and constants.               *)

Stays == Extends(env, env') /\ Len(env'.heap) = Len(env.heap)

\* An object that is not a class, or one that Class.new left half-made.
Makes ==
  /\ Extends(env, env') /\ Len(env'.heap) = Len(env.heap) + 1
  /\ \E type \in Targets, allocate \in {"none", "unset"} : New(env', type, 0, 0, allocate)

\* A class of the program, in the scope of the code that defines it.
MakesClass(self) ==
  /\ Extends(env, env') /\ Len(env'.heap) = Len(env.heap) + 1
  /\ New(env', env.at["class_class"], env.at["class_object"],
         pup_class_context_from(env, self), "object")

Binds ==
  \/ ivars' = ivars
  \/ \E self \in Selves, n \in IvNames, v \in Values : Bind(self, n, v)
  \/ \E o \in Nat, v \in Nat : Bind(o, "@message", v)

Summary ==
  /\ step' = step /\ defs' = defs
  /\ \/ (Stays \/ Makes) /\ Binds
     \/ \E self \in Selves, n \in ClassNames :
          MakesClass(self) /\ Bind(pup_class_context_from(env, self), n, Len(env'.heap))

\* Storing an instance variable makes no object and binds it in self.
LEMMA IvSetDoes ==
  ASSUME Inv, Running, NEW self \in Selves, NEW name \in IvNames, NEW val \in Values,
         IvSet(self, name, val)
  PROVE  Summary
  <1>1. name \in Names /\ self \in 0..Len(env.heap)  BY NamesInUse, SelfExists, RunningFacts
  <1>2. val \in Nat  BY RunningFacts DEF Values, Null
  <1>3. /\ env' = pup_iv_set(env, self, name, val) /\ Bind(self, name, val)
        /\ step' = step /\ defs' = defs
    BY DEF IvSet
  <1>4. Stays  BY <1>1, <1>2, <1>3, RunningFacts, SetExtends DEF Stays
  <1> QED  BY <1>3, <1>4 DEF Summary, Binds

\* Reading one changes at most the symbol table.
LEMMA IvGetDoes ==
  ASSUME Inv, Running, NEW self, NEW name \in IvNames, IvGet(self, name)
  PROVE  Summary
  <1>1. name \in Names  BY NamesInUse
  <1>2. /\ env' = pup_str_to_sym(env, name) /\ ivars' = ivars /\ step' = step /\ defs' = defs
    BY DEF IvGet
  <1>3. Stays  BY <1>1, <1>2, RunningFacts, InternExtends DEF Stays
  <1> QED  BY <1>2, <1>3 DEF Summary, Binds

\* A class definition makes a class in its context and binds it there.
LEMMA ClassDefDoes ==
  ASSUME Inv, Running, NEW self \in Selves, NEW name \in ClassNames, ClassDef(self, name)
  PROVE  Summary
  <1> DEFINE scope == pup_class_context_from(env, self)
             super == env.at["class_object"]
             e == pup_internal_create_class(env, super, scope, "object")
             n == Len(e.heap)
  <1>0. EnvOK(env) /\ Len(env.heap) \in Nat  BY RunningFacts
  <1>1. /\ env' = pup_iv_set(e, scope, name, n) /\ Bind(scope, name, n)
        /\ step' = step /\ defs' = defs
    BY DEF ClassDef, last
  <1>2. self \in 1..Len(env.heap)  BY SelfExists
  <1>3. scope \in 0..Len(env.heap)
    BY <1>0, <1>2, TypeExists DEF pup_class_context_from
  <1>4. super \in Nat /\ scope \in Nat /\ "object" \in Allocators /\ name \in Names
    BY <1>0, <1>3, NamesInUse, FieldNames, AtOK DEF AtExists, Allocators
  <1> HIDE DEF scope, super
  <1>5. /\ Extends(env, e) /\ Len(e.heap) = Len(env.heap) + 1
        /\ New(e, env.at["class_class"], super, scope, "object")
    BY <1>0, <1>4, CreateClassExtends
  <1> HIDE DEF e
  <1>6. EnvOK(e) /\ n \in Nat /\ n \in 1..Len(e.heap) /\ scope \in 0..Len(e.heap)
    BY <1>0, <1>3, <1>5 DEF Extends
  <1>7. Extends(e, env') /\ Len(env'.heap) = n
    BY <1>1, <1>4, <1>6, SetExtends
  <1>8. Extends(env, env') /\ Len(env'.heap) = Len(env.heap) + 1  BY <1>5, <1>7, ExtendsTrans
  <1>9. New(env', env.at["class_class"], super, scope, "object")
    <2>1. Same(e, env', n)  BY <1>6, <1>7 DEF Extends
    <2> QED  BY <1>5, <1>7, <2>1 DEF New, Same
  <1>10. MakesClass(self)  BY <1>8, <1>9 DEF MakesClass, super, scope
  <1>11. Bind(pup_class_context_from(env, self), name, Len(env'.heap))  BY <1>1, <1>7 DEF scope
  <1> QED  BY <1>1, <1>10, <1>11 DEF Summary

\* An exception with a message, in an environment with some more names.
LEMMA RaiseDoes ==
  ASSUME Inv, Running, NEW e, Extends(env, e), Len(e.heap) = Len(env.heap), RaiseRuntimeError(e)
  PROVE  Summary
  <1>1. EnvOK(e) /\ e.at = env.at  BY DEF Extends
  <1>2. /\ env' = pup_new_runtimeerror(e) /\ Bind(Len(env'.heap), "@message", Len(env'.heap))
        /\ step' = step /\ defs' = defs
    BY DEF RaiseRuntimeError, last
  <1>3. /\ Extends(e, env') /\ Len(env'.heap) = Len(e.heap) + 1
        /\ New(env', env.at["class_runtimeerror"], 0, 0, "none")
    BY <1>1, <1>2, RuntimeErrorExtends
  <1>4. Extends(env, env')  BY <1>3, ExtendsTrans
  <1>5. env.at["class_runtimeerror"] \in Targets  BY DEF Targets
  <1>6. Makes  BY <1>3, <1>4, <1>5 DEF Makes
  <1>7. Len(env'.heap) \in Nat  BY <1>3, SizesNat DEF Extends
  <1>8. Binds  BY <1>2, <1>7 DEF Binds
  <1> QED  BY <1>2, <1>6, <1>8 DEF Summary

\* Looking up a constant finds it or raises.
LEMMA ConstGetDoes ==
  ASSUME Inv, Running, NEW self, NEW name \in ClassNames \cup {"Missing"}, ConstGet(self, name)
  PROVE  Summary
  <1> DEFINE e == pup_str_to_sym(env, name)
  <1>1. name \in Names  BY DEF Names
  <1>2. Extends(env, e) /\ e.heap = env.heap  BY <1>1, RunningFacts, InternExtends
  <1>3. \/ RaiseRuntimeError(e)
        \/ env' = e /\ step' = step /\ defs' = defs /\ ivars' = ivars
    BY DEF ConstGet
  <1> HIDE DEF e
  <1>4. CASE RaiseRuntimeError(e)  BY <1>2, <1>4, RaiseDoes
  <1>5. CASE env' = e /\ step' = step /\ defs' = defs /\ ivars' = ivars
    BY <1>2, <1>5 DEF Summary, Stays, Binds
  <1> QED  BY <1>3, <1>4, <1>5

\* What a method is invoked on is an object.
LEMMA TargetExists ==
  ASSUME Inv, Running, NEW target \in Targets
  PROVE  target \in 0..Len(env.heap)
  <1>1. \/ target \in 1..Len(env.heap)
        \/ \E f \in {"class_class", "class_runtimeerror", "class_fixnum"} : target = env.at[f]
    BY RunningFacts DEF Targets, Objects
  <1>2. \A f \in {"class_class", "class_runtimeerror", "class_fixnum"} : f \in Fields
    BY FieldNames
  <1> QED  BY <1>1, <1>2, RunningFacts, AtOK

\* Class.new makes at most one object, never a complete class.
LEMMA InvokeNewDoes ==
  ASSUME Inv, Running, NEW e, Extends(env, e), Len(e.heap) = Len(env.heap), NEW target \in Targets,
         NEW arg \in Nat, InvokeNew(e, target, arg)
  PROVE  Summary
  <1> DEFINE x == pup_str_to_sym(e, "allocate")
  <1>0. EnvOK(e) /\ target \in 0..Len(e.heap)  BY TargetExists DEF Extends
  <1>1. \/ env' = e /\ step' = step /\ defs' = defs /\ ivars' = ivars
        \/ RaiseRuntimeError(x)
        \/ /\ env' = pup_class_new(e, target, arg) /\ step' = step /\ defs' = defs
           /\ ivars' = ivars \/ Bind(Len(env'.heap), "@message", arg)
    BY DEF InvokeNew, last
  <1>2. CASE env' = e /\ step' = step /\ defs' = defs /\ ivars' = ivars
    BY <1>2 DEF Summary, Stays, Binds
  <1>3. CASE RaiseRuntimeError(x)
    <2>1. "allocate" \in Names  BY DEF Names
    <2>2. Extends(e, x) /\ x.heap = e.heap  BY <1>0, <2>1, InternExtends
    <2>3. Extends(env, x)  BY <2>2, ExtendsTrans
    <2> HIDE DEF x
    <2> QED  BY <1>3, <2>2, <2>3, RaiseDoes
  <1>4. CASE /\ env' = pup_class_new(e, target, arg) /\ step' = step /\ defs' = defs
             /\ ivars' = ivars \/ Bind(Len(env'.heap), "@message", arg)
    <2> DEFINE al == IF e.heap[target].allocate = "class" THEN "unset" ELSE "none"
    <2>1. /\ Extends(e, env') /\ Len(env'.heap) = Len(e.heap) + 1 /\ New(env', target, 0, 0, al)
      BY <1>0, <1>4, ClassNewExtends
    <2>2. al \in {"none", "unset"}  OBVIOUS
    <2> HIDE DEF al
    <2>3. Extends(env, env')  BY <2>1, ExtendsTrans
    <2>4. Makes  BY <2>1, <2>2, <2>3 DEF Makes
    <2>5. Binds  BY <1>4 DEF Binds
    <2> QED  BY <1>4, <2>4, <2>5 DEF Summary
  <1> QED  BY <1>1, <1>2, <1>3, <1>4

\* Invoking a method, ...
LEMMA InvokeDoes ==
  ASSUME Inv, Running, NEW target \in Targets, NEW name \in MethodNames \cup {"new", "message"},
         NEW arg \in {Null, main}, pup_invoke(target, name, arg)
  PROVE  Summary
  <1> DEFINE e == pup_str_to_sym(env, name)
             Still == step' = step /\ defs' = defs /\ ivars' = ivars
  <1>1. name \in Names /\ arg \in Nat  BY RunningFacts DEF Names, Null
  <1>2. target \in 0..Len(env.heap)  BY TargetExists
  <1>3. Extends(env, e) /\ e.heap = env.heap  BY <1>1, RunningFacts, InternExtends
  <1>4. \/ RaiseRuntimeError(e)
        \/ InvokeNew(e, target, arg)
        \/ env' = pup_str_to_sym(e, "@message") /\ Still
        \/ /\ env' = pup_iv_set(e, target, "@message", arg) /\ Bind(target, "@message", arg)
           /\ step' = step /\ defs' = defs
        \/ env' = e /\ Still
    BY DEF pup_invoke
  <1> HIDE DEF e
  <1>5. EnvOK(e)  BY <1>3 DEF Extends
  <1>6. CASE RaiseRuntimeError(e)  BY <1>3, <1>6, RaiseDoes
  <1>7. CASE InvokeNew(e, target, arg)  BY <1>1, <1>3, <1>7, InvokeNewDoes
  <1>8. CASE env' = pup_str_to_sym(e, "@message") /\ Still
    <2>1. Extends(e, env') /\ env'.heap = e.heap  BY <1>5, <1>8, NamesInUse, InternExtends
    <2>2. Stays  BY <1>3, <2>1, ExtendsTrans DEF Stays
    <2> QED  BY <1>8, <2>2 DEF Summary, Binds
  <1>9. CASE /\ env' = pup_iv_set(e, target, "@message", arg) /\ Bind(target, "@message", arg)
             /\ step' = step /\ defs' = defs
    <2>1. target \in 0..Len(e.heap)  BY <1>2, <1>3
    <2>2. Extends(e, env') /\ Len(env'.heap) = Len(e.heap)
      BY <1>1, <1>5, <1>9, <2>1, NamesInUse, SetExtends
    <2>3. Stays  BY <1>3, <2>2, ExtendsTrans DEF Stays
    <2>4. Binds
      <3>1. target \in Nat  BY <1>2
      <3> QED  BY <1>1, <1>9, <3>1 DEF Binds
    <2> QED  BY <1>9, <2>3, <2>4 DEF Summary
  <1>10. CASE env' = e /\ Still  BY <1>3, <1>10 DEF Summary, Stays, Binds
  <1> QED  BY <1>4, <1>6, <1>7, <1>8, <1>9, <1>10

\* ... on NULL, too, ...
LEMMA InvokeOnNullDoes ==
  ASSUME Inv, Running, NEW self, NEW name, InvokeOnNull(self, name)
  PROVE  Summary
  <1>1. env' = env /\ step' = step /\ defs' = defs /\ ivars' = ivars  BY DEF InvokeOnNull
  <1>2. EnvOK(env)  BY RunningFacts
  <1>3. Extends(env, env)
    <2>1. Len(env.heap) <= Len(env.heap)  BY RunningFacts
    <2>2. \A o \in 1..Len(env.heap) : Same(env, env, o)  BY DEF Same
    <2> QED  BY <1>2, <2>1, <2>2, HeapExtends
  <1> QED  BY <1>1, <1>3 DEF Summary, Stays, Binds

\* ... so that every step of the program is as in Summary.
LEMMA ProgramDoes ==
  ASSUME Inv, Program
  PROVE  Summary
  <1>1. Running  BY DEF Program
  <1>2. CASE \E self \in Selves, n \in IvNames, v \in Values : IvSet(self, n, v)
    BY <1>1, <1>2, IvSetDoes
  <1>3. CASE \E self \in Selves, n \in IvNames : IvGet(self, n)
    BY <1>1, <1>3, IvGetDoes
  <1>4. CASE \E self \in Selves, n \in ClassNames : ClassDef(self, n)
    BY <1>1, <1>4, ClassDefDoes
  <1>5. CASE \E self \in Selves, n \in ClassNames \cup {"Missing"} : ConstGet(self, n)
    BY <1>1, <1>5, ConstGetDoes
  <1>6. CASE \E t \in Targets, n \in MethodNames \cup {"new", "message"}, arg \in {Null, main} :
               pup_invoke(t, n, arg)
    BY <1>1, <1>6, InvokeDoes
  <1>7. CASE \E self \in Selves, n \in IvNames : InvokeOnNull(self, n)
    BY <1>1, <1>7, InvokeOnNullDoes
  <1> QED  BY <1>2, <1>3, <1>4, <1>5, <1>6, <1>7 DEF Program

-----------------------------------------------------------------------------
(* What a statement of the bootstrap does.                                 *)

\* The newest object is put in a field of struct RuntimeEnv.
Places(field, type, super, scope, allocate) ==
  /\ EnvOK(env') /\ Len(env'.heap) = Len(env.heap) + 1
  /\ env'.at = [env.at EXCEPT ![field] = Len(env.heap) + 1]
  /\ \A o \in 1..Len(env.heap) : Same(env, env', o)
  /\ New(env', type, super, scope, allocate)

\* The first two classes get their type.
Types(class) ==
  /\ EnvOK(env') /\ Len(env'.heap) = Len(env.heap) /\ env'.at = env.at
  /\ \A o \in 1..Len(env.heap) :
       /\ env'.heap[o].type = class /\ env'.heap[o].methods = env.heap[o].methods
       /\ env'.heap[o].superclass = env.heap[o].superclass
       /\ env'.heap[o].scope = env.heap[o].scope
       /\ env'.heap[o].allocate = env.heap[o].allocate

\* SetField() changes one field.
LEMMA SetFieldIs ==
  ASSUME NEW e, EnvOK(e), NEW field \in Fields, Len(e.heap) # 0
  PROVE  LET f == SetField(e, field)
         IN  /\ EnvOK(f) /\ f.heap = e.heap /\ f.symbols = e.symbols
             /\ f.at = [e.at EXCEPT ![field] = Len(e.heap)]
  <1> DEFINE f == SetField(e, field)
             at == [e.at EXCEPT ![field] = Len(e.heap)]
  <1>1. EnvOK(f)
    <2>1. Keeps(e, f)  BY SetFieldKeeps
    <2> QED  BY <2>1 DEF Keeps
  <1>2. e \in EnvRec  BY DEF EnvOK
  <1>3. f = [e EXCEPT !.at = at]  BY DEF SetField, last
  <1> HIDE DEF f, at
  <1>4. f.heap = e.heap /\ f.symbols = e.symbols /\ f.at = at  BY <1>2, <1>3 DEF EnvRec
  <1> QED  BY <1>1, <1>4 DEF f, at

\* An environment extended by one object, which is put in a field.
LEMMA PlaceStep ==
  ASSUME EnvOK(env), ClassesOK(env, defs), NEW e, Extends(env, e),
         Len(e.heap) = Len(env.heap) + 1, NEW type, NEW super \in 0..Len(env.heap),
         NEW scope \in 0..Len(env.heap), NEW allocate, New(e, type, super, scope, allocate),
         NEW field \in Fields, env' = SetField(e, field)
  PROVE  Places(field, type, super, scope, allocate) /\ ClassesOK(env', defs)
  <1>1. EnvOK(e) /\ Len(env.heap) \in Nat /\ Len(e.heap) # 0 /\ e.at = env.at
    BY SizesNat DEF Extends
  <1>2. /\ EnvOK(env') /\ env'.heap = e.heap /\ env'.symbols = e.symbols
        /\ env'.at = [e.at EXCEPT ![field] = Len(e.heap)]
    BY <1>1, SetFieldIs
  <1>3. ClassesOK(e, defs)
    <2>1. Grows(env, e)  BY GrowsOne
    <2> QED  BY <2>1, ClassesGrow
  <1>4. ClassesOK(env', defs)  BY <1>1, <1>2, <1>3, ClassesMoved
  <1>5. \A o \in 1..Len(env.heap) : Same(env, env', o)  BY <1>2 DEF Extends, Same
  <1>6. New(env', type, super, scope, allocate)  BY <1>2 DEF New
  <1> QED  BY <1>1, <1>2, <1>4, <1>5, <1>6 DEF Places

\* The first two classes are made by hand.
LEMMA FirstClassPlaced ==
  ASSUME EnvOK(env), ClassesOK(env, defs), NEW super \in 0..Len(env.heap),
         NEW allocate \in Allocators, NEW field \in Fields,
         env' = SetField(class_init(new_class(env, Null), last(env) + 1, super, super, allocate),
                         field)
  PROVE  Places(field, 0, super, super, allocate) /\ ClassesOK(env', defs)
  <1> DEFINE e1 == new_class(env, 0)
             e2 == class_init(e1, Len(e1.heap), super, super, allocate)
  <1>1. Len(env.heap) \in Nat /\ super \in Nat  BY SizesNat
  <1>2. Extends(env, e1) /\ Len(e1.heap) = Len(env.heap) + 1 /\ New(e1, 0, 0, 0, "unset")
    BY <1>1, NewClassExtends
  <1>3. e1.heap[Len(e1.heap)].type = 0  BY <1>2 DEF New
  <1>4. env' = SetField(e2, field)  BY <1>2 DEF last, Null
  <1> HIDE DEF e1
  <1>5. /\ Extends(env, e2) /\ Len(e2.heap) = Len(env.heap) + 1
        /\ New(e2, 0, super, super, allocate)
    BY <1>1, <1>2, <1>3, ClassInitExtends
  <1> HIDE DEF e2
  <1> QED  BY <1>4, <1>5, PlaceStep

\* obj_init() keeps the classes in order.
LEMMA TypesSet ==
  ASSUME EnvOK(env), ClassesOK(env, defs), NEW c \in 0..Len(env.heap), env' = Reset(env, c)
  PROVE  Types(c) /\ ClassesOK(env', defs)
  <1> DEFINE n == Len(env.heap)
             hp == [o \in DOMAIN env.heap |-> [env.heap[o] EXCEPT !.type = c, !.attrs = <<>>]]
  <1>1. env \in EnvRec /\ env.heap \in Seq(ObjectRec) /\ n \in Nat /\ DOMAIN env.heap = 1..n
    BY HeapDomain DEF EnvOK
  <1>2. EnvOK(env') /\ Len(env'.heap) = n  BY ResetOK
  <1>3. env' = [env EXCEPT !.heap = hp]  BY DEF Reset
  <1>4. ASSUME NEW o \in 1..n
        PROVE  /\ hp[o].type = c /\ hp[o].methods = env.heap[o].methods
               /\ hp[o].superclass = env.heap[o].superclass /\ hp[o].scope = env.heap[o].scope
               /\ hp[o].allocate = env.heap[o].allocate
    <2> DEFINE h == env.heap[o]
               h1 == [h EXCEPT !.type = c]
               h2 == [h1 EXCEPT !.attrs = <<>>]
    <2>1. hp[o] = h2  BY <1>1
    <2>2. h \in ObjectRec  BY <1>1
    <2> HIDE DEF h, hp
    <2>3. /\ h1.type = c /\ h1.methods = h.methods /\ h1.superclass = h.superclass
          /\ h1.scope = h.scope /\ h1.allocate = h.allocate
          /\ h1 \in [type : {c}, attrs : Seq(AttrRec), methods : Seq(MethodRec), superclass : Nat,
                     scope : Nat, allocate : Allocators]
      BY <2>2 DEF ObjectRec
    <2> HIDE DEF h1
    <2>4. /\ h2.type = c /\ h2.methods = h.methods /\ h2.superclass = h.superclass
          /\ h2.scope = h.scope /\ h2.allocate = h.allocate
      BY <2>3
    <2> HIDE DEF h2
    <2> QED  BY <2>1, <2>4 DEF h
  <1> HIDE DEF hp
  <1>5. env'.heap = hp /\ env'.symbols = env.symbols /\ env'.at = env.at  BY <1>1, <1>3 DEF EnvRec
  <1>6. Types(c)  BY <1>2, <1>4, <1>5 DEF Types
  <1>7. ClassesOK(env', defs)  BY <1>2, <1>4, <1>5, ClassesMoved
  <1> QED  BY <1>6, <1>7

\* A statement s after the first three, by its kind.
MethodDone(s) ==
  /\ Defines(env, env', env.at[s.field]) /\ ivars' = ivars
  /\ defs' = Once(defs, env.at[s.field], s.name, s.with)
ConstDone(s) ==
  Stays /\ defs' = defs /\ Bind(env.at["class_object"], s.name, env.at[s.field])
ClassDone(s) ==
  /\ Places(s.field, env.at["class_class"], env.at[s.with], 0, s.name)
  /\ ivars' = ivars /\ defs' = defs
InstanceDone(s) ==
  /\ Places(s.field, env.at[s.with], 0, 0, "none")
  /\ ivars' = ivars /\ defs' = defs
LaterDone(s) ==
  \/ /\ s \in [op : {"method"}, field : Fields, name : Names, with : RuntimeMethods]
     /\ MethodDone(s)
  \/ /\ s \in [op : {"const"}, field : Fields, name : Names, with : {"class_object"}]
     /\ ConstDone(s)
  \/ /\ s \in [op : {"class"}, field : Fields, name : Allocators, with : Fields]
     /\ ClassDone(s)
  \/ /\ s \in [op : {"instance"}, field : Fields, name : {""}, with : Fields]
     /\ InstanceDone(s)

\* The classes stay in order through the bootstrap.
LEMMA BootstrapDoes ==
  ASSUME Inv, ClassesOK(env, defs), Bootstrap, ~failed'
  PROVE  /\ ClassesOK(env', defs')
         /\ step \in 0..2 => ivars' = ivars /\ defs' = defs
         /\ step = 0 => Places("class_object", 0, 0, 0, "object")
         /\ step = 1 => LET c == env.at["class_object"] IN Places("class_class", 0, c, c, "class")
         /\ step = 2 => Types(env.at["class_class"])
         /\ step >= 3 => LaterDone(runtime_init[step + 1])
  <1> DEFINE s == runtime_init[step + 1]
             L == Len(runtime_init)
  <1>1. /\ EnvOK(env) /\ step \in 0..L /\ L \in Nat /\ L >= 3 /\ Len(env.heap) \in Nat
    BY RuntimeInit, HeapDomain DEF Inv, Begins
  <1>2. step' = step + 1 /\ step + 1 \in 1..L
    BY <1>1 DEF Bootstrap, Booted
  <1>3. Ready(env, s) /\ env' = Execute(env, s)  BY DEF Bootstrap
  <1>4. s.op # "const" => ivars' = ivars  BY DEF Bootstrap
  <1>5. s.op # "method" => defs' = defs  BY DEF Bootstrap
  <1>6. CASE step = 0
    <2>1. s.op = "class_object"  BY <1>6, RuntimeInit DEF Begins
    <2>2. env' = SetField(class_init(new_class(env, Null), last(env) + 1, Null, Null, "object"),
                          "class_object")
      BY <1>3, <2>1 DEF Execute
    <2>3. "object" \in Allocators /\ Null = 0 /\ 0 \in 0..Len(env.heap)
      BY <1>1 DEF Allocators, Null
    <2>4. Places("class_object", 0, 0, 0, "object") /\ ClassesOK(env', defs)
      BY <1>1, <2>2, <2>3, FieldNames, FirstClassPlaced
    <2> QED  BY <1>4, <1>5, <1>6, <2>1, <2>4
  <1>7. CASE step = 1
    <2>1. s.op = "class_class"  BY <1>7, RuntimeInit DEF Begins
    <2> DEFINE c == env.at["class_object"]
    <2>2. env' = SetField(class_init(new_class(env, Null), last(env) + 1, c, c, "class"),
                          "class_class")
      BY <1>3, <2>1 DEF Execute
    <2>3. "class" \in Allocators /\ c \in 0..Len(env.heap)
      BY <1>1, FieldNames, AtOK DEF Allocators
    <2> HIDE DEF c
    <2>4. Places("class_class", 0, c, c, "class") /\ ClassesOK(env', defs)
      BY <1>1, <2>2, <2>3, FieldNames, FirstClassPlaced
    <2> QED  BY <1>4, <1>5, <1>7, <2>1, <2>4 DEF c
  <1>8. CASE step = 2
    <2>1. s.op = "obj_init"  BY <1>8, RuntimeInit DEF Begins
    <2>2. env' = Reset(env, env.at["class_class"])  BY <1>3, <2>1 DEF Execute, Reset
    <2>3. env.at["class_class"] \in 0..Len(env.heap)  BY <1>1, FieldNames, AtOK
    <2>4. Types(env.at["class_class"]) /\ ClassesOK(env', defs)  BY <1>1, <2>2, <2>3, TypesSet
    <2> QED  BY <1>4, <1>5, <1>8, <2>1, <2>4
  <1>9. CASE step >= 3
    <2>1. s \in Later
      <3>1. step + 1 \in 4..Len(runtime_init)  BY <1>1, <1>2, <1>9
      <3> QED  BY <3>1, RuntimeInit DEF Begins
    <2>2. step \notin 0..2 /\ step # 0 /\ step # 1 /\ step # 2  BY <1>1, <1>9
    <2>3. SUFFICES ClassesOK(env', defs') /\ LaterDone(s)  BY <2>2
    <2>o. s.op = "method" => DefineOnce(env.at[s.field], s.name, s.with)  BY DEF Bootstrap
    <2>b. s.op = "const" => Bind(env.at["class_object"], s.name, env.at[s.field])
      BY DEF Bootstrap
    <2> HIDE DEF s
    <2>4. \/ s \in [op : {"method"}, field : Fields, name : Names, with : RuntimeMethods]
          \/ s \in [op : {"const"}, field : Fields, name : Names, with : {"class_object"}]
          \/ s \in [op : {"class"}, field : Fields, name : Allocators, with : Fields]
          \/ s \in [op : {"instance"}, field : Fields, name : {""}, with : Fields]
      BY <2>1 DEF Later
    <2>5. CASE s \in [op : {"method"}, field : Fields, name : Names, with : RuntimeMethods]
      <3>1. s.op = "method" /\ s.field \in Fields /\ s.name \in Names /\ s.with \in RuntimeMethods
        BY <2>5
      <3>2. env' = pup_define_method(env, env.at[s.field], s.name, s.with)
        BY <1>3, <3>1 DEF Execute
      <3>3. env.at[s.field] # 0  BY <1>3, <3>1 DEF Ready, Null
      <3>4. env.at[s.field] \in 1..Len(env.heap)
        <4>1. env.at[s.field] \in 0..Len(env.heap)  BY <1>1, <3>1, AtOK
        <4> QED  BY <1>1, <3>3, <4>1
      <3>5. s.with \in MethodValues  BY <3>1 DEF MethodValues
      <3>6. defs' = Once(defs, env.at[s.field], s.name, s.with)  BY <2>o, <3>1 DEF DefineOnce, Once
      <3>7. ClassesOK(env', defs')  BY <1>1, <3>1, <3>2, <3>4, <3>5, <3>6, DefineClasses
      <3>8. Defines(env, env', env.at[s.field])  BY <1>1, <3>1, <3>2, <3>4, <3>5, DefineShape
      <3> QED  BY <1>4, <2>5, <3>1, <3>6, <3>7, <3>8 DEF LaterDone, MethodDone
    <2>6. CASE s \in [op : {"const"}, field : Fields, name : Names, with : {"class_object"}]
      <3>1. s.op = "const" /\ s.field \in Fields /\ s.name \in Names /\ s.with = "class_object"
        BY <2>6
      <3>2. env' = pup_iv_set(env, env.at["class_object"], s.name, env.at[s.field])
        BY <1>3, <3>1 DEF Execute
      <3>3. env.at["class_object"] \in 0..Len(env.heap) /\ env.at[s.field] \in Nat
        BY <1>1, <3>1, FieldNames, AtOK DEF AtExists
      <3>4. Stays  BY <1>1, <3>1, <3>2, <3>3, SetExtends DEF Stays
      <3>5. ClassesOK(env', defs)
        <4>1. Grows(env, env')  BY <3>4, GrowsSame DEF Stays
        <4> QED  BY <4>1, ClassesGrow
      <3> QED  BY <1>5, <2>6, <2>b, <3>1, <3>4, <3>5 DEF LaterDone, ConstDone
    <2>7. CASE s \in [op : {"class"}, field : Fields, name : Allocators, with : Fields]
      <3>1. s.op = "class" /\ s.field \in Fields /\ s.name \in Allocators /\ s.with \in Fields
        BY <2>7
      <3> DEFINE e == pup_internal_create_class(env, env.at[s.with], 0, s.name)
                 c == env.at["class_class"]
                 super == env.at[s.with]
      <3>2. env' = SetField(e, s.field)  BY <1>3, <3>1 DEF Execute, Null
      <3>3. super \in Nat /\ super \in 0..Len(env.heap) /\ 0 \in 0..Len(env.heap)
        BY <1>1, <3>1, AtOK DEF AtExists
      <3>4. Extends(env, e) /\ Len(e.heap) = Len(env.heap) + 1 /\ New(e, c, super, 0, s.name)
        BY <1>1, <3>1, <3>3, CreateClassExtends
      <3> HIDE DEF e, c, super
      <3>5. Places(s.field, c, super, 0, s.name) /\ ClassesOK(env', defs)
        BY <1>1, <3>1, <3>2, <3>3, <3>4, PlaceStep
      <3> QED  BY <1>4, <1>5, <2>7, <3>1, <3>5 DEF LaterDone, ClassDone, c, super
    <2>8. CASE s \in [op : {"instance"}, field : Fields, name : {""}, with : Fields]
      <3>1. s.op = "instance" /\ s.field \in Fields /\ s.with \in Fields
        BY <2>8
      <3> DEFINE c == env.at[s.with]
                 e == new_obj(env, c)
      <3>2. env' = SetField(e, s.field)  BY <1>3, <3>1 DEF Execute
      <3>3. c \in Nat /\ c <= Len(env.heap) /\ 0 \in 0..Len(env.heap)
        BY <1>1, <3>1, AtOK DEF AtExists
      <3> HIDE DEF c
      <3>4. Extends(env, e) /\ Len(e.heap) = Len(env.heap) + 1 /\ New(e, c, 0, 0, "none")
        BY <1>1, <3>3, NewObjExtends
      <3> HIDE DEF e
      <3>5. Places(s.field, c, 0, 0, "none") /\ ClassesOK(env', defs)
        BY <1>1, <3>1, <3>2, <3>3, <3>4, PlaceStep
      <3> QED  BY <1>4, <1>5, <2>8, <3>1, <3>5 DEF LaterDone, InstanceDone, c
    <2> QED  BY <2>4, <2>5, <2>6, <2>7, <2>8
  <1>10. step = 0 \/ step = 1 \/ step = 2 \/ step >= 3  BY <1>1
  <1> QED  BY <1>6, <1>7, <1>8, <1>9, <1>10

-----------------------------------------------------------------------------
(* Dispatch.                                                               *)

\* The method lists are what was defined, and classes are younger than what they
\* inherit from and what they are nested in.
ClassesInv == ClassesOK(env, defs)

\* The context of code that runs is an object.
LEMMA ContextExists ==
  ASSUME Inv, Running, NEW self \in Selves
  PROVE  pup_class_context_from(env, self) \in 0..Len(env.heap)
  <1>1. self \in 1..Len(env.heap) /\ EnvOK(env) /\ Len(env.heap) \in Nat
    BY SelfExists, RunningFacts
  <1> QED  BY <1>1, TypeExists DEF pup_class_context_from

\* The classes stay in order while the program runs, ...
LEMMA ProgramClasses ==
  ASSUME Inv, ClassesInv, Program
  PROVE  ClassesInv'
  <1>1. Running  BY DEF Program
  <1>2. Summary  BY ProgramDoes
  <1>3. EnvOK(env) /\ Len(env.heap) \in Nat /\ 0 \in 0..Len(env.heap)  BY <1>1, RunningFacts
  <1>4. Grows(env, env')
    <2>1. CASE Stays  BY <2>1, GrowsSame DEF Stays
    <2>2. CASE Makes
      <3>1. PICK type \in Targets, allocate \in {"none", "unset"} : New(env', type, 0, 0, allocate)
        BY <2>2 DEF Makes
      <3> QED  BY <1>3, <2>2, <3>1, GrowsOne DEF Makes
    <2>3. CASE \E self \in Selves : MakesClass(self)
      <3>1. PICK self \in Selves : MakesClass(self)  BY <2>3
      <3>2. pup_class_context_from(env, self) \in 0..Len(env.heap)  BY <1>1, ContextExists
      <3>3. env.at["class_object"] \in 0..Len(env.heap)  BY <1>3, FieldNames, AtOK
      <3> QED  BY <3>1, <3>2, <3>3, GrowsOne DEF MakesClass
    <2> QED  BY <1>2, <2>1, <2>2, <2>3 DEF Summary
  <1>5. ClassesOK(env', defs)  BY <1>4, ClassesGrow DEF ClassesInv
  <1> QED  BY <1>2, <1>5 DEF Summary, ClassesInv

\* What def does.
LEMMA MethodDefDoes ==
  ASSUME Inv, NEW name \in MethodNames, MethodDef(name)
  PROVE  \E method \in MethodValues :
           /\ body \in 1..Len(env.heap) /\ name \in Names
           /\ env' = pup_define_method(env, body, name, method)
           /\ defs' = Once(defs, body, name, method)
           /\ step' = step /\ ivars' = ivars
  <1> DEFINE n == Len(env.heap[body].methods) + 1
             method == "method" \o ToString(n)
  <1>1. EnvOK(env) /\ body \in 1..Len(env.heap)
    <2>1. EnvOK(env) /\ body \in 0..Len(env.heap) /\ body # 0
      BY DEF Inv, MethodDef, Null
    <2> QED  BY <2>1, HeapDomain
  <1>2. /\ env' = pup_define_method(env, body, name, method)
        /\ DefineOnce(body, name, method) /\ step' = step /\ ivars' = ivars
    BY DEF MethodDef
  <1>3. n \in Nat
    <2>1. env.heap[body].methods \in Seq(MethodRec)  BY <1>1, MethodList
    <2> QED  BY <2>1
  <1> HIDE DEF n
  <1>4. method \in MethodValues
    <2>1. method \in {"method" \o ToString(m) : m \in Nat}  BY <1>3, Zenon
    <2> QED  BY <2>1, Zenon DEF MethodValues
  <1> HIDE DEF method
  <1>5. defs' = Once(defs, body, name, method)  BY <1>2 DEF DefineOnce, Once
  <1> QED  BY <1>1, <1>2, <1>4, <1>5, NamesInUse

\* ... in every step, ...
LEMMA ClassesNext ==
  Inv /\ ClassesInv /\ [Next]_vars => ClassesInv'
  <1> SUFFICES ASSUME Inv, ClassesInv, [Next]_vars PROVE ClassesInv'  OBVIOUS
  <1>1. CASE Bootstrap
    <2>1. CASE failed'
      <3>1. env' = env /\ defs' = defs  BY <1>1, <2>1 DEF Bootstrap
      <3> QED  BY <3>1 DEF ClassesInv
    <2>2. CASE ~failed'  BY <1>1, <2>2, BootstrapDoes DEF ClassesInv
    <2> QED  BY <2>1, <2>2
  <1>2. CASE Program  BY <1>2, ProgramClasses
  <1>3. CASE ClassBody
    <2>1. CASE \E n \in MethodNames : MethodDef(n)
      <3>1. PICK n \in MethodNames : MethodDef(n)  BY <2>1
      <3>2. PICK method \in MethodValues :
              /\ body \in 1..Len(env.heap) /\ n \in Names
              /\ env' = pup_define_method(env, body, n, method)
              /\ defs' = Once(defs, body, n, method)
        BY <3>1, MethodDefDoes
      <3>3. EnvOK(env)  BY DEF Inv
      <3> QED  BY <3>2, <3>3, DefineClasses DEF ClassesInv
    <2>2. CASE EndClass
      <3>1. env' = env /\ defs' = defs  BY <2>2 DEF EndClass
      <3> QED  BY <3>1 DEF ClassesInv
    <2> QED  BY <1>3, <2>1, <2>2 DEF ClassBody
  <1>4. CASE UNCHANGED vars
    <2>1. env' = env /\ defs' = defs  BY <1>4 DEF vars
    <2> QED  BY <2>1 DEF ClassesInv
  <1> QED  BY <1>1, <1>2, <1>3, <1>4 DEF Next

\* ... and are at first.
LEMMA ClassesInit ==
  Init => ClassesInv
  <1> SUFFICES ASSUME Init PROVE ClassesInv  OBVIOUS
  <1>1. env.heap = <<>> /\ defs = <<>>  BY DEF Init
  <1>2. 1..Len(env.heap) = {} /\ DOMAIN defs = {}  BY <1>1
  <1> QED  BY <1>2 DEF ClassesInv, ClassesOK, TreeInv, MethodSymsInv, DefsInv

\* The tree of classes and the method lists are sound in every reachable state: a
\* class is younger than its superclass and its scope, so the walks of
\* find_method_in_classes() and pup_const_get() end, and a method list holds the
\* names that were defined in the class, the first definition of each first.
THEOREM ClassesHold ==
  Spec => []ClassesInv
  BY ClassesInit, ClassesNext, InvHolds, PTL DEF Spec

\* Whatever the program, its names and the number of its classes and objects, a
\* method call goes to the nearest superclass that defines the name and to the
\* first definition there: find_method_in_classes(), which searches lists of
\* interned symbols, implements lookup by name along the superclasses.
THEOREM DispatchAlwaysByName ==
  Spec => []DispatchByName
  <1>1. Inv /\ ClassesInv => DispatchByName  BY Dispatch DEF Inv, ClassesInv
  <1> QED  BY <1>1, InvHolds, ClassesHold, PTL

-----------------------------------------------------------------------------
(* The bootstrap meets no missing pointer or method.                       *)

FirstTwo == {"class_object", "class_class"}

\* The first two classes, ...
RootsInv ==
  /\ step < 3 => Len(env.heap) = IF step = 0 THEN 0 ELSE IF step = 1 THEN 1 ELSE 2
  /\ step >= 3 => Len(env.heap) >= 2
  /\ step >= 1 => env.at["class_object"] = 1
  /\ step >= 2 => env.at["class_class"] = 2 /\ env.heap[2].superclass = 1
  /\ step >= 3 => env.heap[2].type = 2 /\ \A o \in 1..Len(env.heap) : env.heap[o].type # 0

\* ... the other well-known objects, set by the statements so far, ...
FieldsInv ==
  \A f \in Fields \ FirstTwo :
    (env.at[f] # 0 <=> IsSet(runtime_init, step, f)) /\ (env.at[f] # 0 => env.at[f] > 2)

\* ... and the methods: those of Object, which classes are made with, are found
\* there because Class itself has none.
SeedInv ==
  /\ \A p \in DOMAIN defs : defs[p] \in RuntimeMethods
  /\ \A n \in Names : <<2, n>> \notin DOMAIN defs
  /\ \A n \in Names : HasMethod(runtime_init, step, n) => <<1, n>> \in DOMAIN defs
  /\ <<1, "new">> \in DOMAIN defs => defs[<<1, "new">>] = "pup_class_new"
  /\ <<1, "allocate">> \in DOMAIN defs => defs[<<1, "allocate">>] = "pup_object_allocate"

BootInv ==
  /\ failed => Booted
  /\ ~Booted => body = 0
  /\ RootsInv /\ FieldsInv
  /\ ~Booted => SeedInv

\* What Inv says of the sizes.
LEMMA StepFacts ==
  ASSUME Inv
  PROVE  /\ EnvOK(env) /\ Len(env.heap) \in Nat /\ step \in 0..Len(runtime_init)
         /\ Len(runtime_init) \in Nat /\ Len(runtime_init) >= 3 /\ step \in Nat
         /\ \A f \in Fields : env.at[f] \in 0..Len(env.heap)
  <1>1. EnvOK(env) /\ step \in 0..Len(runtime_init)  BY DEF Inv
  <1>2. Len(runtime_init) \in Nat /\ Len(runtime_init) >= 3  BY RuntimeInit DEF Begins
  <1>3. \A f \in Fields : env.at[f] \in 0..Len(env.heap)  BY <1>1, AtOK
  <1> QED  BY <1>1, <1>2, <1>3, HeapDomain

\* From the fourth statement on, a field is set if the statements so far set it.
LEMMA SetFields ==
  ASSUME Inv, BootInv, step >= 3, NEW f \in Fields
  PROVE  env.at[f] # 0 <=> IsSet(runtime_init, step, f)
  <1>1. CASE f \in FirstTwo
    <2>1. step >= 1 /\ step >= 2  BY StepFacts
    <2>2. env.at[f] # 0  BY <1>1, <2>1 DEF BootInv, RootsInv, FirstTwo
    <2>3. IsSet(runtime_init, step, f)  BY <1>1 DEF IsSet, FirstTwo
    <2> QED  BY <2>2, <2>3
  <1>2. CASE f \notin FirstTwo  BY <1>2 DEF BootInv, FieldsInv
  <1> QED  BY <1>1, <1>2

\* The methods of Object are found from Class.
LEMMA FindsSeed ==
  ASSUME Inv, ClassesInv, BootInv, ~Booted, step >= 3, NEW n \in Names,
         HasMethod(runtime_init, step, n)
  PROVE  <<1, n>> \in DOMAIN defs /\ find_method_in_classes(env, 2, n) = defs[<<1, n>>]
  <1>1. EnvOK(env) /\ Len(env.heap) \in Nat /\ step \in Nat  BY StepFacts
  <1>2. TreeInv(env) /\ DefsInv(env, defs)  BY DEF ClassesInv, ClassesOK
  <1>3. Len(env.heap) >= 2 /\ env.heap[2].superclass = 1
    <2>1. step >= 2  BY <1>1
    <2> QED  BY <2>1 DEF BootInv, RootsInv
  <1>4. 1 \in 1..Len(env.heap) /\ 2 \in 1..Len(env.heap)  BY <1>1, <1>3
  <1>5. <<2, n>> \notin DOMAIN defs /\ <<1, n>> \in DOMAIN defs  BY DEF BootInv, SeedInv
  <1>6. OwnMethod(env, 2, n) = 0 /\ OwnMethod(env, 1, n) # 0
    BY <1>2, <1>4, <1>5 DEF DefsInv
  <1>7. find_method_in_classes(env, 2, n) = find_method_in_classes(env, 1, n)
    BY <1>1, <1>2, <1>3, <1>4, <1>6, FindWalk
  <1>8. find_method_in_classes(env, 1, n) = env.heap[1].methods[OwnMethod(env, 1, n)].method
    BY <1>1, <1>2, <1>4, <1>6, FindWalk
  <1>9. env.heap[1].methods[OwnMethod(env, 1, n)].method = defs[<<1, n>>]
    BY <1>2, <1>4, <1>6 DEF DefsInv
  <1> QED  BY <1>5, <1>7, <1>8, <1>9

\* When Object has the methods it takes, classes can be created.
LEMMA CanCreate ==
  ASSUME Inv, ClassesInv, BootInv, ~Booted, step >= 3,
         \A n \in Creation : HasMethod(runtime_init, step, n)
  PROVE  CanCreateClass(env)
  <1>1. step >= 2 /\ step \in Nat  BY StepFacts
  <1>2. env.at["class_class"] = 2 /\ env.heap[2].type = 2  BY <1>1 DEF BootInv, RootsInv
  <1>3. Creation \subseteq Names /\ Creation = {"new", "allocate", "initialize"}
    BY DEF Creation, Names
  <1>4. \A n \in Creation : /\ <<1, n>> \in DOMAIN defs
                            /\ find_method_in_classes(env, 2, n) = defs[<<1, n>>]
    BY <1>3, FindsSeed
  <1>5. SeedInv  BY DEF BootInv
  <1>6. find_method_in_classes(env, 2, "new") = "pup_class_new"  BY <1>3, <1>4, <1>5 DEF SeedInv
  <1>7. find_method_in_classes(env, 2, "allocate") = "pup_object_allocate"
    BY <1>3, <1>4, <1>5 DEF SeedInv
  <1>8. find_method_in_classes(env, 2, "initialize") # "none"
    <2>1. find_method_in_classes(env, 2, "initialize") \in RuntimeMethods
      BY <1>3, <1>4, <1>5 DEF SeedInv
    <2>2. "none" \notin RuntimeMethods  BY DEF RuntimeMethods
    <2> QED  BY <2>1, <2>2
  <1> QED  BY <1>2, <1>6, <1>7, <1>8 DEF CanCreateClass, Null

\* The statement that comes next, and why it can be executed.
LEMMA NextFits ==
  ASSUME Inv, ~Booted, step >= 3
  PROVE  /\ runtime_init[step + 1] \in Later
         /\ FitsIn(runtime_init[step + 1], {f \in Fields : IsSet(runtime_init, step, f)},
                   {n \in Names : HasMethod(runtime_init, step, n)})
  <1>1. step + 1 \in 4..Len(runtime_init) /\ (step + 1) - 1 = step
    BY StepFacts DEF Booted
  <1>2. Fits(runtime_init, step + 1)  BY <1>1, RuntimeOrder DEF Ordered
  <1> QED  BY <1>1, <1>2, RuntimeInit DEF Fits, Begins

\* So the next statement finds everything it uses.
LEMMA AlwaysReady ==
  ASSUME Inv, ClassesInv, BootInv, ~Booted
  PROVE  Ready(env, runtime_init[step + 1])
  <1> DEFINE s == runtime_init[step + 1]
  <1>1. CASE step < 3
    <2>1. step = 0 \/ step = 1 \/ step = 2  BY <1>1, StepFacts
    <2>2. s.op \in {"class_object", "class_class", "obj_init"}  BY <2>1, RuntimeInit DEF Begins
    <2> HIDE DEF s
    <2>3. s.op # "class" /\ s.op # "instance" /\ s.op # "const" /\ s.op # "method"  BY <2>2
    <2>4. Ready(env, s)  BY <2>3 DEF Ready
    <2> QED  BY <2>4 DEF s
  <1>2. CASE step >= 3
    <2> DEFINE F == {f \in Fields : IsSet(runtime_init, step, f)}
               M == {n \in Names : HasMethod(runtime_init, step, n)}
    <2>1. s \in Later /\ FitsIn(s, F, M)  BY <1>2, NextFits
    <2>2. \A f \in F : env.at[f] # 0  BY <1>2, SetFields
    <2>3. Creation \subseteq M => CanCreateClass(env)  BY <1>2, CanCreate
    <2>4. "class_object" \in F  BY FieldNames DEF IsSet
    <2> HIDE DEF s, F, M
    <2>5. \/ s.op = "method"
          \/ s.op = "const" /\ s.with = "class_object"
          \/ s.op = "class"
          \/ s.op = "instance"
      <3>1. \/ s \in [op : {"method"}, field : Fields, name : Names, with : RuntimeMethods]
            \/ s \in [op : {"const"}, field : Fields, name : Names, with : {"class_object"}]
            \/ s \in [op : {"class"}, field : Fields, name : Allocators, with : Fields]
            \/ s \in [op : {"instance"}, field : Fields, name : {""}, with : Fields]
        BY <2>1 DEF Later
      <3> QED  BY <3>1
    <2>6. CASE s.op = "method"  BY <2>1, <2>2, <2>6 DEF FitsIn, Ready, Null, s
    <2>7. CASE s.op = "const" /\ s.with = "class_object"
      BY <2>1, <2>2, <2>4, <2>7 DEF FitsIn, Ready, Null, s
    <2>8. CASE s.op = "class"  BY <2>1, <2>2, <2>3, <2>8 DEF FitsIn, Ready, Null, s
    <2>9. CASE s.op = "instance"  BY <2>1, <2>2, <2>9 DEF FitsIn, Ready, Null, s
    <2> QED  BY <2>5, <2>6, <2>7, <2>8, <2>9
  <1> QED  BY <1>1, <1>2, StepFacts

\* One more statement.
LEMMA Progress ==
  ASSUME NEW x, NEW k \in Nat, k >= 3
  PROVE  /\ \A f : IsSet(x, k + 1, f) <=>
                IsSet(x, k, f) \/ (x[k + 1].op \in {"class", "instance"} /\ x[k + 1].field = f)
         /\ \A n : HasMethod(x, k + 1, n) <=>
                \/ HasMethod(x, k, n)
                \/ x[k + 1].op = "method" /\ x[k + 1].field = "class_object" /\ x[k + 1].name = n
         /\ \A n : HasConst(x, k + 1, n) <=>
                HasConst(x, k, n) \/ (x[k + 1].op = "const" /\ x[k + 1].name = n)
  <1>1. 4..(k + 1) = (4..k) \cup {k + 1}  OBVIOUS
  <1>2. \A f : IsSet(x, k + 1, f) <=>
                IsSet(x, k, f) \/ (x[k + 1].op \in {"class", "instance"} /\ x[k + 1].field = f)
    BY <1>1 DEF IsSet
  <1>3. \A n : HasMethod(x, k + 1, n) <=>
                \/ HasMethod(x, k, n)
                \/ x[k + 1].op = "method" /\ x[k + 1].field = "class_object" /\ x[k + 1].name = n
    BY <1>1 DEF HasMethod
  <1>4. \A n : HasConst(x, k + 1, n) <=>
                HasConst(x, k, n) \/ (x[k + 1].op = "const" /\ x[k + 1].name = n)
    BY <1>1 DEF HasConst
  <1> QED  BY <1>2, <1>3, <1>4

\* The first three statements.
LEMMA NoProgress ==
  ASSUME NEW x, NEW k \in Nat, k <= 3
  PROVE  /\ \A f : IsSet(x, k, f) <=> f \in FirstTwo
         /\ \A n : ~HasMethod(x, k, n) /\ ~HasConst(x, k, n)
  <1>1. 4..k = {}  OBVIOUS
  <1> QED  BY <1>1 DEF IsSet, HasMethod, HasConst, FirstTwo

\* A field that is set for the first time, to an object that is not among the
\* first two.
LEMMA FieldPlaced ==
  ASSUME Inv, BootInv, ~Booted, step >= 3, step' = step + 1,
         NEW field \in Fields, ~IsSet(runtime_init, step, field),
         runtime_init[step + 1].op \in {"class", "instance"},
         runtime_init[step + 1].field = field,
         NEW type, type # 0, NEW super, NEW scope, NEW allocate,
         Places(field, type, super, scope, allocate)
  PROVE  RootsInv' /\ FieldsInv'
  <1>1. /\ EnvOK(env) /\ Len(env.heap) \in Nat /\ step \in Nat /\ Len(env.heap) >= 2
        /\ env.at \in [Fields -> Nat]
    BY StepFacts DEF BootInv, RootsInv, EnvOK, EnvRec
  <1>2. step >= 1 /\ step >= 2 /\ ~(step' < 3)  BY <1>1
  <1>3. /\ Len(env'.heap) = Len(env.heap) + 1
        /\ env'.at = [env.at EXCEPT ![field] = Len(env.heap) + 1]
        /\ \A o \in 1..Len(env.heap) : Same(env, env', o)
        /\ New(env', type, super, scope, allocate)
    BY DEF Places
  <1>4. field \notin FirstTwo  BY DEF IsSet, FirstTwo
  <1>5. env'.at[field] = Len(env.heap) + 1 /\ \A f \in Fields : f # field => env'.at[f] = env.at[f]
    BY <1>1, <1>3
  <1>6. RootsInv'
    <2>1. "class_object" # field /\ "class_class" # field  BY <1>4 DEF FirstTwo
    <2>2. env'.at["class_object"] = 1 /\ env'.at["class_class"] = 2
      BY <1>2, <1>5, <2>1, FieldNames DEF BootInv, RootsInv
    <2>3. Same(env, env', 2)
      <3>1. 2 \in 1..Len(env.heap)  BY <1>1
      <3> QED  BY <1>3, <3>1
    <2>4. env'.heap[2].superclass = 1 /\ env'.heap[2].type = 2
      BY <1>2, <2>3 DEF BootInv, RootsInv, Same
    <2>5. ASSUME NEW o \in 1..Len(env'.heap) PROVE env'.heap[o].type # 0
      <3>1. CASE o \in 1..Len(env.heap)  BY <1>3, <3>1 DEF BootInv, RootsInv, Same
      <3>2. CASE o \notin 1..Len(env.heap)
        <4>1. o = Len(env'.heap)  BY <1>1, <1>3, <3>2
        <4> QED  BY <1>3, <4>1 DEF New
      <3> QED  BY <3>1, <3>2
    <2>6. Len(env'.heap) >= 2  BY <1>1, <1>3
    <2> QED  BY <1>2, <2>2, <2>4, <2>5, <2>6 DEF RootsInv
  <1>7. FieldsInv'
    <2> SUFFICES ASSUME NEW f \in Fields \ FirstTwo
                 PROVE  /\ env'.at[f] # 0 <=> IsSet(runtime_init, step + 1, f)
                        /\ env'.at[f] # 0 => env'.at[f] > 2
      BY DEF FieldsInv
    <2>1. IsSet(runtime_init, step + 1, f) <=> IsSet(runtime_init, step, f) \/ f = field
      BY <1>1, Progress
    <2>2. CASE f = field  BY <1>1, <1>5, <2>1, <2>2
    <2>3. CASE f # field  BY <1>5, <2>1, <2>3 DEF BootInv, FieldsInv
    <2> QED  BY <2>2, <2>3
  <1> QED  BY <1>6, <1>7

\* A step that leaves the fields, the types and the superclasses.
LEMMA FieldsStay ==
  ASSUME Inv, BootInv, step >= 3, step' \in Nat, step' >= 3,
         \A f \in Fields : IsSet(runtime_init, step', f) <=> IsSet(runtime_init, step, f),
         env'.at = env.at, Len(env'.heap) \in Nat, Len(env.heap) <= Len(env'.heap),
         \A o \in 1..Len(env.heap) : /\ env'.heap[o].type = env.heap[o].type
                                     /\ env'.heap[o].superclass = env.heap[o].superclass,
         \A o \in 1..Len(env'.heap) : o > Len(env.heap) => env'.heap[o].type # 0
  PROVE  RootsInv' /\ FieldsInv'
  <1>1. Len(env.heap) \in Nat /\ step \in Nat /\ Len(env.heap) >= 2
    BY StepFacts DEF BootInv, RootsInv
  <1>2. step >= 1 /\ step >= 2 /\ ~(step' < 3)  BY <1>1
  <1>3. 2 \in 1..Len(env.heap) /\ Len(env'.heap) >= 2  BY <1>1
  <1>4. ASSUME NEW o \in 1..Len(env'.heap) PROVE env'.heap[o].type # 0
    <2>1. CASE o > Len(env.heap)  BY <2>1
    <2>2. CASE ~(o > Len(env.heap))
      <3>1. o \in 1..Len(env.heap)  BY <1>1, <2>2
      <3> QED  BY <3>1 DEF BootInv, RootsInv
    <2> QED  BY <2>1, <2>2
  <1>5. RootsInv'  BY <1>2, <1>3, <1>4 DEF BootInv, RootsInv
  <1>6. FieldsInv'  BY DEF BootInv, FieldsInv
  <1> QED  BY <1>5, <1>6

\* No method is defined.
LEMMA SeedStays ==
  ASSUME SeedInv, defs' = defs,
         \A n : HasMethod(runtime_init, step', n) => HasMethod(runtime_init, step, n)
  PROVE  SeedInv'
  BY DEF SeedInv

\* A method is.
LEMMA SeedDefined ==
  ASSUME Inv, BootInv, SeedInv, ~Booted, step >= 3, step' = step + 1,
         runtime_init[step + 1].op = "method",
         LET s == runtime_init[step + 1]
         IN  defs' = Once(defs, env.at[s.field], s.name, s.with) /\ s.with \in RuntimeMethods
  PROVE  SeedInv'
  <1> DEFINE s == runtime_init[step + 1]
             c == env.at[s.field]
             F == {f \in Fields : IsSet(runtime_init, step, f)}
  <1>1. s.op = "method" /\ defs' = Once(defs, c, s.name, s.with) /\ s.with \in RuntimeMethods
    OBVIOUS
  <1>2. /\ s.field \in F /\ s.field # "class_class"
        /\ s.field = "class_object" /\ s.name = "new" => s.with = "pup_class_new"
        /\ s.field = "class_object" /\ s.name = "allocate" => s.with = "pup_object_allocate"
    BY <1>1, NextFits DEF FitsIn
  <1>3. c # 2 /\ (c = 1 <=> s.field = "class_object")
    <2>1. CASE s.field = "class_object"
      <3>1. step >= 1  BY StepFacts
      <3>2. c = 1  BY <2>1, <3>1 DEF BootInv, RootsInv
      <3> QED  BY <2>1, <3>2
    <2>2. CASE s.field # "class_object"
      <3>1. s.field \in Fields \ FirstTwo  BY <1>2, <2>2 DEF FirstTwo
      <3>2. c # 0  BY <1>2, SetFields
      <3>3. c > 2 /\ c \in Nat  BY <3>1, <3>2, StepFacts DEF BootInv, FieldsInv
      <3> QED  BY <2>2, <3>3
    <2> QED  BY <2>1, <2>2
  <1>4. \A n : HasMethod(runtime_init, step', n) <=>
                 HasMethod(runtime_init, step, n) \/ (s.field = "class_object" /\ s.name = n)
    BY <1>1, StepFacts, Progress
  <1> HIDE DEF s, c, F
  <1>5. /\ DOMAIN defs' = DOMAIN defs \cup {<<c, s.name>>}
        /\ \A p \in DOMAIN defs : defs'[p] = defs[p]
        /\ <<c, s.name>> \notin DOMAIN defs => defs'[<<c, s.name>>] = s.with
    BY <1>1 DEF Once
  <1>6. \A n : <<c, s.name>> = <<1, n>> <=> c = 1 /\ s.name = n  OBVIOUS
  <1>7. \A n : <<c, s.name>> # <<2, n>>  BY <1>3
  <1>8. \A p \in DOMAIN defs' : defs'[p] \in RuntimeMethods  BY <1>1, <1>5 DEF SeedInv
  <1>9. \A n \in Names : <<2, n>> \notin DOMAIN defs'  BY <1>5, <1>7 DEF SeedInv
  <1>10. \A n \in Names : HasMethod(runtime_init, step', n) => <<1, n>> \in DOMAIN defs'
    BY <1>3, <1>4, <1>5, <1>6 DEF SeedInv
  <1>11. <<1, "new">> \in DOMAIN defs' => defs'[<<1, "new">>] = "pup_class_new"
    BY <1>2, <1>3, <1>5, <1>6 DEF SeedInv
  <1>12. <<1, "allocate">> \in DOMAIN defs' => defs'[<<1, "allocate">>] = "pup_object_allocate"
    BY <1>2, <1>3, <1>5, <1>6 DEF SeedInv
  <1> QED  BY <1>8, <1>9, <1>10, <1>11, <1>12 DEF SeedInv

\* The first two classes are made, and get their type.
LEMMA BootFirst ==
  ASSUME Inv, ClassesInv, BootInv, Bootstrap, ~failed', step < 3
  PROVE  RootsInv' /\ FieldsInv' /\ SeedInv'
  <1>1. EnvOK(env) /\ Len(env.heap) \in Nat /\ step \in Nat /\ env.at \in [Fields -> Nat]
    BY StepFacts DEF EnvOK, EnvRec
  <1>2. step' = step + 1  BY DEF Bootstrap
  <1>3. step \in 0..2 /\ step' \in Nat /\ step' <= 3 /\ step <= 3  BY <1>1, <1>2
  <1>4. /\ ivars' = ivars /\ defs' = defs
        /\ step = 0 => Places("class_object", 0, 0, 0, "object")
        /\ step = 1 => LET c == env.at["class_object"] IN Places("class_class", 0, c, c, "class")
        /\ step = 2 => Types(env.at["class_class"])
    BY <1>3, BootstrapDoes DEF ClassesInv
  <1>5. \A f \in Fields : IsSet(runtime_init, step', f) <=> IsSet(runtime_init, step, f)
    BY <1>1, <1>3, NoProgress
  <1>6. \A n : ~HasMethod(runtime_init, step', n)  BY <1>3, NoProgress
  <1>7. SeedInv'
    <2>1. SeedInv
      <3>1. ~Booted  BY DEF Bootstrap
      <3> QED  BY <3>1 DEF BootInv
    <2> QED  BY <1>4, <1>6, <2>1, SeedStays
  <1>8. FieldsInv'
    <2>1. \A f \in Fields \ FirstTwo : env'.at[f] = env.at[f]
      <3>1. CASE step = 0  BY <1>1, <1>4, <3>1 DEF Places, FirstTwo
      <3>2. CASE step = 1  BY <1>1, <1>4, <3>2 DEF Places, FirstTwo
      <3>3. CASE step = 2  BY <1>4, <3>3 DEF Types
      <3> QED  BY <1>3, <3>1, <3>2, <3>3
    <2> QED  BY <1>5, <2>1 DEF BootInv, FieldsInv
  <1>9. RootsInv'
    <2>1. CASE step = 0
      <3>1. Len(env.heap) = 0  BY <2>1 DEF BootInv, RootsInv
      <3>2. Places("class_object", 0, 0, 0, "object")  BY <1>4, <2>1
      <3>3. Len(env'.heap) = 1 /\ env'.at["class_object"] = 1
        BY <1>1, <3>1, <3>2, FieldNames DEF Places
      <3>4. step' = 1  BY <1>2, <2>1
      <3> QED  BY <3>3, <3>4 DEF RootsInv
    <2>2. CASE step = 1
      <3>1. Len(env.heap) = 1 /\ env.at["class_object"] = 1  BY <2>2 DEF BootInv, RootsInv
      <3>2. Places("class_class", 0, 1, 1, "class")  BY <1>4, <2>2, <3>1
      <3>3. Len(env'.heap) = 2 /\ env'.at = [env.at EXCEPT !["class_class"] = 2]
        BY <3>1, <3>2 DEF Places
      <3>4. env'.at["class_class"] = 2 /\ env'.at["class_object"] = 1
        BY <1>1, <3>1, <3>3, FieldNames
      <3>5. env'.heap[2].superclass = 1  BY <3>2, <3>3 DEF Places, New
      <3>6. step' = 2  BY <1>2, <2>2
      <3> QED  BY <3>3, <3>4, <3>5, <3>6 DEF RootsInv
    <2>3. CASE step = 2
      <3>1. /\ Len(env.heap) = 2 /\ env.at["class_object"] = 1 /\ env.at["class_class"] = 2
            /\ env.heap[2].superclass = 1
        BY <2>3 DEF BootInv, RootsInv
      <3>2. Types(2)  BY <1>4, <2>3, <3>1
      <3>3. Len(env'.heap) = 2 /\ env'.at = env.at  BY <3>1, <3>2 DEF Types
      <3>4. \A o \in 1..2 : env'.heap[o].type = 2 /\ env'.heap[o].superclass = env.heap[o].superclass
        BY <3>1, <3>2 DEF Types
      <3>5. 2 \in 1..2  OBVIOUS
      <3>6. env'.heap[2].superclass = 1 /\ env'.heap[2].type = 2  BY <3>1, <3>4, <3>5
      <3>7. step' = 3  BY <1>2, <2>3
      <3>8. \A o \in 1..Len(env'.heap) : env'.heap[o].type # 0  BY <3>3, <3>4
      <3> QED  BY <3>1, <3>3, <3>6, <3>7, <3>8 DEF RootsInv
    <2> QED  BY <1>3, <2>1, <2>2, <2>3
  <1> QED  BY <1>7, <1>8, <1>9

\* The statements after the first three.
LEMMA BootLater ==
  ASSUME Inv, ClassesInv, BootInv, Bootstrap, ~failed', step >= 3
  PROVE  RootsInv' /\ FieldsInv' /\ SeedInv'
  <1> DEFINE s == runtime_init[step + 1]
             F == {f \in Fields : IsSet(runtime_init, step, f)}
             M == {n \in Names : HasMethod(runtime_init, step, n)}
  <1>1. EnvOK(env) /\ Len(env.heap) \in Nat /\ step \in Nat  BY StepFacts
  <1>2. step' = step + 1 /\ ~Booted  BY DEF Bootstrap
  <1>3. step' \in Nat /\ step' >= 3  BY <1>1, <1>2
  <1>4. LaterDone(s)  BY BootstrapDoes DEF ClassesInv
  <1>5. FitsIn(s, F, M)  BY <1>2, NextFits
  <1>6. SeedInv  BY <1>2 DEF BootInv
  <1>7. /\ \A f : IsSet(runtime_init, step', f) <=>
                IsSet(runtime_init, step, f) \/ (s.op \in {"class", "instance"} /\ s.field = f)
        /\ \A n : HasMethod(runtime_init, step', n) <=>
                \/ HasMethod(runtime_init, step, n)
                \/ s.op = "method" /\ s.field = "class_object" /\ s.name = n
    BY <1>1, <1>2, Progress
  <1>8. CASE /\ s \in [op : {"method"}, field : Fields, name : Names, with : RuntimeMethods]
             /\ MethodDone(s)
    <2>1. s.op = "method" /\ s.with \in RuntimeMethods  BY <1>8
    <2>2. /\ Defines(env, env', env.at[s.field])
          /\ defs' = Once(defs, env.at[s.field], s.name, s.with)
      BY <1>8 DEF MethodDone
    <2>3. SeedInv'  BY <1>2, <1>6, <2>1, <2>2, SeedDefined
    <2>4. \A o \in 1..Len(env'.heap) : ~(o > Len(env.heap))  BY <1>1, <2>2 DEF Defines
    <2> HIDE DEF s
    <2>5. RootsInv' /\ FieldsInv'
      BY <1>1, <1>3, <1>7, <2>1, <2>2, <2>4, FieldsStay DEF Defines
    <2> QED  BY <2>3, <2>5
  <1>9. CASE /\ s \in [op : {"const"}, field : Fields, name : Names, with : {"class_object"}]
             /\ ConstDone(s)
    <2>1. s.op = "const"  BY <1>9
    <2>2. Stays /\ defs' = defs  BY <1>9 DEF ConstDone
    <2> HIDE DEF s
    <2>3. SeedInv'  BY <1>6, <1>7, <2>1, <2>2, SeedStays
    <2>4. \A o \in 1..Len(env'.heap) : ~(o > Len(env.heap))  BY <1>1, <2>2 DEF Stays
    <2>5. RootsInv' /\ FieldsInv'
      BY <1>1, <1>3, <1>7, <2>1, <2>2, <2>4, FieldsStay DEF Stays, Extends, Same
    <2> QED  BY <2>3, <2>5
  <1>10. CASE /\ s \in [op : {"class"}, field : Fields, name : Allocators, with : Fields]
              /\ ClassDone(s)
    <2>1. s.op = "class" /\ s.field \in Fields  BY <1>10
    <2>2. Places(s.field, env.at["class_class"], env.at[s.with], 0, s.name) /\ defs' = defs
      BY <1>10 DEF ClassDone
    <2>3. env.at["class_class"] = 2
      <3>1. step >= 2  BY <1>1
      <3> QED  BY <3>1 DEF BootInv, RootsInv
    <2>4. ~IsSet(runtime_init, step, s.field)  BY <1>5, <2>1 DEF FitsIn
    <2>5. RootsInv' /\ FieldsInv'  BY <1>2, <2>1, <2>2, <2>3, <2>4, FieldPlaced
    <2> HIDE DEF s
    <2>6. SeedInv'  BY <1>6, <1>7, <2>1, <2>2, SeedStays
    <2> QED  BY <2>5, <2>6
  <1>11. CASE /\ s \in [op : {"instance"}, field : Fields, name : {""}, with : Fields]
              /\ InstanceDone(s)
    <2>1. s.op = "instance" /\ s.field \in Fields /\ s.with \in Fields  BY <1>11
    <2>2. Places(s.field, env.at[s.with], 0, 0, "none") /\ defs' = defs
      BY <1>11 DEF InstanceDone
    <2>3. ~IsSet(runtime_init, step, s.field) /\ IsSet(runtime_init, step, s.with)
      BY <1>5, <2>1 DEF FitsIn
    <2>4. env.at[s.with] # 0  BY <2>1, <2>3, SetFields
    <2>5. RootsInv' /\ FieldsInv'  BY <1>2, <2>1, <2>2, <2>3, <2>4, FieldPlaced
    <2> HIDE DEF s
    <2>6. SeedInv'  BY <1>6, <1>7, <2>1, <2>2, SeedStays
    <2> QED  BY <2>5, <2>6
  <1> QED  BY <1>4, <1>8, <1>9, <1>10, <1>11 DEF LaterDone

\* A statement of the bootstrap does not fail and preserves the invariant, ...
LEMMA BootBootstrap ==
  ASSUME Inv, ClassesInv, BootInv, Bootstrap
  PROVE  BootInv' /\ ~failed'
  <1>1. ~Booted /\ failed' = ~Ready(env, runtime_init[step + 1]) /\ body' = body
    BY DEF Bootstrap
  <1>2. ~failed'  BY <1>1, AlwaysReady
  <1>3. step \in Nat  BY StepFacts
  <1>4. RootsInv' /\ FieldsInv' /\ SeedInv'  BY <1>2, <1>3, BootFirst, BootLater
  <1> QED  BY <1>1, <1>2, <1>4 DEF BootInv

\* When the bootstrap is done all fields are set.
LEMMA AllSet ==
  ASSUME Inv, BootInv, Booted
  PROVE  step >= 3 /\ \A f \in Fields : env.at[f] # 0
  <1>1. step = Len(runtime_init) /\ step >= 3  BY StepFacts DEF Booted
  <1>2. \A f \in Fields : IsSet(runtime_init, step, f)  BY <1>1, RuntimeOrder
  <1> QED  BY <1>1, <1>2, SetFields

\* So what the program makes objects of exists.
LEMMA TargetsSet ==
  ASSUME Inv, BootInv, Running, NEW target \in Targets
  PROVE  target # 0
  <1>1. Booted  BY DEF Running
  <1>2. \/ target \in Objects /\ target >= main
        \/ \E f \in {"class_class", "class_runtimeerror", "class_fixnum"} : target = env.at[f]
    BY DEF Targets
  <1>3. \A f \in {"class_class", "class_runtimeerror", "class_fixnum"} : env.at[f] # 0
    BY <1>1, AllSet, FieldNames
  <1>4. target \in Objects => target # 0  BY RunningFacts DEF Objects
  <1> QED  BY <1>2, <1>3, <1>4

\* Every object the program makes has a type.
LEMMA TypesSummary ==
  ASSUME Inv, BootInv, Running, Summary
  PROVE  /\ Extends(env, env')
         /\ \A o \in 1..Len(env'.heap) : o > Len(env.heap) => env'.heap[o].type # 0
  <1>1. Booted /\ Len(env.heap) \in Nat  BY RunningFacts DEF Running
  <1>2. CASE Stays
    <2>1. \A o \in 1..Len(env'.heap) : ~(o > Len(env.heap))  BY <1>1, <1>2 DEF Stays
    <2> QED  BY <1>2, <2>1 DEF Stays
  <1>3. CASE Makes
    <2>1. PICK type \in Targets, allocate \in {"none", "unset"} : New(env', type, 0, 0, allocate)
      BY <1>3 DEF Makes
    <2>2. type # 0  BY TargetsSet
    <2>3. \A o \in 1..Len(env'.heap) : o > Len(env.heap) => o = Len(env'.heap)
      BY <1>1, <1>3 DEF Makes
    <2> QED  BY <1>3, <2>1, <2>2, <2>3 DEF Makes, New
  <1>4. CASE \E self \in Selves : MakesClass(self)
    <2>1. PICK self \in Selves : MakesClass(self)  BY <1>4
    <2>2. env.at["class_class"] # 0  BY <1>1, AllSet, FieldNames
    <2>3. \A o \in 1..Len(env'.heap) : o > Len(env.heap) => o = Len(env'.heap)
      BY <1>1, <2>1 DEF MakesClass
    <2> QED  BY <2>1, <2>2, <2>3 DEF MakesClass, New
  <1> QED  BY <1>2, <1>3, <1>4 DEF Summary

\* ... a step of the program does, ...
LEMMA BootProgram ==
  ASSUME Inv, BootInv, Program
  PROVE  BootInv'
  <1>1. Running /\ Booted  BY DEF Program, Running
  <1>2. Summary /\ step' = step
    <2>1. Summary  BY ProgramDoes
    <2> QED  BY <2>1 DEF Summary
  <1>3. Booted'  BY <1>1, <1>2 DEF Booted
  <1>4. /\ Extends(env, env')
        /\ \A o \in 1..Len(env'.heap) : o > Len(env.heap) => env'.heap[o].type # 0
    BY <1>1, <1>2, TypesSummary
  <1>5. step \in Nat /\ step >= 3  BY <1>1, AllSet, StepFacts
  <1>6. Len(env'.heap) \in Nat  BY <1>4, SizesNat DEF Extends
  <1>7. RootsInv' /\ FieldsInv'
    BY <1>2, <1>4, <1>5, <1>6, FieldsStay DEF Extends, Same
  <1> QED  BY <1>3, <1>7 DEF BootInv

\* ... one of a class body, ...
LEMMA BootClassBody ==
  ASSUME Inv, BootInv, ClassBody
  PROVE  BootInv'
  <1>1. body # 0 /\ step' = step /\ failed' = failed
    BY DEF ClassBody, MethodDef, EndClass, Null
  <1>2. Booted /\ Booted'  BY <1>1 DEF BootInv, Booted
  <1>3. CASE EndClass
    <2>1. env' = env  BY <1>3 DEF EndClass
    <2> QED  BY <1>1, <1>2, <2>1 DEF BootInv, RootsInv, FieldsInv
  <1>4. CASE \E n \in MethodNames : MethodDef(n)
    <2>1. PICK n \in MethodNames : MethodDef(n)  BY <1>4
    <2>2. PICK method \in MethodValues :
            /\ body \in 1..Len(env.heap) /\ n \in Names
            /\ env' = pup_define_method(env, body, n, method)
      BY <2>1, MethodDefDoes
    <2>3. EnvOK(env) /\ Len(env.heap) \in Nat /\ step \in Nat /\ step >= 3
      BY <1>2, AllSet, StepFacts
    <2>4. Defines(env, env', body)  BY <2>2, <2>3, DefineShape
    <2>5. \A o \in 1..Len(env'.heap) : ~(o > Len(env.heap))  BY <2>3, <2>4 DEF Defines
    <2>6. RootsInv' /\ FieldsInv'  BY <1>1, <2>3, <2>4, <2>5, FieldsStay DEF Defines
    <2> QED  BY <1>1, <1>2, <2>6 DEF BootInv
  <1> QED  BY <1>3, <1>4 DEF ClassBody

\* ... and so every step.
LEMMA BootNext ==
  Inv /\ ClassesInv /\ BootInv /\ [Next]_vars => BootInv'
  <1> SUFFICES ASSUME Inv, ClassesInv, BootInv, [Next]_vars PROVE BootInv'  OBVIOUS
  <1>1. CASE Bootstrap  BY <1>1, BootBootstrap
  <1>2. CASE Program  BY <1>2, BootProgram
  <1>3. CASE ClassBody  BY <1>3, BootClassBody
  <1>4. CASE UNCHANGED vars
    BY <1>4 DEF vars, BootInv, Booted, RootsInv, FieldsInv, SeedInv
  <1> QED  BY <1>1, <1>2, <1>3, <1>4 DEF Next

\* The invariant holds before the first statement.
LEMMA BootInit ==
  Init => BootInv
  <1> SUFFICES ASSUME Init PROVE BootInv  OBVIOUS
  <1>1. /\ env = [symbols |-> <<>>, next_sym |-> 1, heap |-> <<>>, at |-> [f \in Fields |-> 0]]
        /\ step = 0 /\ body = 0 /\ failed = FALSE /\ defs = <<>>
    BY DEF Init, Null
  <1>2. env.heap = <<>> /\ \A f \in Fields : env.at[f] = 0  BY <1>1
  <1>3. Len(env.heap) = 0 /\ DOMAIN defs = {}
    <2>1. Len(<<>>) = 0 /\ DOMAIN <<>> = {}  OBVIOUS
    <2>2. env.heap = <<>> /\ defs = <<>>  BY <1>1, <1>2
    <2> QED  BY <2>1, <2>2
  <1>s. step \in Nat /\ step <= 3  BY <1>1
  <1>4. \A f : IsSet(runtime_init, step, f) <=> f \in FirstTwo  BY <1>s, NoProgress
  <1>5. \A n : ~HasMethod(runtime_init, step, n)  BY <1>s, NoProgress
  <1>6. RootsInv  BY <1>1, <1>3 DEF RootsInv
  <1>7. FieldsInv  BY <1>2, <1>4 DEF FieldsInv
  <1>8. SeedInv  BY <1>3, <1>5 DEF SeedInv
  <1> QED  BY <1>1, <1>6, <1>7, <1>8 DEF BootInv

\* Each statement of runtime_init() finds what the ones before it made: at every
\* step the well-known fields that are set are exactly those set so far, and Object
\* has the methods that creating a class goes through.
THEOREM BootHolds ==
  Spec => []BootInv
  BY BootInit, BootNext, InvHolds, ClassesHold, PTL DEF Spec

\* The bootstrap never meets an unset pointer or a missing method, and when it is
\* done no field of struct RuntimeEnv is unset and, ever after, no object's type.
THEOREM BootstrapAlwaysComplete ==
  Spec => []BootstrapComplete
  <1>1. ASSUME Inv, BootInv PROVE BootstrapComplete
    <2>1. failed => Booted  BY <1>1 DEF BootInv
    <2>2. ASSUME Booted
          PROVE  /\ \A f \in Fields : env.at[f] # Null
                 /\ \A o \in Objects : env.heap[o].type # Null
      <3>1. step >= 3 /\ \A f \in Fields : env.at[f] # 0  BY <1>1, <2>2, AllSet
      <3>2. Objects = 1..Len(env.heap)  BY <1>1, HeapDomain DEF Inv, Objects
      <3> QED  BY <1>1, <3>1, <3>2 DEF BootInv, RootsInv, Null
    <2> QED  BY <2>1, <2>2 DEF BootstrapComplete
  <1> QED  BY <1>1, InvHolds, BootHolds, PTL

-----------------------------------------------------------------------------
(* The runtime's constants, and what of the program may take their place.  *)

UserConst(v, n) == v > main /\ n \in ClassNames

\* Object has the constants bound so far, ...
ConstsInv ==
  \A n \in DOMAIN WellKnown :
    HasConst(runtime_init, step, n) =>
      \/ Bound(1, n) = env.at[WellKnown[n]]
      \/ Booted /\ UserConst(Bound(1, n), n)

\* ... and the scopes of the program's classes lead to it.  That they are of type
\* Class is why the selves that instance variables are set in are not among them.
ScopesInv ==
  Booted =>
    /\ env.heap[main].type = 1
    /\ \A o \in 1..Len(env.heap) : UserClass(o) =>
         /\ env.heap[o].type = 2
         /\ env.heap[o].scope = 1 \/ UserClass(env.heap[o].scope)
         /\ \A n \in DOMAIN WellKnown : Bound(o, n) = 0 \/ UserConst(Bound(o, n), n)

ConstInv == ConstsInv /\ ScopesInv

\* A store changes one binding.
LEMMA BoundAfter ==
  ASSUME NEW o, NEW n, NEW v, Bind(o, n, v), NEW p, NEW m
  PROVE  Bound(p, m)' = IF p = o /\ m = n THEN v ELSE Bound(p, m)
  <1>1. ivars' = [q \in DOMAIN ivars \cup {<<o, n>>} |-> IF q = <<o, n>> THEN v ELSE ivars[q]]
    BY DEF Bind
  <1>2. <<p, m>> = <<o, n>> <=> p = o /\ m = n  OBVIOUS
  <1>3. CASE p = o /\ m = n
    <2>1. <<p, m>> \in DOMAIN ivars' /\ ivars'[<<p, m>>] = v  BY <1>1, <1>2, <1>3
    <2> QED  BY <1>3, <2>1 DEF Bound
  <1>4. CASE ~(p = o /\ m = n)
    <2>1. <<p, m>> \in DOMAIN ivars' <=> <<p, m>> \in DOMAIN ivars  BY <1>1, <1>2, <1>4
    <2>2. <<p, m>> \in DOMAIN ivars => ivars'[<<p, m>>] = ivars[<<p, m>>]  BY <1>1, <1>2, <1>4
    <2> QED  BY <1>4, <2>1, <2>2 DEF Bound
  <1> QED  BY <1>3, <1>4

\* A constant is bound after its field is set.
LEMMA ConstHasField ==
  ASSUME NEW k \in 3..Len(runtime_init), NEW n \in DOMAIN WellKnown, HasConst(runtime_init, k, n)
  PROVE  WellKnown[n] \in Fields /\ IsSet(runtime_init, k, WellKnown[n])
  <1>1. Len(runtime_init) \in Nat /\ k \in Nat  BY RuntimeInit DEF Begins
  <1>2. PICK j \in 4..k : runtime_init[j].op = "const" /\ runtime_init[j].name = n
    BY DEF HasConst
  <1>3. j \in 4..Len(runtime_init) /\ j - 1 \in Nat /\ j - 1 <= k  BY <1>1
  <1>4. Fits(runtime_init, j)  BY <1>3, RuntimeOrder DEF Ordered
  <1>5. IsSet(runtime_init, j - 1, WellKnown[n])  BY <1>2, <1>4 DEF Fits, FitsIn
  <1>6. 4..(j - 1) \subseteq 4..k  BY <1>1, <1>3
  <1> QED  BY <1>5, <1>6 DEF IsSet, Fields

\* The bootstrap has more than three statements.
LEMMA MoreThanThree ==
  Len(runtime_init) >= 4
  <1>1. Len(runtime_init) \in Nat /\ Len(runtime_init) >= 3 /\ runtime_init[3].op = "obj_init"
    BY RuntimeInit DEF Begins
  <1>2. runtime_init[Len(runtime_init)].op = "instance"  BY RuntimeOrder
  <1> QED  BY <1>1, <1>2

\* Statements of the bootstrap bind the constants to their fields.
LEMMA ConstsBootstrap ==
  ASSUME Inv, ClassesInv, BootInv, ConstInv, Bootstrap
  PROVE  ConstInv'
  <1> DEFINE s == runtime_init[step + 1]
             F == {f \in Fields : IsSet(runtime_init, step, f)}
             M == {n \in Names : HasMethod(runtime_init, step, n)}
  <1>1. /\ Len(env.heap) \in Nat /\ step \in Nat /\ step \in 0..Len(runtime_init)
        /\ Len(runtime_init) \in Nat /\ env.at \in [Fields -> Nat]
    BY StepFacts DEF EnvOK, EnvRec
  <1>2. step' = step + 1 /\ ~Booted /\ ~failed'  BY BootBootstrap DEF Bootstrap
  <1>3. CASE step < 3
    <2>1. step' \in Nat /\ step' <= 3 /\ ~Booted'  BY <1>1, <1>2, <1>3, MoreThanThree DEF Booted
    <2>2. \A n : ~HasConst(runtime_init, step', n)  BY <2>1, NoProgress
    <2> QED  BY <2>1, <2>2 DEF ConstInv, ConstsInv, ScopesInv
  <1>4. CASE step >= 3
    <2>1. LaterDone(s)  BY <1>2, <1>4, BootstrapDoes DEF ClassesInv
    <2>2. FitsIn(s, F, M)  BY <1>2, <1>4, NextFits
    <2>3. \A n : HasConst(runtime_init, step', n) <=>
                   HasConst(runtime_init, step, n) \/ (s.op = "const" /\ s.name = n)
      BY <1>1, <1>2, <1>4, Progress
    <2>4. \A n \in DOMAIN WellKnown : HasConst(runtime_init, step, n) =>
            /\ Bound(1, n) = env.at[WellKnown[n]]
            /\ WellKnown[n] \in Fields /\ IsSet(runtime_init, step, WellKnown[n])
      BY <1>1, <1>2, <1>4, ConstHasField DEF ConstInv, ConstsInv
    <2>5. env.at["class_object"] = 1
      <3>1. step >= 1  BY <1>1, <1>4
      <3> QED  BY <3>1 DEF BootInv, RootsInv
    <2>l. step' = Len(runtime_init) =>
            s.op = "instance" /\ s.field = "main_obj" /\ s.with = "class_object"
      BY <1>2, RuntimeOrder
    <2> HIDE DEF s
    <2>6. ConstsInv'
      <3> SUFFICES ASSUME NEW n \in DOMAIN WellKnown, HasConst(runtime_init, step', n)
                   PROVE  Bound(1, n)' = env'.at[WellKnown[n]]
        BY DEF ConstsInv
      <3>1. CASE s.op = "const" /\ ConstDone(s)
        <4>1. Bind(1, s.name, env.at[s.field]) /\ env'.at = env.at
          BY <2>5, <3>1 DEF ConstDone, Stays, Extends
        <4>2. s.name \in DOMAIN WellKnown /\ WellKnown[s.name] = s.field
          BY <2>2, <3>1 DEF FitsIn
        <4>3. Bound(1, n)' = IF n = s.name THEN env.at[s.field] ELSE Bound(1, n)
          BY <4>1, BoundAfter
        <4> QED  BY <2>3, <2>4, <4>1, <4>2, <4>3
      <3>2. CASE s.op = "method" /\ MethodDone(s)
        <4>1. ivars' = ivars /\ env'.at = env.at  BY <3>2 DEF MethodDone, Defines
        <4> QED  BY <2>3, <2>4, <3>2, <4>1 DEF Bound
      <3>3. CASE s.op \in {"class", "instance"} /\ (ClassDone(s) \/ InstanceDone(s))
        <4>1. ivars' = ivars /\ env'.at = [env.at EXCEPT ![s.field] = Len(env.heap) + 1]
          BY <3>3 DEF ClassDone, InstanceDone, Places
        <4>2. HasConst(runtime_init, step, n)  BY <2>3, <3>3
        <4>3. WellKnown[n] # s.field  BY <2>2, <2>4, <3>3, <4>2 DEF FitsIn
        <4>4. env'.at[WellKnown[n]] = env.at[WellKnown[n]]  BY <1>1, <2>4, <4>1, <4>2, <4>3
        <4> QED  BY <2>4, <4>1, <4>2, <4>4 DEF Bound
      <3>4. \/ s.op = "const" /\ ConstDone(s)
            \/ s.op = "method" /\ MethodDone(s)
            \/ s.op \in {"class", "instance"} /\ (ClassDone(s) \/ InstanceDone(s))
        BY <2>1 DEF LaterDone
      <3> QED  BY <3>1, <3>2, <3>3, <3>4
    <2>7. ScopesInv'
      <3> SUFFICES ASSUME Booted' PROVE ScopesInv'  BY DEF ScopesInv
      <3>1. s.op = "instance" /\ s.field = "main_obj" /\ s.with = "class_object"
        BY <2>l DEF Booted
      <3>2. InstanceDone(s)  BY <2>1, <3>1 DEF LaterDone
      <3>3. Places("main_obj", 1, 0, 0, "none")  BY <2>5, <3>1, <3>2 DEF InstanceDone
      <3>4. /\ env'.at["main_obj"] = Len(env'.heap) /\ Len(env'.heap) = Len(env.heap) + 1
            /\ env'.heap[Len(env'.heap)].type = 1
        BY <1>1, <3>3, FieldNames DEF Places, New
      <3>5. main' = Len(env'.heap) /\ Len(env'.heap) \in Nat  BY <1>1, <3>4 DEF main
      <3>6. \A o \in 1..Len(env'.heap) : ~UserClass(o)'  BY <3>5 DEF UserClass
      <3> QED  BY <3>4, <3>5, <3>6 DEF ScopesInv
    <2> QED  BY <2>6, <2>7 DEF ConstInv
  <1> QED  BY <1>1, <1>3, <1>4

\* Where the program's code runs, the context is Object or a class of the program,
\* and self is neither.
LEMMA SelfFacts ==
  ASSUME Inv, BootInv, ConstInv, Running, NEW self \in Selves
  PROVE  LET c == pup_class_context_from(env, self)
         IN  /\ self # 1 /\ ~UserClass(self) /\ main > 2 /\ main \in 1..Len(env.heap)
             /\ c \in 1..Len(env.heap) /\ (c = 1 \/ UserClass(c))
  <1>1. EnvOK(env) /\ Len(env.heap) \in Nat /\ main \in 1..Len(env.heap) /\ Objects = 1..Len(env.heap)
    BY RunningFacts DEF Objects
  <1>2. Booted /\ step >= 3 /\ step \in Nat  BY AllSet, StepFacts DEF Running
  <1>3. step >= 2 /\ env.at["class_class"] = 2
    <2>1. step >= 2  BY <1>2
    <2> QED  BY <2>1 DEF BootInv, RootsInv
  <1>4. main > 2
    <2>1. env.at["main_obj"] # 0 /\ "main_obj" \in Fields \ FirstTwo
      BY <1>2, AllSet, FieldNames DEF FirstTwo
    <2> QED  BY <2>1 DEF BootInv, FieldsInv, main
  <1>5. /\ env.heap[main].type = 1
        /\ \A o \in 1..Len(env.heap) : UserClass(o) => env.heap[o].type = 2
    BY <1>2 DEF ConstInv, ScopesInv
  <1>6. CASE self = main
    <2>1. pup_class_context_from(env, self) = 1  BY <1>3, <1>5, <1>6 DEF pup_class_context_from
    <2>2. ~UserClass(self)  BY <1>1, <1>6 DEF UserClass
    <2>3. 1 \in 1..Len(env.heap)  BY <1>1
    <2> QED  BY <1>1, <1>4, <1>6, <2>1, <2>2, <2>3
  <1>7. CASE self \in Objects /\ self > main /\ UserClass(env.heap[self].type)
    <2> DEFINE c == env.heap[self].type
    <2>1. self \in 1..Len(env.heap) /\ c \in 0..Len(env.heap)  BY <1>1, <1>7, TypeExists
    <2>2. c > main  BY <1>7 DEF UserClass
    <2>3. c \in 1..Len(env.heap) /\ c # 2 /\ self # 1  BY <1>1, <1>4, <1>7, <2>1, <2>2
    <2>4. pup_class_context_from(env, self) = c  BY <1>3, <2>3 DEF pup_class_context_from
    <2>5. ~UserClass(self)  BY <1>5, <2>1, <2>3
    <2> QED  BY <1>1, <1>4, <1>7, <2>3, <2>4, <2>5
  <1> QED  BY <1>6, <1>7 DEF Selves

\* The program's classes stay what they are when others are added.
LEMMA ClassKept ==
  ASSUME Inv, BootInv, Booted, Len(env'.heap) \in Nat, Len(env.heap) <= Len(env'.heap),
         env'.at = env.at,
         \A o \in 1..Len(env.heap) : env'.heap[o].allocate = env.heap[o].allocate,
         NEW o \in 1..Len(env.heap)
  PROVE  main' = main /\ (UserClass(o)' <=> UserClass(o))
  BY DEF main, UserClass

\* A step that stores no constant in a class, and makes no class.
LEMMA ConstsStay ==
  ASSUME Inv, ClassesInv, BootInv, ConstInv, Booted, step' = step,
         Len(env'.heap) \in Nat, Len(env.heap) <= Len(env'.heap), env'.at = env.at,
         \A o \in 1..Len(env.heap) : /\ env'.heap[o].allocate = env.heap[o].allocate
                                     /\ env'.heap[o].type = env.heap[o].type
                                     /\ env'.heap[o].scope = env.heap[o].scope,
         \A o \in 1..Len(env'.heap) : o > Len(env.heap) =>
            env'.heap[o].allocate \in {"none", "unset"},
         \A o \in 1..Len(env.heap), n \in DOMAIN WellKnown :
            o = 1 \/ UserClass(o) => Bound(o, n)' = Bound(o, n)
  PROVE  ConstInv'
  <1>1. /\ EnvOK(env) /\ Len(env.heap) \in Nat /\ step \in Nat /\ step >= 3
        /\ \A f \in Fields : env.at[f] # 0 /\ env.at[f] \in 0..Len(env.heap)
    BY StepFacts, AllSet
  <1>2. main' = main /\ main \in 1..Len(env.heap)  BY <1>1, FieldNames DEF main
  <1>3. \A o \in 1..Len(env.heap) : UserClass(o)' <=> UserClass(o)  BY ClassKept
  <1>4. \A o \in 1..Len(env'.heap) : UserClass(o)' => o \in 1..Len(env.heap) /\ UserClass(o)
    <2> SUFFICES ASSUME NEW o \in 1..Len(env'.heap), UserClass(o)'
                 PROVE  o \in 1..Len(env.heap) /\ UserClass(o)
      OBVIOUS
    <2>1. ~(o > Len(env.heap))  BY DEF UserClass
    <2>2. o \in 1..Len(env.heap)  BY <1>1, <2>1
    <2> QED  BY <1>3, <2>2
  <1>5. \A v, n : UserConst(v, n)' <=> UserConst(v, n)  BY <1>2 DEF UserConst
  <1>6. Booted'  BY DEF Booted
  <1>7. ConstsInv'
    <2>1. 1 \in 1..Len(env.heap)  BY <1>1, <1>2
    <2> SUFFICES ASSUME NEW n \in DOMAIN WellKnown, HasConst(runtime_init, step, n)
                 PROVE  \/ Bound(1, n)' = env'.at[WellKnown[n]]
                        \/ Booted' /\ UserConst(Bound(1, n), n)'
      BY DEF ConstsInv
    <2>2. Bound(1, n)' = Bound(1, n)  BY <2>1
    <2>3. Bound(1, n) = env.at[WellKnown[n]] \/ UserConst(Bound(1, n), n)
      BY DEF ConstInv, ConstsInv
    <2>4. UserConst(Bound(1, n), n) => UserConst(Bound(1, n), n)'
      BY <1>2, <2>2 DEF UserConst
    <2> QED  BY <1>6, <2>2, <2>3, <2>4
  <1>8. ScopesInv'
    <2>1. env'.heap[main'].type = 1  BY <1>2 DEF ConstInv, ScopesInv
    <2>2. ASSUME NEW o \in 1..Len(env'.heap), UserClass(o)'
          PROVE  /\ env'.heap[o].type = 2
                 /\ env'.heap[o].scope = 1 \/ UserClass(env.heap[o].scope)'
                 /\ \A n \in DOMAIN WellKnown : Bound(o, n)' = 0 \/ UserConst(Bound(o, n), n)'
      <3>1. o \in 1..Len(env.heap) /\ UserClass(o)  BY <1>4, <2>2
      <3> DEFINE c == env.heap[o].scope
      <3>2. /\ env.heap[o].type = 2 /\ (c = 1 \/ UserClass(c))
            /\ \A n \in DOMAIN WellKnown : Bound(o, n) = 0 \/ UserConst(Bound(o, n), n)
        BY <3>1 DEF ConstInv, ScopesInv
      <3>3. env'.heap[o].type = 2 /\ env'.heap[o].scope = c  BY <3>1, <3>2
      <3>4. c < o /\ c \in Nat
        <4>1. c < o  BY <3>1 DEF ClassesInv, ClassesOK, TreeInv
        <4>2. env.heap[o] \in ObjectRec  BY <1>1, <3>1, HeapDomain
        <4> QED  BY <4>1, <4>2 DEF ObjectRec
      <3>5. UserClass(c) => c \in 1..Len(env.heap)
        <4>1. UserClass(c) => c > main  BY DEF UserClass
        <4> QED  BY <1>1, <1>2, <3>1, <3>4, <4>1
      <3>6. UserClass(c) => env'.at["main_obj"] < env'.heap[o].scope
                            /\ env'.heap[env'.heap[o].scope].allocate \notin {"none", "unset"}
        BY <3>3, <3>5 DEF UserClass, main
      <3>7. \A n \in DOMAIN WellKnown : Bound(o, n)' = Bound(o, n)  BY <3>1
      <3>8. \A n \in DOMAIN WellKnown : Bound(o, n)' = 0 \/ UserConst(Bound(o, n), n)'
        BY <1>2, <3>2, <3>7 DEF UserConst
      <3> QED  BY <3>2, <3>3, <3>6, <3>8 DEF UserClass, main
    <2> QED  BY <2>1, <2>2 DEF ScopesInv
  <1> QED  BY <1>7, <1>8 DEF ConstInv

\* class Name ... end binds its constant in the context, and its own scope is that
\* context.
LEMMA ConstsClassDef ==
  ASSUME Inv, ClassesInv, BootInv, ConstInv, Running, step' = step,
         NEW self \in Selves, NEW name \in ClassNames, MakesClass(self),
         Bind(pup_class_context_from(env, self), name, Len(env'.heap))
  PROVE  ConstInv'
  <1> DEFINE c == pup_class_context_from(env, self)
             new == Len(env'.heap)
             N == 1..Len(env.heap)
  <1>1. /\ EnvOK(env) /\ Len(env.heap) \in Nat /\ Booted /\ step \in Nat /\ step >= 3
    BY RunningFacts, StepFacts, AllSet DEF Running
  <1>2. main \in N /\ main > 2 /\ c \in N /\ (c = 1 \/ UserClass(c))  BY SelfFacts
  <1>3. /\ new = Len(env.heap) + 1 /\ env'.at = env.at
        /\ \A o \in N : Same(env, env', o)
        /\ New(env', env.at["class_class"], env.at["class_object"], c, "object")
    BY DEF MakesClass, Extends
  <1>4. \A p, m : Bound(p, m)' = IF p = c /\ m = name THEN new ELSE Bound(p, m)
    BY BoundAfter
  <1> HIDE DEF c
  <1>5. new \in Nat /\ new > main /\ new \notin N /\ new # c /\ N \subseteq 1..new
    BY <1>1, <1>2, <1>3
  <1>6. main' = main /\ Booted'  BY <1>1, <1>3 DEF main, Booted
  <1>7. \A o \in N : UserClass(o)' <=> UserClass(o)  BY <1>3, <1>6 DEF Same, UserClass
  <1>8. UserConst(new, name)  BY <1>5 DEF UserConst
  <1>9. ConstsInv'
    <2> SUFFICES ASSUME NEW n \in DOMAIN WellKnown, HasConst(runtime_init, step, n)
                 PROVE  \/ Bound(1, n)' = env'.at[WellKnown[n]]
                        \/ Booted' /\ UserConst(Bound(1, n), n)'
      BY DEF ConstsInv
    <2>1. Bound(1, n) = env.at[WellKnown[n]] \/ UserConst(Bound(1, n), n)
      BY DEF ConstInv, ConstsInv
    <2>2. CASE 1 = c /\ n = name
      <3>1. Bound(1, n)' = new  BY <1>4, <2>2
      <3> QED  BY <1>6, <1>8, <2>2, <3>1 DEF UserConst
    <2>3. CASE ~(1 = c /\ n = name)
      <3>1. Bound(1, n)' = Bound(1, n)  BY <1>4, <2>3
      <3> QED  BY <1>3, <1>6, <2>1, <3>1 DEF UserConst
    <2> QED  BY <2>2, <2>3
  <1>10. ScopesInv'
    <2>1. env'.heap[main'].type = 1  BY <1>1, <1>2, <1>3, <1>6 DEF ConstInv, ScopesInv, Same
    <2>2. ASSUME NEW o \in N, UserClass(o)'
          PROVE  /\ env'.heap[o].type = 2
                 /\ env'.heap[o].scope = 1 \/ UserClass(env.heap[o].scope)'
                 /\ \A n \in DOMAIN WellKnown : Bound(o, n)' = 0 \/ UserConst(Bound(o, n), n)'
      <3>1. UserClass(o)  BY <1>7, <2>2
      <3> DEFINE d == env.heap[o].scope
      <3>2. /\ env.heap[o].type = 2 /\ (d = 1 \/ UserClass(d))
            /\ \A n \in DOMAIN WellKnown : Bound(o, n) = 0 \/ UserConst(Bound(o, n), n)
        BY <1>1, <3>1 DEF ConstInv, ScopesInv
      <3>3. env'.heap[o].type = 2 /\ env'.heap[o].scope = d  BY <1>3, <3>2 DEF Same
      <3>4. d < o /\ d \in Nat
        <4>1. d < o  BY DEF ClassesInv, ClassesOK, TreeInv
        <4>2. env.heap[o] \in ObjectRec  BY <1>1, HeapDomain
        <4> QED  BY <4>1, <4>2 DEF ObjectRec
      <3>5. UserClass(d) => d \in N
        <4>1. UserClass(d) => d > main  BY DEF UserClass
        <4> QED  BY <1>1, <1>2, <3>4, <4>1
      <3>6. UserClass(d) => UserClass(env.heap[o].scope)'
        <4>1. UserClass(d) => d > main' /\ env'.heap[d].allocate \notin {"none", "unset"}
          BY <1>3, <1>6, <3>5 DEF UserClass, Same
        <4> QED  BY <3>3, <4>1 DEF UserClass
      <3>7. ASSUME NEW n \in DOMAIN WellKnown
            PROVE  Bound(o, n)' = 0 \/ UserConst(Bound(o, n), n)'
        <4>1. CASE o = c /\ n = name
          <5>1. Bound(o, n)' = new  BY <1>4, <4>1
          <5> QED  BY <1>6, <1>8, <4>1, <5>1 DEF UserConst
        <4>2. CASE ~(o = c /\ n = name)
          <5>1. Bound(o, n)' = Bound(o, n)  BY <1>4, <4>2
          <5> QED  BY <1>6, <3>2, <5>1 DEF UserConst
        <4> QED  BY <4>1, <4>2
      <3> QED  BY <3>2, <3>3, <3>6, <3>7
    <2>3. ASSUME NEW o, o = new
          PROVE  /\ env'.heap[o].type = 2
                 /\ env'.heap[o].scope = 1 \/ UserClass(env.heap[o].scope)'
                 /\ \A n \in DOMAIN WellKnown : Bound(o, n)' = 0
      <3>1. env.at["class_class"] = 2
        <4>1. step >= 2  BY <1>1
        <4> QED  BY <4>1 DEF BootInv, RootsInv
      <3>2. env'.heap[o].type = 2 /\ env'.heap[o].scope = c  BY <1>3, <2>3, <3>1 DEF New
      <3>3. UserClass(c) => UserClass(env.heap[o].scope)'
        <4>1. UserClass(c) => c > main' /\ env'.heap[c].allocate \notin {"none", "unset"}
          BY <1>2, <1>3, <1>6 DEF UserClass, Same
        <4> QED  BY <3>2, <4>1 DEF UserClass
      <3>4. \A n : Bound(o, n)' = 0
        <4>1. \A n : <<o, n>> \notin DOMAIN ivars
          <5>1. DOMAIN ivars \subseteq (0..Len(env.heap)) \X Names  BY DEF Inv, BoundInv
          <5>2. o \notin 0..Len(env.heap)  BY <1>1, <1>3, <2>3
          <5> QED  BY <5>1, <5>2
        <4>2. \A n : Bound(o, n) = 0  BY <4>1 DEF Bound, Null
        <4>3. o # c  BY <1>5, <2>3
        <4> QED  BY <1>4, <4>2, <4>3
      <3> QED  BY <1>2, <3>2, <3>3, <3>4
    <2>4. \A o \in 1..new : o \in N \/ o = new  BY <1>1, <1>3
    <2>5. ASSUME NEW o \in 1..new, UserClass(o)'
          PROVE  /\ env'.heap[o].type = 2
                 /\ env'.heap[o].scope = 1 \/ UserClass(env.heap[o].scope)'
                 /\ \A n \in DOMAIN WellKnown : Bound(o, n)' = 0 \/ UserConst(Bound(o, n), n)'
      <3>1. CASE o \in N  BY <2>2, <2>5, <3>1
      <3>2. CASE o = new  BY <2>3, <3>2
      <3> QED  BY <2>4, <3>1, <3>2
    <2> QED  BY <2>1, <2>5 DEF ScopesInv
  <1> QED  BY <1>9, <1>10 DEF ConstInv

\* The program binds nothing in a class but classes of its own, ...
LEMMA ConstsProgram ==
  ASSUME Inv, ClassesInv, BootInv, ConstInv, Program
  PROVE  ConstInv'
  <1>1. Running /\ Booted  BY DEF Program, Running
  <1>2. Summary /\ step' = step
    <2>1. Summary  BY ProgramDoes
    <2> QED  BY <2>1 DEF Summary
  <1>3. CASE (Stays \/ Makes) /\ Binds
    <2>1. Extends(env, env') /\ Len(env.heap) \in Nat
      BY <1>1, <1>3, RunningFacts DEF Stays, Makes
    <2>2. Len(env'.heap) \in Nat  BY <2>1, SizesNat DEF Extends
    <2>3. \A o \in 1..Len(env'.heap) : o > Len(env.heap) =>
            env'.heap[o].allocate \in {"none", "unset"}
      <3>1. CASE Stays
        <4>1. \A o \in 1..Len(env'.heap) : ~(o > Len(env.heap))  BY <2>1, <3>1 DEF Stays
        <4> QED  BY <4>1
      <3>2. CASE Makes
        <4>1. PICK type \in Targets, allocate \in {"none", "unset"} :
                New(env', type, 0, 0, allocate)
          BY <3>2 DEF Makes
        <4>2. \A o \in 1..Len(env'.heap) : o > Len(env.heap) => o = Len(env'.heap)
          BY <2>1, <3>2 DEF Makes
        <4> QED  BY <4>1, <4>2 DEF New
      <3> QED  BY <1>3, <3>1, <3>2
    <2>4. ASSUME NEW o \in 1..Len(env.heap), NEW n \in DOMAIN WellKnown, o = 1 \/ UserClass(o)
          PROVE  Bound(o, n)' = Bound(o, n)
      <3>1. CASE ivars' = ivars  BY <3>1 DEF Bound
      <3>2. CASE \E self \in Selves, m \in IvNames, v \in Values : Bind(self, m, v)
        <4>1. PICK self \in Selves, m \in IvNames, v \in Values : Bind(self, m, v)  BY <3>2
        <4>2. self # o  BY <1>1, <2>4, SelfFacts
        <4> QED  BY <4>1, <4>2, BoundAfter
      <3>3. CASE \E p \in Nat, v \in Nat : Bind(p, "@message", v)
        <4>1. PICK p \in Nat, v \in Nat : Bind(p, "@message", v)  BY <3>3
        <4>2. n # "@message"  BY WellKnownNames
        <4> QED  BY <4>1, <4>2, BoundAfter
      <3> QED  BY <1>3, <3>1, <3>2, <3>3 DEF Binds
    <2> QED  BY <1>1, <1>2, <2>1, <2>2, <2>3, <2>4, ConstsStay DEF Extends, Same
  <1>4. CASE \E self \in Selves, n \in ClassNames :
               MakesClass(self) /\ Bind(pup_class_context_from(env, self), n, Len(env'.heap))
    BY <1>1, <1>2, <1>4, ConstsClassDef
  <1> QED  BY <1>2, <1>3, <1>4 DEF Summary

\* ... class bodies bind nothing, ...
LEMMA ConstsClassBody ==
  ASSUME Inv, ClassesInv, BootInv, ConstInv, ClassBody
  PROVE  ConstInv'
  <1>1. body # 0 /\ step' = step /\ ivars' = ivars
    BY DEF ClassBody, MethodDef, EndClass, Null
  <1>2. Booted  BY <1>1 DEF BootInv
  <1>3. EnvOK(env) /\ Len(env.heap) \in Nat  BY StepFacts
  <1>4. CASE EndClass
    <2>1. env' = env  BY <1>4 DEF EndClass
    <2> QED  BY <1>1, <2>1 DEF ConstInv, ConstsInv, ScopesInv, UserClass, UserConst, Bound, main,
                               Booted
  <1>5. CASE \E n \in MethodNames : MethodDef(n)
    <2>1. PICK n \in MethodNames : MethodDef(n)  BY <1>5
    <2>2. PICK method \in MethodValues :
            /\ body \in 1..Len(env.heap) /\ n \in Names
            /\ env' = pup_define_method(env, body, n, method)
      BY <2>1, MethodDefDoes
    <2>3. Defines(env, env', body)  BY <1>3, <2>2, DefineShape
    <2>4. \A o \in 1..Len(env'.heap) : ~(o > Len(env.heap))  BY <1>3, <2>3 DEF Defines
    <2>5. \A o, m : Bound(o, m)' = Bound(o, m)  BY <1>1 DEF Bound
    <2> QED  BY <1>1, <1>2, <1>3, <2>3, <2>4, <2>5, ConstsStay DEF Defines
  <1> QED  BY <1>4, <1>5 DEF ClassBody

\* ... so every step preserves the invariant, ...
LEMMA ConstsNext ==
  Inv /\ ClassesInv /\ BootInv /\ ConstInv /\ [Next]_vars => ConstInv'
  <1> SUFFICES ASSUME Inv, ClassesInv, BootInv, ConstInv, [Next]_vars PROVE ConstInv'  OBVIOUS
  <1>1. CASE Bootstrap  BY <1>1, ConstsBootstrap
  <1>2. CASE Program  BY <1>2, ConstsProgram
  <1>3. CASE ClassBody  BY <1>3, ConstsClassBody
  <1>4. CASE UNCHANGED vars
    BY <1>4 DEF vars, ConstInv, ConstsInv, ScopesInv, UserClass, UserConst, Bound, main, Booted
  <1> QED  BY <1>1, <1>2, <1>3, <1>4 DEF Next

\* ... which holds at first.
LEMMA ConstsInit ==
  Init => ConstInv
  <1> SUFFICES ASSUME Init PROVE ConstInv  OBVIOUS
  <1>1. step = 0  BY DEF Init
  <1>2. \A n : ~HasConst(runtime_init, step, n)  BY <1>1, NoProgress
  <1>3. ~Booted  BY <1>1, MoreThanThree DEF Booted
  <1> QED  BY <1>2, <1>3 DEF ConstInv, ConstsInv, ScopesInv

\* The constants of the runtime stay bound in Object unless a class of the program
\* takes the name, and the scopes of the program's classes lead to Object.
THEOREM ConstsHold ==
  Spec => []ConstInv
  BY ConstsInit, ConstsNext, InvHolds, ClassesHold, BootHolds, PTL DEF Spec

\* The walk of pup_const_get() along the scopes ends at one of these bindings.
LEMMA ConstsVisible ==
  ASSUME Inv, ClassesInv, BootInv, ConstInv
  PROVE  RuntimeConstantsVisible
  <1> DEFINE N == 1..Len(env.heap)
             Within(o) == o = 1 \/ UserClass(o)
  <1> SUFFICES ASSUME Booted, NEW class \in Objects,
                      class = env.at["class_object"] \/ UserClass(class),
                      NEW n \in DOMAIN WellKnown
               PROVE  LET c == pup_const_get(env, class, n)
                      IN  c = env.at[WellKnown[n]] \/ UserConst(c, n)
    BY DEF RuntimeConstantsVisible, UserConst
  <1> DEFINE Good(o) == LET c == pup_const_get(env, o, n)
                        IN  c = env.at[WellKnown[n]] \/ UserConst(c, n)
             bad == {o \in N : Within(o) /\ ~Good(o)}
  <1>1. EnvOK(env) /\ Len(env.heap) \in Nat /\ Objects = N /\ TreeInv(env)
    BY StepFacts, HeapDomain DEF Objects, ClassesInv, ClassesOK
  <1>2. step >= 3 /\ step \in Nat /\ \A f \in Fields : env.at[f] # 0 /\ env.at[f] \in N
    BY <1>1, StepFacts, AllSet
  <1>3. env.at["class_object"] = 1 /\ main \in N
    <2>1. step >= 1  BY <1>2
    <2> QED  BY <1>2, <2>1, FieldNames DEF BootInv, RootsInv, main
  <1>4. class \in N /\ Within(class)  BY <1>1, <1>3
  <1>5. \A o \in N :
          pup_const_get(env, o, n)
            = IF Bound(o, n) # 0 THEN Bound(o, n) ELSE pup_const_get(env, env.heap[o].scope, n)
    <2>1. \A o \in N : pup_iv_get(env, o, n) = Bound(o, n)
      BY <1>1 DEF Inv, AttributesByName, ProgramNames
    <2>2. \A o \in N :
            pup_const_get(env, o, n)
              = IF pup_iv_get(env, o, n) # 0 THEN pup_iv_get(env, o, n)
                ELSE pup_const_get(env, env.heap[o].scope, n)
      BY <1>1, GetWalk
    <2> QED  BY <2>1, <2>2
  <1>6. Bound(1, n) = env.at[WellKnown[n]] \/ UserConst(Bound(1, n), n)
    <2>1. HasConst(runtime_init, step, n)  BY RuntimeOrder DEF Booted
    <2> QED  BY <2>1 DEF ConstInv, ConstsInv
  <1>7. \A v : UserConst(v, n) => v # 0  BY <1>1, <1>3 DEF UserConst
  <1>8. bad = {}
    <2> SUFFICES ASSUME bad # {} PROVE FALSE  OBVIOUS
    <2>1. bad \in SUBSET Nat  BY <1>1
    <2>2. PICK o \in bad : \A j \in bad : o <= j
      <3> HIDE DEF bad
      <3> QED  BY <2>1, Least
    <2>3. o \in N /\ Within(o) /\ ~Good(o)  BY <2>2
    <2>4. o # 1
      <3>1. WellKnown[n] \in Fields  BY DEF Fields
      <3>2. 1 \in N /\ Bound(1, n) # 0  BY <1>2, <1>3, <1>6, <1>7, <1>1, <3>1
      <3>3. pup_const_get(env, 1, n) = Bound(1, n)  BY <1>5, <3>2
      <3> QED  BY <1>6, <2>3, <3>3
    <2>5. UserClass(o)  BY <2>3, <2>4
    <2> DEFINE d == env.heap[o].scope
    <2>6. /\ d = 1 \/ UserClass(d)
          /\ Bound(o, n) = 0 \/ UserConst(Bound(o, n), n)
      BY <2>3, <2>5 DEF ConstInv, ScopesInv
    <2>7. Bound(o, n) = 0
      <3> SUFFICES ASSUME Bound(o, n) # 0 PROVE FALSE  OBVIOUS
      <3>1. pup_const_get(env, o, n) = Bound(o, n)  BY <1>5, <2>3
      <3> QED  BY <2>3, <2>6, <3>1
    <2>8. pup_const_get(env, o, n) = pup_const_get(env, d, n)  BY <1>5, <2>3, <2>7
    <2>9. d < o /\ d \in N
      <3>1. d < o  BY <1>1, <2>3 DEF TreeInv
      <3>2. env.heap[o] \in ObjectRec  BY <1>1, <2>3, HeapDomain
      <3>3. d \in Nat  BY <3>2 DEF ObjectRec
      <3>4. d # 0  BY <1>1, <1>3, <2>6 DEF UserClass
      <3> QED  BY <1>1, <2>3, <3>1, <3>3, <3>4
    <2>10. ~Good(d)  BY <2>3, <2>8
    <2>11. d \in bad  BY <2>6, <2>9, <2>10
    <2>12. o <= d  BY <2>2, <2>11
    <2> QED  BY <1>1, <2>3, <2>9, <2>12
  <1>9. Good(class)  BY <1>4, <1>8
  <1> QED  BY <1>9

\* At the top level and in a method of any class, however nested, code of the
\* program finds the runtime's constants: pup_const_get() ends at the binding in
\* Object, unless a class of that name that the program defined comes first.
THEOREM RuntimeConstantsAlwaysVisible ==
  Spec => []RuntimeConstantsVisible
  BY ConstsVisible, InvHolds, ClassesHold, BootHolds, ConstsHold, PTL

=============================================================================
