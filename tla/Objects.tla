------------------------------- MODULE Objects ------------------------------
(***************************************************************************)
(* The object model: symbol table (symtable.c), attribute lists            *)
(* (object.c), classes, method lists and constants (class.c), the          *)
(* bootstrap of all of them by runtime_init() in env.c, and what a         *)
(* compiled program can then do to them.  A Pup program is one thread, so  *)
(* a call into the runtime is one step.  Everything is found by linear     *)
(* search for an interned symbol; what the properties compare this with is *)
(* kept by name, in history variables.                                     *)
(***************************************************************************)
EXTENDS Naturals, Sequences, SequencesExt

CONSTANTS
  IvNames,      \* instance variables of the program
  ClassNames,   \* names of the classes it defines
  MethodNames,  \* names of the methods it defines and calls
  MaxDefs,      \* bound: method definitions in a class body
  Extra         \* bound: objects created after the bootstrap

VARIABLES
  env,      \* struct RuntimeEnv: symbol table, heap, well-known objects
  step,     \* how much of runtime_init() is done
  body,     \* the class whose body is being executed, or Null
  failed,   \* the bootstrap met an unset pointer or a missing method, or
            \* a method was invoked on NULL: the process aborts
  wild,     \* a field of struct PupClass was used that is not there
  ivars,    \* history: the value last stored, by object and name
  defs      \* history: the method first defined, by class and name

vars == <<env, step, body, failed, wild, ivars, defs>>

Null == 0    \* objects are numbered in the order of allocation

-----------------------------------------------------------------------------
(* symtable.c: a list of entries, new ones last.                           *)

pup_str_to_sym(e, str) ==
  IF \E i \in DOMAIN e.symbols : e.symbols[i].str = str THEN e
  ELSE [e EXCEPT !.symbols = Append(@, [sym |-> e.next_sym, str |-> str]),
                 !.next_sym = @ + 1]

\* The symbol of a string, 0 for a string that is not in the table.
sym(e, str) ==
  LET i == SelectInSeq(e.symbols, LAMBDA s : s.str = str)
  IN  IF i = 0 THEN 0 ELSE e.symbols[i].sym

-----------------------------------------------------------------------------
(* object.c: attributes, the newest first.                                 *)

pup_iv_get(e, obj, str) ==
  LET attrs == e.heap[obj].attrs
      s     == sym(e, str)
      i     == SelectInSeq(attrs, LAMBDA a : a.sym = s)
  IN  IF i = 0 THEN Null ELSE attrs[i].value

pup_iv_set_FirstOnly(e0, obj, str, val) ==
  LET e == pup_str_to_sym(e0, str)
      i == SelectInSeq(e.heap[obj].attrs, LAMBDA a : a.sym = sym(e, str))
  IN  IF i # 0 THEN e
      ELSE [e EXCEPT !.heap[obj].attrs = <<[sym |-> sym(e, str), value |-> val]>> \o @]

pup_iv_set(e0, obj, str, val) ==
  LET e == pup_str_to_sym(e0, str)
      i == SelectInSeq(e.heap[obj].attrs, LAMBDA a : a.sym = sym(e, str))
  IN  IF i # 0 THEN [e EXCEPT !.heap[obj].attrs[i].value = val]
      ELSE [e EXCEPT !.heap[obj].attrs = <<[sym |-> sym(e, str), value |-> val]>> \o @]

-----------------------------------------------------------------------------
(* class.c: methods, the newest last; classes by superclass and by scope.  *)

pup_define_method_First(e0, class, str, method) ==
  LET e == pup_str_to_sym(e0, str)
  IN  [e EXCEPT !.heap[class].methods = <<[sym |-> sym(e, str), method |-> method]>> \o @]

pup_define_method(e0, class, str, method) ==
  LET e == pup_str_to_sym(e0, str)
  IN  [e EXCEPT !.heap[class].methods = Append(@, [sym |-> sym(e, str), method |-> method])]

find_method_in_classes(e, class, str) ==
  LET s == sym(e, str)
      find[c \in 0 .. Len(e.heap)] ==
        LET methods == e.heap[c].methods
            i       == SelectInSeq(methods, LAMBDA m : m.sym = s)
        IN  IF c = Null THEN "none"
            ELSE IF i # 0 THEN methods[i].method
            ELSE find[e.heap[c].superclass]
  IN  find[class]

pup_const_get(e, class, str) ==
  LET get[c \in 0 .. Len(e.heap)] ==
        IF c = Null THEN Null
        ELSE IF pup_iv_get(e, c, str) # Null THEN pup_iv_get(e, c, str)
        ELSE get[e.heap[c].scope]
  IN  get[class]

\* Whether an object is a struct PupClass, with the fields of one.
IsClass(e, obj) == e.heap[obj].allocate # "none"

pup_class_context_from(e, obj) ==
  IF e.heap[obj].type = e.at["class_class"] THEN obj ELSE e.heap[obj].type

-----------------------------------------------------------------------------
(* Allocation.                                                             *)

Object(type) ==
  [type |-> type, attrs |-> <<>>, methods |-> <<>>, superclass |-> Null,
   scope |-> Null, allocate |-> "none"]

new_obj(e, type) == [e EXCEPT !.heap = Append(@, Object(type))]
last(e)          == Len(e.heap)

\* pup_internal_class_allocate_instance() leaves the class fields unset.
new_class(e, type) == [e EXCEPT !.heap = Append(@, [Object(type) EXCEPT !.allocate = "unset"])]

class_init(e, class, super, scope, allocate) ==
  [e EXCEPT !.heap[class] = [@ EXCEPT !.superclass = super, !.methods = <<>>,
                                      !.scope = scope, !.allocate = allocate]]

\* pup_class_new() on a class that is complete: allocate, then initialize,
\* with at most one argument, which only Exception#initialize keeps.
allocate_instance(e, class) ==
  IF e.heap[class].allocate = "class" THEN new_class(e, class) ELSE new_obj(e, class)

pup_class_new(e0, class, arg) ==
  LET e1 == allocate_instance(pup_str_to_sym(e0, "allocate"), class)
      e2 == pup_str_to_sym(e1, "initialize")
  IN  IF arg # Null
         /\ find_method_in_classes(e2, class, "initialize") = "pup_exception_initialize"
      THEN pup_iv_set(e2, last(e2), "@message", arg)
      ELSE e2

\* The methods that creating a class goes through are there.
CanCreateClass(e) ==
  LET class == e.at["class_class"]
      finds(str) == find_method_in_classes(e, e.heap[class].type, str)
  IN  /\ class # Null
      /\ e.heap[class].type # Null
      /\ finds("new") = "pup_class_new"
      /\ finds("allocate") = "pup_object_allocate"
      /\ finds("initialize") # "none"

pup_internal_create_class(e, super, scope, allocate) ==
  LET e1 == pup_class_new(pup_str_to_sym(e, "new"), e.at["class_class"], Null)
  IN  class_init(e1, last(e1), super, scope, allocate)

\* The message is a String, which string.c keeps outside the heap; the
\* attribute is shown here as the object itself.
pup_new_runtimeerror(e0) ==
  LET e == new_obj(e0, e0.at["class_runtimeerror"])
  IN  pup_iv_set(e, last(e), "@message", last(e))

-----------------------------------------------------------------------------
(* The bootstrap, statement by statement: runtime_init(), with the methods *)
(* that the class_init functions define, and pup_env_launch_main().        *)

Define(class, table) ==
  [i \in DOMAIN table |->
     [op |-> "method", field |-> class, name |-> table[i][1], with |-> table[i][2]]]
Const(name, field) ==
  <<[op |-> "const", field |-> field, name |-> name, with |-> "class_object"]>>
NewClass(field, super, allocate) ==
  <<[op |-> "class", field |-> field, name |-> allocate, with |-> super]>>
Instance(field, class) ==
  <<[op |-> "instance", field |-> field, name |-> "", with |-> class]>>
Bare(op) == <<[op |-> op, field |-> "", name |-> "", with |-> ""]>>

\* Called with class_object, so that every object has these methods.
pup_class_class_init ==
  Define("class_object",
         << <<"new", "pup_class_new">>, <<"allocate", "pup_object_allocate">>,
            <<"to_s", "pup_class_to_s">> >>)

pup_object_class_init ==
  Define("class_object",
         << <<"initialize", "pup_object_initialize">>, <<"raise", "pup_object_raise">>,
            <<"puts", "pup_puts">>, <<"==", "pup_object_op_equals">> >>)

bootstrap_core_MethodsLast ==
  Bare("class_object") \o Bare("class_class") \o Bare("obj_init") \o pup_class_class_init
  \o Const("Object", "class_object") \o Const("Class", "class_class")
  \o NewClass("class_string", "class_object", "string") \o Const("String", "class_string")
  \o pup_object_class_init

bootstrap_core ==
  Bare("class_object") \o Bare("class_class") \o Bare("obj_init") \o pup_class_class_init
  \o pup_object_class_init
  \o Const("Object", "class_object") \o Const("Class", "class_class")
  \o NewClass("class_string", "class_object", "string") \o Const("String", "class_string")

runtime_init ==
  bootstrap_core
  \o NewClass("class_exception", "class_object", "object")
  \o Const("Exception", "class_exception")
  \o NewClass("class_standarderror", "class_exception", "object")
  \o Const("StandardError", "class_standarderror")
  \o NewClass("class_runtimeerror", "class_standarderror", "object")
  \o Const("RuntimeError", "class_runtimeerror")
  \o NewClass("class_true", "class_object", "object") \o Const("TrueClass", "class_true")
  \o NewClass("class_false", "class_object", "object") \o Const("FalseClass", "class_false")
  \o Instance("object_true", "class_true") \o Instance("object_false", "class_false")
  \o Define("class_exception",
            << <<"initialize", "pup_exception_initialize">>,
               <<"message", "pup_exception_message">> >>)
  \o NewClass("class_fixnum", "class_object", "fixnum")
  \o Define("class_fixnum",
            << <<"+", "pup_fixnum_plus">>, <<"==", "pup_fixnum_op_equals">>,
               <<"<", "pup_fixnum_op_lessthan">> >>)
  \o Const("Fixnum", "class_fixnum")
  \o Instance("main_obj", "class_object")

WellKnown ==
  [Object |-> "class_object", Class |-> "class_class", String |-> "class_string",
   Exception |-> "class_exception", StandardError |-> "class_standarderror",
   RuntimeError |-> "class_runtimeerror", TrueClass |-> "class_true",
   FalseClass |-> "class_false", Fixnum |-> "class_fixnum"]

Fields == {WellKnown[n] : n \in DOMAIN WellKnown} \cup {"object_true", "object_false", "main_obj"}

\* What a statement needs: pointers that are set, and methods to be found.
Ready(e, s) ==
  CASE s.op = "class"    -> e.at[s.with] # Null /\ CanCreateClass(e)
    [] s.op = "instance" -> e.at[s.with] # Null
    [] s.op = "const"    -> e.at[s.with] # Null /\ e.at[s.field] # Null
    [] s.op = "method"   -> e.at[s.field] # Null
    [] OTHER             -> TRUE

SetField(e, field) == [e EXCEPT !.at[field] = last(e)]

Execute(e, s) ==
  CASE s.op = "class_object" ->
         SetField(class_init(new_class(e, Null), last(e) + 1, Null, Null, "object"), s.op)
    [] s.op = "class_class" ->
         LET o == e.at["class_object"]
         IN  SetField(class_init(new_class(e, Null), last(e) + 1, o, o, "class"), s.op)
    [] s.op = "obj_init" ->
         [e EXCEPT !.heap = [o \in DOMAIN @ |->
             [@[o] EXCEPT !.type = e.at["class_class"], !.attrs = <<>>]]]
    [] s.op = "method"   -> pup_define_method(e, e.at[s.field], s.name, s.with)
    [] s.op = "const"    -> pup_iv_set(e, e.at[s.with], s.name, e.at[s.field])
    [] s.op = "class"    ->
         SetField(pup_internal_create_class(e, e.at[s.with], Null, s.name), s.field)
    [] s.op = "instance" -> SetField(new_obj(e, e.at[s.with]), s.field)

-----------------------------------------------------------------------------
(* History: what a reader of the program expects to be bound.              *)

Bind(obj, name, val) == ivars' = [p \in DOMAIN ivars \cup {<<obj, name>>} |->
                                    IF p = <<obj, name>> THEN val ELSE ivars[p]]
DefineOnce(class, name, method) ==
  defs' = [p \in DOMAIN defs \cup {<<class, name>>} |->
             IF p \in DOMAIN defs THEN defs[p] ELSE method]

Init ==
  /\ env = [symbols |-> <<>>, next_sym |-> 1, heap |-> <<>>, at |-> [f \in Fields |-> Null]]
  /\ step = 0
  /\ body = Null
  /\ failed = FALSE /\ wild = FALSE
  /\ ivars = <<>> /\ defs = <<>>

Booted == step = Len(runtime_init)

Bootstrap ==
  /\ ~Booted /\ ~failed
  /\ LET s == runtime_init[step + 1]
     IN  /\ failed' = ~Ready(env, s)
         /\ step' = step + 1
         /\ env' = IF failed' THEN env ELSE Execute(env, s)
         /\ IF ~failed' /\ s.op = "const"
            THEN Bind(env.at["class_object"], s.name, env.at[s.field]) ELSE UNCHANGED ivars
         /\ IF ~failed' /\ s.op = "method"
            THEN DefineOnce(env.at[s.field], s.name, s.with) ELSE UNCHANGED defs
  /\ UNCHANGED <<body, wild>>

-----------------------------------------------------------------------------
(* The program.  Code runs with the main object as self or, in a method,   *)
(* with an instance of a class of the program.  In a class body, self is a *)
(* pointer of another type, which the code generator passes to nothing but *)
(* pup_define_method(): a body does nothing to this state but define       *)
(* methods, and methods are defined nowhere else.                          *)

main         == env.at["main_obj"]
Objects      == DOMAIN env.heap
Room         == Len(env.heap) < main + Extra
UserClass(o) == o > main /\ env.heap[o].allocate \notin {"none", "unset"}
Selves       == {main} \cup {o \in Objects : o > main /\ UserClass(env.heap[o].type)
                                             /\ env.heap[env.heap[o].type].methods # <<>>}
Running      == Booted /\ ~failed /\ ~wild /\ body = Null

IvSet(self, name, val) ==
  /\ env' = pup_iv_set(env, self, name, val)
  /\ Bind(self, name, val)
  /\ UNCHANGED <<step, body, failed, wild, defs>>

\* Reading interns the name, too; there is no nil, an unset variable is NULL.
IvGet(self, name) ==
  /\ env' = pup_str_to_sym(env, name)
  /\ UNCHANGED <<step, body, failed, wild, ivars, defs>>

ClassDef_NoScope(self, name) ==
  /\ Room
  /\ LET scope == pup_class_context_from(env, self)
         e     == pup_internal_create_class(env, env.at["class_object"], Null, "object")
     IN  /\ env' = pup_iv_set(e, scope, name, last(e))
         /\ Bind(scope, name, last(e))
         /\ body' = last(e)
  /\ UNCHANGED <<step, failed, wild, defs>>

\* class Name ... end: always a new class, below Object, whose body is run.
ClassDef(self, name) ==
  /\ Room
  /\ LET scope == pup_class_context_from(env, self)
         e     == pup_internal_create_class(env, env.at["class_object"], scope, "object")
     IN  /\ env' = pup_iv_set(e, scope, name, last(e))
         /\ Bind(scope, name, last(e))
         /\ body' = last(e)
  /\ UNCHANGED <<step, failed, wild, defs>>

\* def name ... end: a function of its own for every definition.
MethodDef(name) ==
  /\ body # Null
  /\ LET n == Len(env.heap[body].methods) + 1
     IN  /\ n <= MaxDefs
         /\ env' = pup_define_method(env, body, name, "method" \o ToString(n))
         /\ DefineOnce(body, name, "method" \o ToString(n))
  /\ UNCHANGED <<step, body, failed, wild, ivars>>

EndClass ==
  /\ body # Null
  /\ body' = Null
  /\ UNCHANGED <<env, step, failed, wild, ivars, defs>>

\* An exception object; the method's caller does not see it, only Unwind.
RaiseRuntimeError(e) ==
  /\ Room
  /\ env' = pup_new_runtimeerror(e)
  /\ Bind(last(env'), "@message", last(env'))
  /\ UNCHANGED <<step, body, failed, wild, defs>>

ConstGet(self, name) ==
  LET e == pup_str_to_sym(env, name)
  IN  IF pup_const_get(e, pup_class_context_from(e, self), name) = Null
      THEN RaiseRuntimeError(e)
      ELSE env' = e /\ UNCHANGED <<step, body, failed, wild, ivars, defs>>

\* Objects as targets: those of the program, and some well-known classes.
Targets == {o \in Objects : o >= main}
             \cup {env.at[f] : f \in {"class_class", "class_runtimeerror", "class_fixnum"}}

InvokeNew(e, target, arg) ==
  IF ~IsClass(e, target) \/ e.heap[target].allocate = "unset"
  THEN /\ wild' = TRUE
       /\ env' = e
       /\ UNCHANGED <<step, body, failed, ivars, defs>>
  ELSE IF e.heap[target].allocate = "fixnum" THEN RaiseRuntimeError(pup_str_to_sym(e, "allocate"))
  ELSE /\ Room
       /\ env' = pup_class_new(e, target, arg)
       /\ IF pup_iv_get(env', last(env'), "@message") # Null
          THEN Bind(last(env'), "@message", arg) ELSE UNCHANGED ivars
       /\ UNCHANGED <<step, body, failed, wild, defs>>

pup_invoke(target, name, arg) ==
  LET e      == pup_str_to_sym(env, name)
      method == find_method_in_classes(e, e.heap[target].type, name)
  IN  CASE method = "none"          -> RaiseRuntimeError(e)
        [] method = "pup_class_new" -> InvokeNew(e, target, arg)
        [] method = "pup_exception_message" ->
             /\ env' = pup_str_to_sym(e, "@message")
             /\ UNCHANGED <<step, body, failed, wild, ivars, defs>>
        [] method = "pup_exception_initialize" /\ arg # Null ->
             /\ env' = pup_iv_set(e, target, "@message", arg)
             /\ Bind(target, "@message", arg)
             /\ UNCHANGED <<step, body, failed, wild, defs>>
        [] OTHER -> env' = e /\ UNCHANGED <<step, body, failed, wild, ivars, defs>>

\* A method invoked on an unset variable aborts the process.
InvokeOnNull(self, name) ==
  /\ pup_iv_get(env, self, name) = Null
  /\ failed' = TRUE
  /\ UNCHANGED <<env, step, body, wild, ivars, defs>>

\* What a variable may be set to: NULL (what puts returns) or an object.
Values == {Null, Len(env.heap)}

Program ==
  /\ Running
  /\ \/ \E self \in Selves, n \in IvNames, v \in Values : IvSet(self, n, v)
     \/ \E self \in Selves, n \in IvNames : IvGet(self, n)
     \/ \E self \in Selves, n \in ClassNames : ClassDef(self, n)
     \/ \E self \in Selves, n \in ClassNames \cup {"Missing"} : ConstGet(self, n)
     \/ \E t \in Targets, n \in MethodNames \cup {"new", "message"}, arg \in {Null, main} :
          pup_invoke(t, n, arg)
     \/ \E self \in Selves, n \in IvNames : InvokeOnNull(self, n)

ClassBody == (\E n \in MethodNames : MethodDef(n)) \/ EndClass

Next == Bootstrap \/ Program \/ ClassBody

Spec == Init /\ [][Next]_vars

-----------------------------------------------------------------------------
(* Properties.                                                             *)

Ref == Objects \cup {Null}

Bound(o, n) == IF <<o, n>> \in DOMAIN ivars THEN ivars[<<o, n>>] ELSE Null

ProgramNames == IvNames \cup ClassNames \cup DOMAIN WellKnown \cup {"@message"}

\* Attributes and constants behave as a map from names, although they are
\* found by interned symbols in lists that grow at the head: every object
\* has under every name the value last stored there, by whatever operation,
\* and nothing under other names.
AttributesByName ==
  \A o \in Objects, n \in ProgramNames : pup_iv_get(env, o, n) = Bound(o, n)

Superclasses(class) ==
  LET up[c \in Ref] == IF c = Null THEN {} ELSE {c} \cup up[env.heap[c].superclass]
  IN  up[class]

\* A method call goes to the nearest superclass that defines the name, and
\* there to the first definition: later ones of the same name in the same
\* class are never called.
DispatchByName ==
  \A o \in Objects, n \in MethodNames \cup {"new", "initialize", "message"} :
    LET definers == {c \in Superclasses(env.heap[o].type) : <<c, n>> \in DOMAIN defs}
        nearest  == CHOOSE c \in definers : definers \subseteq Superclasses(c)
    IN  find_method_in_classes(env, env.heap[o].type, n)
          = IF definers = {} THEN "none" ELSE defs[<<nearest, n>>]

\* runtime_init() runs in an order in which every class and method it uses
\* exists when it is used, and leaves no pointer and no type unset.
BootstrapComplete ==
  /\ failed => Booted
  /\ Booted => /\ \A f \in Fields : env.at[f] # Null
               /\ \A o \in Objects : env.heap[o].type # Null

\* Wherever code of the program runs, at the top level or in a method of a
\* class however nested, it finds the runtime's constants; only a class of
\* that name that the program itself defined can take their place.
RuntimeConstantsVisible ==
  Booted => \A class \in {o \in Objects : o = env.at["class_object"] \/ UserClass(o)},
              n \in DOMAIN WellKnown :
    LET c == pup_const_get(env, class, n)
    IN  c = env.at[WellKnown[n]] \/ (c > main /\ n \in ClassNames)
=============================================================================
