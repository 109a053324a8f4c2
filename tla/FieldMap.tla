------------------------------ MODULE FieldMap ------------------------------
(***************************************************************************)
(* The tree of fields in one shared memory arena: StructStore with its     *)
(* FieldMap<true>, List, Field, and the StringStorage that gives field     *)
(* names their indices.                                                    *)
(*                                                                         *)
(* Operations run one after the other, as they do under the write lock of  *)
(* the root (module FieldLock); an operation is a sequence of steps that   *)
(* ends before each allocation, because each allocation may throw          *)
(* "insufficient space" (action Fail) and leave what is done so far.  The  *)
(* exceptions that leave everything as it was (an unknown name, an index   *)
(* out of range, a list that cannot grow) are no steps.                    *)
(*                                                                         *)
(* Values are abstracted to their type: "leaf" stands for int, double,     *)
(* bool, String and Matrix, whose constructors allocate nothing and do not *)
(* throw; the block that a throwing constructor of another type leaves     *)
(* behind (stst_field.hpp:142) is in module Structs.  Copies are those     *)
(* within one arena between stores neither of which contains the other.    *)
(***************************************************************************)
EXTENDS Naturals, Sequences, FiniteSets, Functions, SequencesExt

CONSTANTS
  Name,      \* field names
  Object,    \* addresses of blocks the arena can hand out besides Root
  Root,      \* the outermost store
  NULL,
  MaxLength, \* bound: elements of a list
  MaxFailures, \* bound: allocations that fail although a block is free
  MaxCalls   \* bound: operations

ASSUME ObjectAssumption ==
  /\ IsFiniteSet(Object) /\ Root \notin Object /\ NULL \notin Object \union {Root}
  /\ IsFiniteSet(Name)

ASSUME BoundAssumption ==
  MaxLength \in Nat /\ MaxFailures \in Nat \ {0} /\ MaxCalls \in Nat

VARIABLES
  map,      \* StringStorage::map, names to indices
  data,     \* StringStorage::data without its element 0
  heap,     \* the live blocks
  op,       \* the running operation
  frames,   \* the copy_from_managed calls of a running copy, outermost first
  calls,    \* how many operations have begun
  failures  \* how many allocations have failed, up to the bound

vars == <<map, data, heap, op, frames, calls, failures>>

-----------------------------------------------------------------------------
(* "void" is the type with hash 0, which get_type() knows as a type of     *)
(* size 0 with functions that do nothing.                                  *)
Type == {"store", "list", "leaf", "void"}
Index == 1 .. Cardinality(Name)
Block == Object \union {Root}
FieldType == [data : Object \union {NULL}, type : Type]
EmptyField == [data |-> NULL, type |-> "void"]

Idle == [pc |-> "idle"]
Undefined == [pc |-> "undefined"]
OpType ==
  {Idle, Undefined, [pc |-> "copy"]}
    \union [pc : {"intern", "string"}, at : Block, name : Name, type : Type]
    \union [pc : {"emplace", "slot", "construct"}, at : Block, key : Nat \ {0}, type : Type]
    \union [pc : {"copy field", "copy construct"}, key : Index, from : Index]

(* A store's fields are a function of name indices, a list's a sequence.   *)
TypeOK ==
  /\ \E names \in SUBSET Name : map \in [names -> Index]
  /\ data \in BoundedSeq(Name, Cardinality(Name))
  /\ DOMAIN heap \subseteq Block
  /\ \A o \in DOMAIN heap :
       /\ heap[o].type \in Type
       /\ heap[o].parent \in Block \union {NULL}
       /\ heap[o].slots \in Seq(Index)
       /\ \A k \in DOMAIN heap[o].fields : heap[o].fields[k] \in FieldType
       /\ DOMAIN heap[o].fields \subseteq IF heap[o].type = "list" THEN 1 .. MaxLength ELSE Index
  /\ op \in OpType
  /\ frames \in Seq([dst : Block, src : Block, i : Nat \ {0}])
  /\ calls \in 0 .. MaxCalls /\ failures \in 0 .. MaxFailures

NewBlock(type, parent) == [type |-> type, parent |-> parent, slots |-> <<>>, fields |-> <<>>]

Init ==
  /\ map = <<>> /\ data = <<>>
  /\ heap = [o \in {Root} |-> NewBlock("store", NULL)]
  /\ op = Idle /\ frames = <<>> /\ calls = 0 /\ failures = 0

-----------------------------------------------------------------------------
(* The blocks a field's content consists of, which the destructors free.   *)
Children(h, o) == {h[o].fields[k].data : k \in DOMAIN h[o].fields} \ {NULL}

Tree(h, o) ==
  LET Within[n \in 0 .. Cardinality(Object)] ==
        IF n = 0 THEN {o}
        ELSE Within[n - 1] \union UNION {Children(h, x) : x \in Within[n - 1]}
  IN  Within[Cardinality(Object)]

Content(o, k) ==
  LET b == heap[o].fields[k].data IN IF b = NULL THEN {} ELSE Tree(heap, b)

Below(o) == Tree(heap, o) \ {o}

Without(blocks, h) == Restrict(h, DOMAIN h \ blocks)

WithKey(f, k, x) == [y \in DOMAIN f \union {k} |-> IF y = k THEN x ELSE f[y]]
SetField(h, o, k, field) == [h EXCEPT ![o].fields = WithKey(@, k, field)]

Stores == {o \in DOMAIN heap : heap[o].type = "store"}
Lists == {o \in DOMAIN heap : heap[o].type = "list"}

Free == Object \ DOMAIN heap

(* Field::get_or_construct: a block of type t for the empty field k of o.  *)
Constructed(h, o, k, t, b) ==
  LET h1 == SetField(h, o, k, [data |-> b, type |-> t])
  IN  [x \in DOMAIN h1 \union {b} |-> IF x = b THEN NewBlock(t, o) ELSE h1[x]]

(* An operation begins, one of those the bound allows.                     *)
Begin == op = Idle /\ calls < MaxCalls /\ calls' = calls + 1

Goto(pc) == op' = [op EXCEPT !.pc = pc]
Done == op' = Idle /\ frames' = <<>>
UndefinedBehaviour == op' = Undefined /\ frames' = <<>> /\ UNCHANGED <<map, data, heap, failures>>

-----------------------------------------------------------------------------
(* store[name] and then a value of type t, or None ("void"): internalize.  *)
Insert(s, n, t) ==
  /\ Begin
  /\ op' = [pc |-> "intern", at |-> s, name |-> n, type |-> t]
  /\ UNCHANGED <<map, data, heap, frames, failures>>

InternFound ==
  /\ op.pc = "intern" /\ op.name \in DOMAIN map
  /\ op' = [pc |-> "emplace", at |-> op.at, key |-> map[op.name], type |-> op.type]
  /\ UNCHANGED <<map, data, heap, frames, calls, failures>>

(* map.emplace(str_, 0), and the entry's index is data.size().             *)
InternMap ==
  /\ op.pc = "intern" /\ op.name \notin DOMAIN map
  /\ map' = WithKey(map, op.name, Len(data) + 1)
  /\ Goto("string")
  /\ UNCHANGED <<data, heap, frames, calls, failures>>

(* A bug it could have: the index is looked up before the string is added. *)
InternString ==
  /\ op.pc = "string"
  /\ data' = Append(data, op.name)
  /\ op' = [pc |-> "emplace", at |-> op.at, key |-> map[op.name], type |-> op.type]
  /\ UNCHANGED <<map, heap, frames, calls, failures>>

(* A bug it could have: a new field is left without a slot.                *)
(* get_or_insert: fields.emplace, and slots.emplace_back if it inserted.   *)
EmplaceField ==
  /\ op.pc = "emplace"
  /\ IF op.key \in DOMAIN heap[op.at].fields
     THEN Goto("construct") /\ UNCHANGED heap
     ELSE Goto("slot") /\ heap' = SetField(heap, op.at, op.key, EmptyField)
  /\ UNCHANGED <<map, data, frames, calls, failures>>

EmplaceSlot ==
  /\ op.pc = "slot"
  /\ heap' = [heap EXCEPT ![op.at].slots = Append(@, op.key)]
  /\ Goto("construct")
  /\ UNCHANGED <<map, data, frames, calls, failures>>

(* list.insert(i) and push_back() (i behind the last), then a value.       *)
ListInsert(l, i, t) ==
  /\ Begin
  /\ i \in 1 .. Len(heap[l].fields) + 1 /\ Len(heap[l].fields) < MaxLength
  /\ heap' = [heap EXCEPT ![l].fields = InsertAt(@, i, EmptyField)]
  /\ op' = [pc |-> "construct", at |-> l, key |-> i, type |-> t]
  /\ UNCHANGED <<map, data, frames, failures>>

(* list[i] = a value.                                                      *)
ListAt(l, i, t) ==
  /\ Begin /\ i \in DOMAIN heap[l].fields
  /\ op' = [pc |-> "construct", at |-> l, key |-> i, type |-> t]
  /\ UNCHANGED <<map, data, heap, frames, failures>>

Target == heap[op.at].fields[op.key]

(* Assigning None clears the field.                                        *)
ConstructNone ==
  /\ op.pc = "construct" /\ op.type = "void"
  /\ heap' = Without(Content(op.at, op.key), SetField(heap, op.at, op.key, EmptyField))
  /\ Done
  /\ UNCHANGED <<map, data, calls, failures>>

(* A field that is not empty keeps its block: its value is assigned, or    *)
(* get<T>() throws because the type differs.                               *)
ConstructKeeps ==
  /\ op.pc = "construct" /\ op.type # "void" /\ Target.data # NULL
  /\ Done
  /\ UNCHANGED <<map, data, heap, calls, failures>>

Construct ==
  /\ op.pc = "construct" /\ op.type # "void" /\ Target.data = NULL
  /\ \E b \in Free : heap' = Constructed(heap, op.at, op.key, op.type, b)
  /\ Done
  /\ UNCHANGED <<map, data, calls, failures>>

-----------------------------------------------------------------------------
(* A bug it could have: the field goes, its content stays.                 *)
RemoveLeaks(s, n) ==
  /\ Begin
  /\ n \in DOMAIN map /\ map[n] \in DOMAIN heap[s].fields
  /\ heap' = [heap EXCEPT
       ![s].fields = Restrict(@, DOMAIN @ \ {map[n]}),
       ![s].slots = SelectSeq(@, LAMBDA k : k # map[n])]
  /\ UNCHANGED <<map, data, op, frames, failures>>

(* FieldMap::remove; a name without a field is an exception.  Erasing the  *)
(* slot of a field that has none, slots.end(), is undefined.               *)
RemoveField(s, n) ==
  /\ Begin
  /\ n \in DOMAIN map /\ map[n] \in DOMAIN heap[s].fields
  /\ LET k == map[n]
         positions == {j \in DOMAIN heap[s].slots : heap[s].slots[j] = k}
     IN  IF positions = {} THEN UndefinedBehaviour
         ELSE /\ heap' = Without(Content(s, k), [heap EXCEPT
                   ![s].fields = Restrict(@, DOMAIN @ \ {k}),
                   ![s].slots = RemoveAt(@, Min(positions))])
              /\ UNCHANGED <<map, data, op, frames, failures>>

ListErase(l, i) ==
  /\ Begin /\ i \in DOMAIN heap[l].fields
  /\ heap' = Without(Content(l, i), [heap EXCEPT ![l].fields = RemoveAt(@, i)])
  /\ UNCHANGED <<map, data, op, frames, failures>>

(* A bug it could have: the fields are cleared, the slots are not.         *)
ClearedKeepsSlots(o) == Without(Below(o), [heap EXCEPT ![o].fields = <<>>])

(* FieldMap::clear, List::clear.                                           *)
Cleared(o) == Without(Below(o), [heap EXCEPT ![o].fields = <<>>, ![o].slots = <<>>])

Clear(o) ==
  /\ Begin
  /\ heap' = Cleared(o)
  /\ UNCHANGED <<map, data, op, frames, failures>>

-----------------------------------------------------------------------------
(* dst = src: copy_from_managed clears dst and then copies slot by slot.   *)
Frame(dst, src) == [dst |-> dst, src |-> src, i |-> 1]

Copy(dst, src) ==
  /\ Begin
  /\ dst \notin Tree(heap, src) /\ src \notin Tree(heap, dst)
  /\ heap' = Cleared(dst)
  /\ op' = [pc |-> "copy"]
  /\ frames' = <<Frame(dst, src)>>
  /\ UNCHANGED <<map, data, failures>>

Running == frames[Len(frames)]
AtEnd(f) == f.i > Len(heap[f.src].slots)
Advanced == [frames EXCEPT ![Len(frames)].i = @ + 1]

(* The name of the source's slot is read and internalized, which finds it, *)
(* and the new slot is appended.                                           *)
CopySlot ==
  /\ op.pc = "copy" /\ ~ AtEnd(Running) /\ UNCHANGED calls
  /\ LET from == heap[Running.src].slots[Running.i]
     IN  IF from > Len(data) THEN UndefinedBehaviour
         ELSE LET key == map[data[from]]
              IN  /\ heap' = [heap EXCEPT ![Running.dst].slots = Append(@, key)]
                  /\ op' = [pc |-> "copy field", key |-> key, from |-> from]
                  /\ UNCHANGED <<map, data, frames, failures>>

CopyField ==
  /\ op.pc = "copy field"
  /\ heap' = IF op.key \in DOMAIN heap[Running.dst].fields THEN heap
             ELSE SetField(heap, Running.dst, op.key, EmptyField)
  /\ Goto("copy construct")
  /\ UNCHANGED <<map, data, frames, calls, failures>>

(* at() of a slot without field throws, and so does assert_empty().        *)
CopyRefused ==
  \/ op.from \notin DOMAIN heap[Running.src].fields
  \/ heap[Running.dst].fields[op.key].data # NULL

CopyThrows ==
  /\ op.pc = "copy construct" /\ CopyRefused
  /\ Done
  /\ UNCHANGED <<map, data, heap, calls, failures>>

(* A bug it could have: the copy takes the content over.                   *)
CopyConstructMoves ==
  /\ op.pc = "copy construct" /\ ~ CopyRefused
  /\ heap' = SetField(SetField(heap, Running.dst, op.key, heap[Running.src].fields[op.from]),
                      Running.src, op.from, EmptyField)
  /\ op' = [pc |-> "copy"] /\ frames' = Advanced
  /\ UNCHANGED <<map, data, calls, failures>>

(* A bug it could have: nested stores are constructed and not filled.      *)
CopyConstructShallow ==
  /\ op.pc = "copy construct" /\ ~ CopyRefused
  /\ \E b \in Free :
       heap' = Constructed(heap, Running.dst, op.key, heap[Running.src].fields[op.from].type, b)
  /\ op' = [pc |-> "copy"] /\ frames' = Advanced
  /\ UNCHANGED <<map, data, calls, failures>>

(* Field::construct_copy_from: allocate, construct, and copy_fn, which     *)
(* dereferences the source (undefined when it is null and typed), throws   *)
(* for a list that has elements, and recurses into a store.                *)
CopyConstruct ==
  /\ op.pc = "copy construct" /\ ~ CopyRefused /\ UNCHANGED calls
  /\ \E b \in Free : LET source == heap[Running.src].fields[op.from]
     IN  IF source.type # "void" /\ source.data = NULL THEN UndefinedBehaviour
         ELSE /\ heap' = Constructed(heap, Running.dst, op.key, source.type, b)
              /\ IF source.type = "list" /\ heap[source.data].fields # <<>> THEN Done
                 ELSE /\ op' = [pc |-> "copy"]
                      /\ frames' = IF source.type = "store"
                                   THEN Append(Advanced, Frame(b, source.data)) ELSE Advanced
              /\ UNCHANGED <<map, data, failures>>

(* copy_fn of a string or a matrix finds no memory for the content: the    *)
(* field has its block by then.                                            *)
CopyLeafFails ==
  /\ op.pc = "copy construct" /\ ~ CopyRefused /\ failures < MaxFailures
  /\ heap[Running.src].fields[op.from].type = "leaf" /\ heap[Running.src].fields[op.from].data # NULL
  /\ \E b \in Free : heap' = Constructed(heap, Running.dst, op.key, "leaf", b)
  /\ failures' = failures + 1
  /\ Done
  /\ UNCHANGED <<map, data, calls>>

CopyReturn ==
  /\ op.pc = "copy" /\ AtEnd(Running)
  /\ frames' = Front(frames)
  /\ op' = IF Len(frames) = 1 THEN Idle ELSE op
  /\ UNCHANGED <<map, data, heap, calls, failures>>

-----------------------------------------------------------------------------
(* SharedAlloc::allocate throws: the operation ends where it is.  A copy   *)
(* has set the type of the field it was to construct.                      *)
MayAllocate ==
  \/ op.pc \in {"intern", "string", "slot", "copy field"}
  \/ op.pc = "emplace" /\ op.key \notin DOMAIN heap[op.at].fields
  \/ op.pc = "construct" /\ op.type # "void" /\ Target.data = NULL
  \/ op.pc = "copy" /\ ~ AtEnd(Running)
  \/ op.pc = "copy construct" /\ ~ CopyRefused

Fail ==
  /\ MayAllocate
  /\ failures < MaxFailures \/ (op.pc \in {"construct", "copy construct"} /\ Free = {})
  /\ heap' = IF op.pc # "copy construct" THEN heap
             ELSE [heap EXCEPT ![Running.dst].fields[op.key].type =
                     heap[Running.src].fields[op.from].type]
  /\ failures' = Min({failures + 1, MaxFailures})
  /\ Done
  /\ UNCHANGED <<map, data, calls>>

(* What the Python bindings of a store and of a list call.                 *)
StoreCalls ==
  \E s \in Stores :
    \/ Clear(s)
    \/ \E n \in Name : RemoveField(s, n) \/ \E t \in Type : Insert(s, n, t)
    \/ \E src \in Stores : Copy(s, src)

ListCalls ==
  \E l \in Lists :
    \/ Clear(l)
    \/ \E i \in 1 .. MaxLength :
         ListErase(l, i) \/ \E t \in Type : ListInsert(l, i, t) \/ ListAt(l, i, t)

Runs ==
  \/ InternFound \/ InternMap \/ InternString \/ EmplaceField \/ EmplaceSlot
  \/ ConstructNone \/ ConstructKeeps \/ Construct
  \/ CopySlot \/ CopyField \/ CopyThrows \/ CopyConstruct \/ CopyLeafFails
  \/ CopyReturn \/ Fail

(* After undefined behaviour nothing is said of the program.  No operation *)
(* stops half-way but for that.                                            *)
Stopped ==
  /\ op = Undefined \/ (op = Idle /\ calls = MaxCalls)
  /\ UNCHANGED vars

Next == StoreCalls \/ ListCalls \/ Runs \/ Stopped

Spec == Init /\ [][Next]_vars

-----------------------------------------------------------------------------
Fields(o) == {o} \X DOMAIN heap[o].fields
AllFields == UNION {Fields(o) : o \in DOMAIN heap}
Owners(b) == {f \in AllFields : heap[f[1]].fields[f[2]].data = b}

(* At every moment, failed allocations or not, each live block except the  *)
(* root is the content of exactly one field, of its type, in the block it  *)
(* calls its parent: nothing leaks, nothing is freed that is in use, no    *)
(* two fields share their content.                                         *)
TreeOwned ==
  TypeOK /\
  (op # Undefined =>
    /\ \A f \in AllFields : heap[f[1]].fields[f[2]].data \in DOMAIN heap \union {NULL}
    /\ Owners(Root) = {}
    /\ \A b \in DOMAIN heap \ {Root} :
         \E f \in AllFields :
           /\ Owners(b) = {f}
           /\ heap[b].parent = f[1]
           /\ heap[b].type = heap[f[1]].fields[f[2]].type)

(* Unless an allocation has failed, no operation runs into undefined       *)
(* behaviour (erasing slots.end(), reading an element data does not have,  *)
(* copying from a null pointer), and between two operations check() has    *)
(* nothing to complain about in the names: the slots of a store list its   *)
(* fields, each once, and every name has an index of its own, under which  *)
(* its string is stored.  Left out is what check() asks of empty fields    *)
(* (stst_typing.hpp:215-219), that they have no data: the code does not    *)
(* keep it, see CopyFaithful.                                              *)
CheckPasses ==
  failures = 0 =>
    /\ op # Undefined
    /\ op = Idle => \A s \in Stores :
         /\ Range(heap[s].slots) = DOMAIN heap[s].fields
         /\ Len(heap[s].slots) = Cardinality(DOMAIN heap[s].fields)
    /\ op = Idle =>
         /\ Len(data) = Cardinality(DOMAIN map)
         /\ \A n \in DOMAIN map : map[n] \in DOMAIN data /\ data[map[n]] = n

(* FieldView::operator== for the data of f and g, where E are the blocks    *)
(* that are equal.  It looks at the left side first: a field of type void  *)
(* with data equals an empty one, an empty one equals no field with data.  *)
FieldsEqual(f, g, E) ==
  \/ f.data = NULL /\ g.data = NULL
  \/ f.data # NULL /\ f.type = g.type /\ (f.type = "void" \/ <<f.data, g.data>> \in E)

Keys(o) == IF heap[o].type = "list" THEN DOMAIN heap[o].fields ELSE Range(heap[o].slots)

(* a == b: the names in their order, or the length, and then the fields.   *)
Same(a, b) ==
  LET Blocks == DOMAIN heap
      Equal[n \in 0 .. Cardinality(Object)] ==
        {p \in Blocks \X Blocks :
           /\ heap[p[1]].type = heap[p[2]].type
           /\ heap[p[1]].slots = heap[p[2]].slots
           /\ Keys(p[1]) = Keys(p[2])
           /\ \A k \in Keys(p[1]) :
                /\ k \in DOMAIN heap[p[1]].fields \intersect DOMAIN heap[p[2]].fields
                /\ n > 0 => FieldsEqual(heap[p[1]].fields[k], heap[p[2]].fields[k], Equal[n - 1])}
  IN  <<a, b>> \in Equal[Cardinality(Object)]

HasEmptyField(o) ==
  \E x \in Tree(heap, o) : \E k \in DOMAIN heap[x].fields : heap[x].fields[k].data = NULL

(* A copy that comes to its end, at whatever depth, is equal to its        *)
(* source: copy == source always, source == copy as long as nothing in the *)
(* source was assigned None.  The copy of None has data, which the source  *)
(* has not (stst_field.cpp:24).                                            *)
CopyFaithful ==
  op.pc = "copy" =>
    LET f == Running
    IN  AtEnd(f) => Same(f.dst, f.src) /\ (~ HasEmptyField(f.src) => Same(f.src, f.dst))

(* A copy, also one that fails half-way, changes nothing outside the store *)
(* it copies into.                                                         *)
CopyKeepsOthers ==
  [][frames # <<>> \/ frames' # <<>> =>
       LET outermost == IF frames # <<>> THEN frames[1] ELSE frames'[1]
       IN  \A o \in DOMAIN heap \ Tree(heap, outermost.dst) :
             o \in DOMAIN heap' /\ heap'[o] = heap[o]]_vars
=============================================================================
