# TLA+ models of mruby's method objects, kernel helpers and sprintf

This directory holds TLA+ specifications of parts of the mruby sources in
`src/`, together with TLC configurations that check them. Each module is
translated from the C code. The line ranges each definition stands for are
listed in `PROJECT.json` under `"map"`.

## 1. The system and its parts

mruby is single-threaded. Each operation below runs to completion, or it
re-enters the interpreter synchronously: a method call, `method_missing`,
`respond_to_missing?` or `inspect`. So the hard behaviours are not thread
interleavings. They are sequences of operations that reach a state no single
call was written for, and boundaries of encodings and numbers.

| Part | Source | State | Operations |
|---|---|---|---|
| Method / UnboundMethod objects | `mrbgems/mruby-method/src/method.c` | an RObject with ivars `_owner _recv _name _proc _klass` | `Kernel#method`, `#singleton_method`, `Module#instance_method`, `bind`, `unbind`, `super_method`, `==`, `call`, `bind_call`, `arity`, `parameters`, `owner`, `receiver`, `name`, `source_location`, `to_s` |
| Class graph services | `class.c` (not in `src/`), used through `method_search_vm` (method.c:387-401) | classes, modules, singleton classes, iclasses, method tables | method search, `mrb_class_real`, `mrb_obj_is_kind_of`, `mrb_respond_to` |
| Argument frame | method.c:14-64 (`args_shift`, `args_unshift`) | the call frame's `n`/`nk` counts and argument stack (packed if n<15, else one array) | shift the receiver out for `bind_call`; prepend the name for `method_missing` |
| Kernel | `src/kernel.c` | object flags (frozen), ivars, the call-info stack | `inspect`, `__case_eqq`, `<=>`, recursion guards, `freeze`, `frozen?`, `respond_to?`, `instance_variable_*`, `singleton_class`, `dup`/`clone` helpers |
| Proc extensions | `mrbgems/mruby-proc-ext/src/proc.c` | an irep's packed argument spec (aspec) | `lambda?`, `parameters`, `source_location`, `inspect` |
| sprintf | `mrbgems/mruby-sprintf/src/sprintf.c` | the scanner position, flags/width/precision, `posarg` mode, next arg index, output buffer | one loop iteration per format character, conversions `s p c d i u o x X b B f e E g G a A %` |
| Headers | `include/mruby/object.h`, `variable.h`, `ext/io.h` | RBasic flags (the frozen bit); declarations | none, apart from the flag macros that kernel.c uses |

How they interact:
- `Method#call` hands a receiver, a target class and a name to the interpreter
  (`mrb_exec_irep`). When there is no body, it first goes through
  `method_missing_prepare`, which rewrites the argument frame with
  `args_unshift`.
- `bind_call` takes its receiver off that frame with `args_shift`.
- `Method#parameters` and `#arity` use proc-ext's `mrb_proc_parameters` and
  the aspec; a C method reaches it as a cfunc proc made by
  `method_search_vm`.
- `Kernel#inspect` and `__case_eqq` call Ruby methods of the objects they
  are given (`inspect`, `===`), which run on the same call-info stack.
- sprintf stands alone, except that its `%p` and `%s` conversions call
  `inspect` and `to_s`.

## 2. Inventory: hard behaviours and the properties they call for

The `"hazards"` list in `PROJECT.json` gives each of these at its line, with
the properties that cover it.

- **Method objects (protocol sequences).**
  - `bind`, `unbind`, `super_method` and `call` can be chained in any order.
  - The receiver of a method whose owner is a module can be replaced by any
    object.
  - `super_method` walks `_klass`, not the receiver (method.c:434).
  - `super_method` replaces the node it found by `mrb_class_real`
    (method.c:451).
  - `alias m m0` gives an alias proc (made by class.c, outside `src/`)
    whose upper is the body of `m0`. `to_s` reports the original name and
    the position of the def.
  - `to_s` names `mrb_class_real(_klass)` as the receiver's class
    (method.c:589). `bind` copies `_klass` unchanged, and `super_method`
    sets it to the owner.
  - Properties:
    - a singleton method stays bound to its own object;
    - a `super_method` chain ascends and ends;
    - the owner defines the body and is never NULL;
    - a class's body only runs on instances of the class;
    - `singleton_method` only returns singleton methods;
    - `inspect` names the receiver's actual class.
- **Argument frame (numeric edges).**
  - The packed form has at most 14 arguments; the spread form has n = 15.
  - There may be a keyword hash slot (nk = 15) and there is a block slot.
  - `args_unshift` must promote a full packed frame to the spread form.
  - Promoting a packed frame with no argument writes one slot past it
    (method.c:55).
  - `block_given?` (kernel.c:310) finds the block slot by its own
    arithmetic on n and nk.
  - Properties:
    - shift and unshift implement "remove the head" and "prepend" on the
      argument sequence, with the keyword hash kept and the block where
      `block_given?` looks for it;
    - no write lands past the frame except that one promotion slot.
- **Kernel#inspect (stale state, liveness).**
  - `inspect` of an object graph recurses through `mrb_inspect`; only the
    check of `mrb_recursive_method_p` on the first variable stops a cycle.
  - That check scans the call-info stack from ci[-1] (kernel.c:157). Which
    frames are below depends on how `Kernel#inspect` was reached, e.g.
    through `super` from a Ruby override of `inspect`.
  - The '-' lead of the first element is replaced only when a variable is
    printed; the recursive path returns before that.
  - Properties: the call returns on every graph, no object has more than
    two `Kernel#inspect` frames, and the text is Ruby's.
- **Kernel#__case_eqq (stale state).**
  - `len = RARRAY_LEN(ary)` is read once (kernel.c:625); each `===` in the
    loop is Ruby code that may pop, clear or push onto the list.
  - Properties: the call returns, and it reads only elements the list
    still holds.
- **Kernel object methods (protocol sequences).**
  - `freeze` freezes the singleton class only if it exists then, and only
    on the first freeze (kernel.c:348-350). A singleton class made later
    must take the frozen bit when it is created.
  - `respond_to?` reads `include_private` but the search ignores it
    (kernel.c:586).
  - Properties: a frozen object's ivars and singleton methods never change;
    `respond_to?` leaves out private methods unless asked.
- **Kernel `<=>` and `__method_recursive?` (liveness, off-by-one).**
  - `<=>` calls the program's `==` (through mrb_equal), which may call
    `<=>` back with the operands either way round. Only the stack scan
    from ci[-1] (kernel.c:141) stops that mutual recursion.
  - The scan cannot tell a recursive call from an override
    `def <=>(o); super; end` whose own frame has the same mid and
    operands (kernel.c:142).
  - `__method_recursive?` starts at ci[-2] (kernel.c:189), to skip the
    frame of the method that asks.
  - Properties: both calls return; a guarded `x == x` is true, which a
    scan that started one frame higher would break; `x <=> x` is 0.
- **Proc#parameters (ordering, off-by-one).**
  - One index i walks the lv table for seven kinds in a fixed order; an
    empty block slot is skipped but still reserved, while the bound
    `i < max` does not count it (proc.c:151, 166).
  - A block entry reads `lv[i+1]` without any bound (proc.c:155).
  - keyrest and block entries are held back and pushed last.
  - A proc that is not a lambda reports its required parameters as `opt`.
  - The aspec has one KEY count for required and optional keywords, so a
    required keyword is reported as `key` (proc.c:108).
  - Properties: kinds and order are Ruby's but for `keyreq`; the whole
    result is Ruby's.
- **sprintf.**
  - The argument modes (unnumbered, numbered, named) exclude each other, and
    a value may not be given twice.
  - Width and precision from `*` must fit in 16 bits.
  - Negative numbers in non-decimal bases are printed in the `..f` "dots"
    form. The digits padded in by precision or the `0` flag must be sign
    digits.
  - The output buffer doubles from 120 bytes.
  - `%s`/`%p` compare the width with the length after the precision cut
    (sprintf.c:528); `%c` fills width - 1 spaces, and turns an Integer
    into a byte, or through `chr` in a MRB_UTF8_STRING build.
  - All of these lengths are bytes (sprintf.c:522), while a UTF-8 build's
    strings hold characters of several bytes.

## 3. Modules

| Module | Models | Kind |
|---|---|---|
| `ClassModel` | the class graph and the class.c services the gem calls | constants and operators; written from the spec (class.c is not in `src/`) |
| `MethodObject` | method.c: method objects and their operations | state machine over a few script variables holding method objects |
| `MC_MethodObject` | a concrete class graph and objects, from the Ruby program in its header | MC module |
| `Args` | what `args_shift`/`args_unshift` promise: a sequence of arguments, a keyword hash and a block | abstract state machine |
| `ArgFrame` | method.c:14-64: the packed and spread call frame | state machine, refining `Args` |
| `MC_ArgFrame` | `CALL_MAXARGS` = 15, arrays up to 16 | MC module |
| `SprintfConv` | sprintf.c: the integer, float and text (`%s %p %c`) conversions | one directive per behaviour; the text as operators |
| `MC_SprintfConv` | values, widths and precisions around every boundary the code tests | MC module |
| `SprintfScan` | sprintf.c:157-445: the directive scanner and argument fetching | state machine, one action per case of the switch |
| `MC_SprintfScan` | every format of up to four pieces, five argument lists | MC module |
| `KernelInspect` | kernel.c:24-168: `Kernel#inspect`, `inspect_i`, `mrb_recursive_method_p` | state machine over the call-info stack |
| `KernelCaseEqq` | kernel.c:598-631: `Kernel#__case_eqq` | state machine, one action per branch and one per loop iteration |
| `KernelObject` | kernel.c:343-360, 385-460, 548-596: `freeze`, `frozen?`, `initialize_copy`, `instance_of?`, `kind_of?`, `remove_instance_variable`, `respond_to?` | state machine over objects' headers and ivars |
| `KernelCmp` | kernel.c:135-198: `Kernel#<=>`, `__method_recursive?` | state machine over the call-info stack |
| `Kernel` | the four above, one of them exercised per program run | composition by `INSTANCE` |
| `MC_Kernel` | four objects with every ivar graph; lists of up to two elements; two objects and an immediate for the object methods; two objects for `<=>` and `==` | MC module |
| `ProcParameters` | proc.c:95-171 and method.c:543-554: `Proc#parameters`, `Method#parameters` | operators, one step per call |
| `MC_ProcParameters` | every parameter list of a few names | MC module |

### MethodObject

`MethodObject` holds these variables:
- `held[s]`: the method object stored in script variable `s`. It is a
  record with the five ivars plus `kind` (Method or UnboundMethod).
- `lastCall`: the invocation that `mcall` hands to `mrb_exec_irep`. This is
  the receiver, the body, the method id, the target class, and the first
  argument prepended by `method_missing_prepare`.
- `lastOp`: a history variable. It records the slots of the last
  `super_method` or `singleton_method` step, or "raise" when the last step
  raised an error.
- `shown`: the slot and the value returned by the last `to_s` or
  `source_location`. The string of `to_s` is kept as its parts: the form
  (`recv.name`, `Owner#name` or `Klass(Owner)#name`), the classes it names,
  the alias root, and the location. A location is the irep whose position
  is read, NIL, or SEGV for the crash described below. It is NIL after any
  other operation.

Each of these operations is one action, and the action covers the whole C
function: `KernelMethod`, `KernelSingletonMethod`, `ModuleInstanceMethod`,
`Bind`, `Unbind`, `SuperMethod`, `Eql`, `Call`, `BindCall`,
`BindCallNoArgs`, `ToS`, `SourceLocation`. `ToS` is `method_to_s`:
`MethodToS` takes its three branches, and `AliasRoot` is its loop over
alias procs. The alias procs come from the constant `AliasOf`
(`p->body.mid`, `p->upper`). `SourceLocation` is `method_source_location`
over `ProcSourceLocation`, which is `mrb_proc_source_location` of proc.c.
It steps from an alias proc to its upper once and then reads
`p->body.irep`. When that upper is an alias proc too, the body is a
symbol, and the read is modelled as a crash (SEGV); the MC instance has
no such chain (section 7, chains of aliases), so no run reaches it. The constants
`CBodies` (C functions) and `DebugIreps` (ireps with a position) give the
other outcomes. A raised error leaves `held` unchanged, as in Ruby when
the assignment `x = m.bind(o)` raises.

`ClassModel` has these operators:
- **`MethodSearch`** returns the first table entry on the chain. An `undef`
  entry gives "not found". It also returns the node the entry was met at,
  which is the `*cp` out-parameter.
- **`ClassReal`** skips singleton classes and iclasses, and returns NULL
  when the chain ends first.
- **`KindOf`** also accepts an iclass of the module it is given.

`MC_MethodObject.tla` builds the graph of the Ruby program in its header:
- modules `M`, `N` (includes `M`; its `m` is an alias of `m0`) and `P`
  (includes `N`). The alias proc is what class.c's `alias_method` makes,
  outside `src/`; the model takes one level, an alias of a def, as given;
- every Ruby body has a debug position except `M#m`. `method_missing` of
  `BasicObject` and `respond_to_missing?` of `Kernel` are C functions;
- classes `A`, `B < A` (includes `M`), `C < A` (includes `M`),
  `D < A` and `D2 < D`. `D` undefines `m` and `method_missing` and answers
  `respond_to_missing?` with true. `D2` defines `method_missing`.
- `a2`, an `A` with a singleton method `m`;
- `e1`, an Object extended with `M`;
- `Kernel` included in `Object`, and `method_missing` on `BasicObject`.

This graph has a body in a class, in a module, in a module included twice
and in a singleton class, an `undef`, both answers of
`respond_to_missing?`, a missing and a present `method_missing`, and a
module whose inclusion chain ends without a real class. Two script
variables are enough to hold a method and the result of an operation on it.

### ArgFrame and Args

`ArgFrame` has the frame's counts `n` and `nk`, the argument stack `stack`
(slot 0 is the receiver's first argument, or the array in the spread form)
and the spread array `ary`.
- `ArgsShiftPacked` and `ArgsShiftSpread` are the two branches of
  `args_shift`. `ArgsShiftError` is its ArgumentError for n = 0.
- `ArgsUnshift(obj)` is `args_unshift`, including the promotion of a packed
  frame to the spread form.

`Args` has one sequence of arguments, a keyword hash and a block. Its
actions are `Shift` (remove the head), `ShiftNone` (the error) and
`Unshift(v)` (prepend). `ArgFrame` instantiates `Args` with the mapping
"the arguments are `stack[0..n-1]` when packed, else `ary`; the keyword hash
and the block are read at the slots the frame layout gives them". The
property `ArgsRefinement` is `Args!Spec` under this mapping.

The initial block slot holds `Blk` or `NilBlk`. `BlockGivenP` is the last
branch of `block_given?` (kernel.c:309-318): the frame of a method without
an env, whose block is `ci->stack[n + k + 1]`. The refinement mapping
reads the abstract block through `BlockGivenP`, so `ArgsRefinement` also
checks that this arithmetic and method.c's moves agree. `WritesStayInFrame` is an action property:
no step writes past the block slot of the frame it leaves, and the frame
grows only when `args_unshift` promotes a frame with n = 0, by one slot.

### SprintfConv

One behaviour is one directive: Init picks the conversion, the flag set
(FWIDTH and FPREC exactly when a width or precision is given), width,
precision and argument; one step pushes the text.
- `FormatInt` applies `FmtInt`, the integer branch (sprintf.c:547-761),
  step by step: prefix, base, sign, `mrb_uint_to_cstr`/`remove_sign_bits`
  for negative numbers in base 8/16/2 (the digits of base^k + v without
  leading sign digits), the dots strip, upper-casing, the octal special
  cases, zero fill and padding.
- `FormatFinite` applies `fmt_float` (sprintf.c:89-131) to the text of
  `mrb_format_float` and keeps the count it returns, as
  `blen += n` does.
- `FormatNonFinite` is the NaN/Inf branch (sprintf.c:778-817).
- `FormatStr` is `case 's'`/`case 'p'` (sprintf.c:498-543): `FmtStr`
  cuts the text to the precision and pads it; `%p` first applies
  `Inspect`, String#inspect from the spec.
- `FormatChar` is `case 'c'` (sprintf.c:447-496). `CharArg` turns the
  argument into the character, or into the ArgumentError/RangeError it
  raises (`err`). An Integer is `(char)n` (code mod 256); in a
  MRB_UTF8_STRING build one from 0x80 up goes through `Integer#chr`
  instead (`IntChr`, written from the spec). `FmtChar` adds the width - 1
  spaces.
- Strings are sequences of bytes. `utf8` is the build's MRB_UTF8_STRING,
  chosen in Init for a text conversion. With it, the bytes of
  `ContBytes` continue the character before them. The code never looks
  at that; only `TextAsDocumented` counts characters.

`mrb_format_float` is outside `src/`. It is modelled as writing the sign,
then the digits (`FormatFloatText`), and the digits are abstracted to
three texts: "1.5", "9.5" and "12.5". They start with a digit below and
with the digit equal to the '9' that `fmt_float` compares with, and they
have two lengths.

### SprintfScan

The scanner state is:
- the position `p`;
- `pc`: "lit" (top of the for loop), "retry" (the switch), "done", or the
  error class raised;
- the directive's `flags`, `width` and `prec`;
- `nextarg` and `posarg`, the numbering mode;
- `nextvalue`, `id` and `hash`;
- `out`: literal characters and conversion tokens.

Each case of `switch (*p)` is one action:
- `ScanFlag`, `ScanDigits` (width or N$), `ScanName` (<name>, {name}),
  `ScanAsterWidth`, `ScanPrecision`, `ScanPercent` (with '\n' and NUL),
  `ScanConversion` and `ScanMalformed`;
- `ScanLiteral` is the top of the loop.

The fetch macros are operators:
- `NextArg` is GETNEXTARG with `check_next_arg`;
- `PosArg` is GETPOSARG with `check_pos_arg`;
- `NthArg` is GETNTHARG;
- `Aster` is GETASTER;
- `GetHash` is `get_hash`.

Each returns the fetched value and the new mode. `used` is a history of
every fetch and its mode. The byte after the terminating NUL is `junk`, a
nondeterministic input.

`MC_SprintfScan` enumerates every concatenation of up to four pieces. The
pieces are `%`, `d`, `%d`, `1$`, `1`, `$`, `*`, `-`, `.`, `<a>`, `<a`,
`{a}` and `x`. Four pieces reach two directives of different modes
(`%1$d%d`, `%<a>d%d`), a '*' with and without `$`, and unterminated
names. The argument lists are:
- none;
- the hash {a: 3};
- (-2, 3), for a negative '*' width;
- (40000, "S"), a width beyond int16 and a non-Integer;
- 2**32+3, whose `(int)` cast is 3.

### KernelInspect, KernelCaseEqq and Kernel

`KernelInspect` runs one call `x.inspect` to completion:
- `iv[o]` is each object's ivar table in `mrb_iv_foreach` order, chosen
  once from `IvTables`; `root` is the receiver.
- `ci` is the call-info stack. A frame has the method id, self, whether it
  is the C function `Kernel#inspect`, and that function's `inspect_i`
  locals: the text `str`, the next ivar index and whether it waits for the
  inspect of a value.
- `InspectI` is one call of `inspect_i`: the first call writes
  `-<Class:0x...` and asks `RecursiveMethodP`, which is
  `mrb_recursive_method_p` scanning from ci[-1]; an immediate is appended;
  an object pushes the frame of its own `inspect`. `Return` hands the
  value back to the frame below.
- `FinishInspect` is the end of `mrb_obj_inspect`: close with '>' or fall
  back to `mrb_any_to_s` (no ivar printed, or `to_s` overridden).
- `CallSuper`/`ReturnSuper` are a Ruby `def inspect; super; end`. The VM's
  `super` is outside `src/` and is modelled from the spec.
- Text is a sequence of tokens: characters, an object standing for
  `Class:0xADDR`, ivar names, immediates.

`KernelCaseEqq` has the receiver's kind, the list `ary`, the locals `len`
and `i`, the indices whose `===` was called, and the result. Each branch of
`mrb_obj_ceqq` is one action (`CeqqSelfArray`, `CeqqNil`, `CeqqNoToA`,
`CeqqToA`); `CeqqCall` is one loop iteration, in which the element's `===`
may pop, clear or push (`Apply`, the array operations of array.c, outside
`src/`). Past the current length the slot is stale or freed memory; the
call then reaches a leftover object or crashes ("SEGV").

`KernelObject` has each heap object's frozen bit, the state of its
singleton class ("none", "open", "frozen"), its singleton methods, its
ivar table, and the last call with what it returned.
- `Freeze`, `Frozen`, `RemoveInstanceVariable`, `RespondTo`, `InitCopy`,
  `InstanceOf` and `KindOf` are the kernel.c functions.
- `SingletonClass`, `DefineSingletonMethod` and `IvSet` are the class.c
  and variable.c operations that a program mixes with them. They are
  written from the spec: a new singleton class takes the object's frozen
  bit, and method definition and `mrb_iv_set` fail on a frozen target.
- `IvRemove` (mrb_iv_remove) and `MrbRespondTo` (method search, which
  does not look at visibility) are also written from the spec.

`KernelCmp` runs one program call, `x <=> y` or `x == y`, on the
call-info stack `cstack`. A frame has the method id, self, the first
argument, which body runs, and what the call it waits for returned.
- `KernelCmpStart` and `KernelCmpResume` are mrb_cmp_m before and after
  its call of `==`; `CmpRecursive` is its scan (kernel.c:140-148).
- `MethodRecursiveP` is mrb_obj_method_recursive_p (kernel.c:180-198),
  called from an `==` body guarded by `__method_recursive?` in its binary
  or unary form (`EqGuardStart`).
- The other actions are program code, and are written from the spec:
  - `==` as identity (`EqIdentity`), or as `(self <=> o) == 0` or its
    swapped form (`EqCmpStart`, `EqCmpResume`);
  - an override of `<=>` that calls `super` (`SuperCmpStart`,
    `SuperCmpResume`).
- `Call` and `Return` push and pop frames as the VM does.

`Kernel` composes the four: `call` says which one the program exercises,
and the others' variables stay at a fixed rest state. Its properties are
those of the components, referred to through `INSTANCE`.

### ProcParameters

`Parameters(proc, beyond)` is `mrb_proc_parameters`:
- `ParamList` is `parameters_list` after the aspec is decoded (`Aspec`),
  with req renamed opt for a proc that is not a lambda.
- `IndexAt` is the value of i when the walk reaches each kind, including
  the skip of an empty block slot; `Entries` builds `[kind, lv[i]]`, and for
  a block also `lv[i+1]`; `LvAt` reads past the table's end as `beyond`,
  a nondeterministic input.
- keyrest and block entries are appended after the keywords.

`MethodParameters` is `method_parameters`: `[[:rest]]` without a `_proc`.
`Receivers` are Procs (blocks, lambdas, C functions) and Methods (the body
of a def, a C function wrapped by `method_search_vm`, or no proc).

The lv table is laid out by the compiler (parse.y/codegen.c, outside
`src/`). `LvOf` writes it down in the order the code walks it, with the
block slot reserved (spec 4.4: "the block slot may be empty but still
reserves position"), followed by the body's locals. It is spec_modelled.
`Documented` is the reference: Ruby's `parameters`, as spec 4.4 states it.

## 4. Runs

| Run | cfg | Expect | What it shows |
|---|---|---|---|
| `method_objects` | `MC_MethodObject.cfg` | pass | every sequence of method operations over two variables: `SingletonOwnerBinding` (a singleton method stays bound to its object through unbind/bind/super_method), `SuperMethodAscends` (super_method chains climb and end), `TypeOK`; `to_s` and `source_location` of every object reached; 126,884 states, about 2.5 minutes |
| `method_doc` | `MC_MethodObject_Doc.cfg` | violation | `MethodObjectsAsDocumented`, the conjunction of four statements of method.c's documentation and spec 4.4. (1) `OwnerDefinesProc`: `b1.method(:m).super_method` (B < A, B includes M) reports owner `A` but carries `M#m`, and for `P.instance_method(:m).super_method` the owner is NULL (method.c:451). (2) `ClassMethodRunsOnInstance`: `c1.method(:m).unbind.bind(e1).super_method.call` runs `A#m` with `self = e1`, which is not an A (method.c:434 walks `_klass`). (3) `SingletonMethodIsSingleton`: `c1.singleton_method(:m)` returns `M#m` from a module included in class C (method.c:669). (4) `ToSAsDocumented`: `b1.method(:m).super_method.inspect` reads `A#m` where spec 4.4 gives `B(A)#m`, because `to_s` names `mrb_class_real(_klass)` (method.c:589). |
| `arg_frame_refinement` | `MC_ArgFrame.cfg` | pass | from every frame a call can build, with and without a block, any sequence of shifts and unshifts implements `Args` with the block read as `block_given?` finds it (`ArgsRefinement`), and writes stay in the frame except the promotion of an empty frame (`WritesStayInFrame`); `TypeOK`; 87,324 states |
| `sprintf_conv` | `MC_SprintfConv.cfg` | pass | for all conversions, flag sets, widths and precisions over the MC values: an integer reads back as its argument (`ReadsBack`), is padded only at its ends (`PaddingPlacement`) and shows the precision's digits (`PrecisionDigits`); a float without the 0 flag, and NaN/Inf, is its sign and text justified in the field (`FloatJustified`); `%s`, `%p` and `%c` print their text, cut to the precision, justified in the field (`TextJustified`); 187,392 states |
| `sprintf_doc` | `MC_SprintfConv_Doc.cfg` | violation | `ConvAsDocumented`, the conjunction of: `SignFlagHonoured` (`%+x` of -123 prints `..f85` where the doc says `-7b`; sprintf.c:586), `DotsDenoteValue` (`%o` of -123 with precision 8 prints `..700605`, `%.8x` of -123 prints `..f00085`, `%o` of -37 prints `..73`, which denotes -5; sprintf.c:672, 750), `FieldWidth` (`%-20.8o` of -123 is 17 characters; sprintf.c:740) and `FloatZeroPadded` (`%05.1f` of 9.5 prints `  9.5`, sprintf.c:111; `%07.2f` of -1.5 prints `-001.5`, sprintf.c:106) and `TextAsDocumented` (in a MRB_UTF8_STRING build `%.2s` of "aé" prints "a" and half of é, and `%c` of "é" raises; sprintf.c:522, 454) |
| `sprintf_scan` | `MC_SprintfScan.cfg` | pass | `ModesExclusive` (the three numbering modes never mix), `ArgsInOrder` (unnumbered references take the arguments in order, every reference names a passed argument), `TypeOK`; 420,485 states |
| `sprintf_scan_doc` | `MC_SprintfScan_Doc.cfg` | violation | `ScanAsDocumented`: the scan stays within the format (`ScanInBounds`: `format("%<a", a: 3)` reads the byte after the terminating NUL, sprintf.c:400) and a '*' width is its argument's value (`AsterFits`: `format("%*d", 2**32+3, 1)` takes width 3, sprintf.c:232) |
| `kernel` | `MC_Kernel.cfg` | pass | on every ivar graph of four objects (section 5) (cycles, shared objects, a `super` override of inspect, a `to_s` override) `x.inspect` returns and no object has more than two `Kernel#inspect` frames (`GuardCutsRecursion`); on every list of up to two elements whose `===` may pop, clear or push, `__case_eqq` returns; `Termination` for both; any sequence of the object methods never changes a frozen object (`FrozenObjectImmutable`); for two objects with every choice of `==` body and `<=>` override, `x <=> y` and `x == y` return, and `x == x` is true when `==` is guarded by `__method_recursive?` and `<=>` is Kernel's (`EqGuardReflexive`); `TypeOK`; 33,659 states |
| `kernel_doc` | `MC_Kernel_Doc.cfg` | violation | `KernelAsDocumented`: inspect returns Ruby's text (`InspectAsExpected`) and `__case_eqq` reads only elements the list holds (`ReadInBounds`). Found: `s.inspect` with `def inspect; super; end` gives `-<S:0x... ...>` for an object without a cycle (kernel.c:64); a cycle gives `@x=-<A:0x... ...>` with a '-' lead (kernel.c:65); an `===` that pops the list makes the loop read past its length (kernel.c:627); `1.respond_to?(:raise)` is true though `raise` is private (kernel.c:586, `RespondToAsDocumented`); `x <=> x` is nil when x's class has `def <=>(o); super; end` (kernel.c:142, `CmpAsExpected`) |
| `proc_parameters` | `MC_ProcParameters.cfg` | pass | for every parameter list of the MC shapes, on blocks, lambdas and method bodies, parameters has one entry per declared parameter with Ruby's kinds in Ruby's order, a required keyword's `keyreq` aside (`KindsAsDocumentedButKeyreq`), `TypeOK`; 7,188 states |
| `proc_parameters_doc` | `MC_ProcParameters_Doc.cfg` | violation | `ParametersAsDocumented`: a Method of a C function gives `[]`, not `[[:rest]]` (proc.c:115 with method.c:396); `def m(a, k: 1)` gives `[[:req, :a], [:key]]` (proc.c:151); `def m(a, &b); x = 1; end` gives `[:block, :b, :x]` (proc.c:155); `def m(k:)` gives `[[:key, :k]]`, not `[[:keyreq, :k]]` (proc.c:108) |

Each property of a passing run has a mutant in `PROJECT.json`. A mutant is
a plausible bug in the mapped definition, and TLC finds the property
violated under it.

Some findings rest on code outside `src/`:
- the two float findings assume `mrb_format_float` writes the sign
  character first;
- the two name findings of `proc_parameters_doc` assume the lv layout of
  `LvOf`, the order the code itself walks. The `[]` for a C function does
  not depend on it.

The doc comment of `Method#parameters` (method.c:539) shows
`[:keyreq, :qux]` for a required keyword. The code has no `keyreq` kind at
all: the aspec counts required and optional keywords together. `Documented`
follows Ruby, so `ParametersAsDocumented` reports it, and the passing
`KindsAsDocumentedButKeyreq` reads `keyreq` as `key` to check the rest.

## 5. Bounds

- **Method objects.** There are 20 class nodes, 6 objects, 2 names and 2
  slots. Each branch of `method_search_vm`, `bind_check`, `super_method`
  and `method_missing_prepare` is taken (all actions fire).
- **Argument frame.** n runs over 0..15 with and without a keyword hash,
  and arrays go up to 16. That covers both sides of the packed/spread
  boundary (n = 14, 15).
- **sprintf conversions.**
  - Integers are -123, -37, -11, -5, -1, 0, 1 and 123. They cover the '0'
    special cases, the empty digits of -1, octal digits starting with 1 or
    3, binary, and the doc's examples.
  - Widths are none, 0, 3, 5, 8 and 20; precisions are none, 0, 2 and 8.
    Each of them is below, at and above the digit counts.
  - Strings are empty, one and three characters long, and one two-byte
    UTF-8 character, alone and after "a". Precision 2 cuts the three,
    which then no longer fill width 3, and cuts "aé" inside the é. `%c` codes are 65,
    -191 and 321 (the same byte from below and above; `chr` refuses 321)
    and 200 (a byte `chr` accepts); string arguments of length 0 and 3
    raise.
  - TLC's integers are 32-bit. The 64-bit complement of a negative number
    is therefore computed from base^k + v with the smallest k that holds
    v, which gives the same digits after the sign digits are stripped.
- **Scanner.** Formats have up to four pieces. Longer formats only repeat
  the cases these reach. `IntFits` names the Integer arguments that fit in
  a C int; 2**32+3 does not.
- **Kernel#inspect.** Four objects: two plain, one whose class overrides
  `inspect` with `super`, one that overrides `to_s`. `a` has up to two
  ivars and `b` and `s` up to one, each holding any object or the
  immediate 1. That gives self-loops, 2- and 3-cycles, a value shared by
  two ivars, a cycle through a second ivar and the ", " separator. MaxDepth 10 frames is
  never what stops a run: a blocked push would leave the call unfinished,
  and `Termination` holds.
- **Kernel#__case_eqq.** Lists of up to two elements, grown to at most
  three by `push`. Two elements are enough for a pop to make the second
  read stale; a third lets a push happen after the count.
- **Kernel object methods.** Two objects of one class and the immediate
  1; one ivar name and one invalid name; one singleton method name; a
  public and a private Kernel method; `respond_to_missing?` left as
  Kernel's or answering nil or an object. Two objects are enough for
  `initialize_copy` and `instance_of?` to compare different objects, and
  every order of singleton-class creation, freeze, `def` and ivar set on
  one object is reached.
- **Kernel `<=>`.** Two objects, each class's `==` one of five bodies and
  `<=>` overridden or not, and the program's call `<=>` or `==` on every
  pair. Two objects are enough for `==` to compare back with the
  operands swapped. The stack bound (`MaxCDepth` 12) is never reached:
  the deepest stack has seven frames, and `Termination` would fail if
  the bound cut a call off.
- **Proc#parameters.** Up to two required, one optional, a rest, one post,
  `**opts`, `&block`, up to two keywords and one body local: every kind
  present or absent, the block present or absent next to keywords, and a
  local after the block.

## 6. Fairness

Method objects, the argument frame, sprintf and parameters are checked for
safety only, with no fairness: the code has no scheduler of its own, and a
script can stop after any operation.

`Kernel` (with `KernelInspect` and `KernelCaseEqq`) checks `Termination`
under `WF_vars(Next)`. One call of `inspect` or `__case_eqq` is a C
function that runs to completion on the VM's one thread, and the Ruby code
it calls back (an `inspect` override, an element's `===`) is modelled as
returning. The VM never waits between these steps, so a step that stays
enabled is taken. What the property then shows is that the code itself
has no unbounded recursion or loop: `Termination` fails when the recursion
check is removed, and when the loop does not advance.
The same holds for `KernelCmp`: the `==` and `<=>` bodies it models
make their calls and return, and only the scans can stop their
recursion.
The object methods of `KernelObject` are called by the program in any
order and as often as it likes; no liveness is claimed for them, and
`Termination` says nothing when `call = "object"`.

## 7. Not modelled, and why

- **The interpreter, the GC and the symbol table.** They are opaque services
  (spec section 1). A call is modelled by what `mcall` hands to
  `mrb_exec_irep`.
- **class.c.** It is outside `src/`, so `ClassModel` is written from
  spec 4.2. The class graph is fixed: no operation in the modelled code
  defines or includes anything.
- **Error message texts.** Only the error class is kept.
- **`method.c` read-only accessors and `arity`.** They change no state.
  `arity` hands `_proc` to `mrb_proc_arity`, which is outside `src/`.
- **The digits of floats.** They come from `mrb_format_float`, outside
  `src/`.
- **The output buffer's growth.** `CHECK` doubles `bsiz` until the text
  fits. It raises only past MRB_INT_MAX/2, which no model reaches, and the
  scanner pushes a token instead of text. The branch of `case 's'` that
  sets an embedded result's length (sprintf.c:509-513) is left out: the
  result starts with 120 bytes, more than an embedded string holds.
- **`io.h`.** It holds declarations only.
- **Kernel `hash`, `object_id`, `class`, `nil?`, `raise`, `p`, `===`.**
  They return an address, a class or a constant, or raise; none changes
  the state the properties are about. `===` returns mrb_equal's answer,
  which is the `==` call `KernelCmp` models.
- **`block_given?` through procs and envs.** Only the branch that reads
  the caller's frame (kernel.c:309-318) is modelled. The other branches
  read an env's `bidx`, which the VM (outside `src/`) sets.
- **`variable.h` and `object.h`.** Declarations and the header layout;
  the frozen bit is modelled, the ivar store's shaped and table layouts
  are one function in the model.
- **`Proc#lambda?`, `Proc#source_location`, `Proc#inspect`,
  `Kernel#proc`.** They read one flag, format debug information of a
  block's irep, or return the block. None changes state.
- **Chains of aliases.** Whether `alias m1 m0; alias m m1` gives an alias
  proc whose upper is again an alias proc is up to class.c, outside
  `src/`. The model has one level only; `mrb_proc_source_location`
  (proc.c:24) steps past one alias, and a deeper chain is not checked.
- **The VM's `super` and `mrb_any_to_s`.** Outside `src/`; modelled from
  the spec as `CallSuper`, `ReturnSuper` and `AnyToS`.

## 8. Plan for the remaining modules

1. Larger instances: a third method-object slot (the `method_objects` run
   takes about two minutes with two) and a third object for `<=>`.
2. `arity` only if `mrb_proc_arity` (proc.c of the core, outside `src/`)
   is modelled from the spec's arity rule, next to `ProcParameters`.
