# TLA+ models of llcppg

llcppg reads the headers and the symbols of a C (or C++) library and writes a
Go package that binds them. This directory holds a specification of its core:
TLA+ modules translated from the Go source, TLC configurations that check them
on small instances, and TLAPS proofs of what holds for every instance.

Line numbers below refer to `src/`. `PROJECT.json` lists, for every definition
that stands for code, the lines it stands for; for every run, its properties;
for every property, a plausible fault of the code that the run catches.

## 1. The system

One invocation of `llcppg` passes through these parts.

```
 llcppg.cfg ──► cmd/llcppg ──────────────────────────────────────────────┐
                 │ pass 1: _xtool/symg                                   │
 headers ───────►│   header classification ─► cursors ─► Go names        │
 libraries ─────►│   library lookup, nm ─► intersection                  │
                 │        └──► llcppg.symb.json                          │
                 │ pass 2: _xtool/parse                                  │
 headers ───────►│   preprocess, parse ─► AST,  classification ─► FileMap│
                 │ pass 3: cl/internal/convert                           │
 llcppg.pub of ─►│   dependencies ─► scope                               │
 dependencies    │   AST + FileMap + symbol table ─► gogen package       │
                 │        └──► llcppg.pub, *.go, go fmt, go mod tidy     │
                 └───────────────────────────────────────────────────────┘
```

Before it, `llcppcfg` writes the llcppg.cfg, and around it `llcppgtest` runs
both for many packages. Only that test runner has goroutines; in the program
itself there is one. What makes the program hard is not scheduling but order: C lets a name be used, forward-declared, defined and
redefined in any order and in several headers; two C names compete for a Go
name; several maps describe one type and have to agree; recursion goes over
graphs with cycles; each pass leaves files that a later invocation reads; and
any step can fail with the others done.

### Inventory

| part | state it keeps | operations | talks to | what makes it correct |
|---|---|---|---|---|
| type and function conversion (`cl/internal/convert/package.go`, `convert.go`, `funcname.go`) | registered nodes and Go name counts (`ProcessSymbol`), gogen's scope and type declarations, `IncompleteTypes.types` / `typesMap`, `Pubs`, the current Go file | `NewTypeDecl`, `NewTypedefDecl`, `NewEnumTypeDecl`, `NewMacro`, `NewFuncDecl`, `deferTypeBuild`, the implicit forward declaration inside `lookupType` | the node converter, the dependency loader, gogen | one Go type for a C name; every type gets a definition, once, in its own file; a typedef after what it names; a reference means the C name it was written with; llcppg.pub tells the truth |
| C to Go types (`type.go`, `builtin.go`, `expr.go`) | a context that is saved and restored around parameters and records | `ToType`, `handleTagExpr`, `RecordTypeToStruct` | `lookupType` | right object for a reference; context restored on every path; a union as large as its largest member |
| names and files (`cl/nc/ncimpl`, `internal/name`) | `ThirdTypeLoc` | `ConvDecl`, `ConvMacro`, `ConvEnumItem`, `ConvTagExpr` | FileMap, symbol table, typeMap | declarations of other packages are skipped, those of this one are not |
| dependency packages (`deps.go`) | `pkgCache`, `regCache`, the `Deps` pointers between packages | `Imports`/`Import` (recursive), `RegisterDeps`/`RegisterDep` (recursive) | go list, llcppg.pub and llcppg.cfg files, the scope | ends on cycles; everything reachable is registered; the order decides who owns a name |
| symbol table (`_xtool/symg`, `_xtool/internal/symbol`, `ld`) | `symbolMap`, `collectQueue`, `nameCounts` | visit, sort, `genGoName`, `AddSuffix`, `Libs.Files`, nm, `GetCommonSymbols` | header classification, libclang, nm | distinct Go names; custom names have precedence; every entry links, whichever libraries can be read |
| header classification (`_xtool/internal/header`, `clangtool`) | `Inters`, the map of them, the other headers | one clang run for each header, one for all, `commonParentDir` | clang, symg and parse | an interface header is one whatever includes it first; the root directory |
| C parser (`_xtool/internal/parser`) | the file under construction | one method for each cursor kind | libclang | nested and anonymous declarations get a name that the references to them use |
| passes and drivers (`_xtool/parse`, `cmd/llcppg`, `cmd/gogensig`, `_xtool/llcppsymg`, `_xtool/llcppsigfetch`) | files: llcppg.symb.json, llcppg.pub, go.mod, Go files | read, convert, write | everything | what is on disk after success belongs together; a failure or interruption is not taken for a result |
| configuration generator (`cmd/llcppcfg`) | the include list, the maps of absolute and of relative paths | expand, sort, deduplicate | pkg-config, clang | the list has every header once, and an includer before what it includes in what one flag adds |
| Go source writer (`internal/gowrite`) | the next synthetic position | `anchorDecls` and what it calls | go/format | positions increase; comments do not collapse into declarations |
| AST exchange (`internal/unmarshal`, `_xtool/internal/parser/marshal.go`) | none | one function for each node | gogensig | decoding inverts encoding |
| test runner (`cmd/llcppgtest`, `demo`) | a pipe, a wait group, a goroutine for each package, child processes, temporary directories, logs | list, generate, run the demos | pkg-config, llcppcfg, llcppg, go, llgo | ends; waits for all it started; the two programs of a package never overlap; a failing demo is reported |
| the rest: clang tools, libclang binding, AST and token types, command-line helpers, comments, `cl/compile.go` and its siblings | none that matters | | | |

`PROJECT.json` has the same list under `components`, with what is modelled of
each, and under `hazards` the points of the code that are hard to test, each at
its line, with the properties that would catch it going wrong.

## 2. Modules

Each component has a module with its state and actions, a `...Safety` module
that states the properties, an `MC...` module with instances for TLC, and,
where there are theorems, a `...Proofs` module.

### Convert: declarations to Go declarations

*Convert.tla* is `Converter.Process` driving `Package`. The record `p` is the
`Package`: `info`/`count` are `ProcessSymbol`; `scope` is the go/types scope;
`types` are the `gogen.TypeDecl`s; `incs`/`tracked` are the slice and the map of
`IncompleteTypes`; `pubs` is what becomes llcppg.pub; `cur` is gogen's current
file. The methods of `Package` call each other, so each is an operator from a
package record to a package record, in the order in which the code performs its
changes; an error or a panic of gogen is the field `err`, after which the
converter stops. An action is one iteration of a loop of `Process` or of
`deferTypeBuild` with everything it calls.

| action | code |
|---|---|
| `ProcessMacro(m)`, `ProcessDecl(d)` | an iteration of the loops of `Process`, through `ConvMacro`/`ConvDecl` |
| `EndDecls` | `Package.Complete`; the range of the deferred list is evaluated here |
| `BuildNext` | one entry of `deferTypeBuild` |
| `EndBuild` | `IncompleteTypes.Clear` |

C's rules limit the input: `Nameable` lets a struct tag be mentioned at any time
and a typedef only name what has been mentioned before, which is what a header
that compiles does. Names are abstract but for the one thing that matters:
`TypeGo`, `ConstGo` and `FuncGo` say which C names meet in a Go name.

*TypeLife.tla* is the promise without the machinery: a C type gets a Go name of
its own, keeps it, is defined, and a package that is written has no type left
without a definition. `TypesLive` is the refinement, with the names and the
completed types of `p` as the mapping.

### TypeConv: C types to Go types

*TypeConv.tla* converts a sequence of declarations with one `TypeConv`, as the
package does. What it keeps between them is the context `ctx` (parameter, record
or neither), which function types and records set and put back. Each method
takes the context and returns it beside the type, so that a path that forgets to
restore it shows in what is converted next. `ToType` is a recursive function on
the types that occur; `Handle` is its switch and has one handler for each method,
which gets the conversions of the parts. `Depth` gives the types and how deep each
is nested, which is all the recursion needs: a C type is a finite tree, and what
it is made of is less deep. `WellFormed` is what the parser makes of a type that
compiles: `...` is a last parameter and nothing else.

| action | code |
|---|---|
| `ConvertType` | `ToType` for a function, a record or the type of a declaration |
| `ConvertMethod` | `ToSignature` with a receiver: the first parameter is left out |

Each Go type carries its layout (`lay`), as `types.Sizes` of the gc compiler
computes it; `RecordTypeToStruct` chooses by it the field that stands for a union.
Against it `TypeConvSafety` sets `CLayout`, the sizes of the
C ABI on a 64-bit Unix: the reference the bindings are linked with.

### Symg: the symbol table

*Symg.tla* visits cursors, sorts the queue and names it, finds the libraries,
lists them, and intersects. `visited` … `nameCounts` are the fields of
`SymbolProcessor`; `found` remembers the source order, `disk` which library
files there were. Which library files exist and which nm can list is chosen
freely, when they are looked for. The libraries are listed in any order: their
symbols are put into one set, in which the code's order leaves no trace.

### Parser and Wire: from C declarations to an AST, and across JSON

*Parser.tla* is llcppsigfetch's walk over one translation unit. The unit is a
sequence of libclang cursors in source order, each with the record it is in and
the type it uses; while `phase` is `"source"` the unit is written, one legal C
declaration after another, so every unit up to `MaxCursor` declarations is
walked. `Legal` is C: a complete type where one is needed, one kind and one
definition for a tag, a typedef that has a tag's name only as another name for
it. The cases of `visitTop` are actions of their own (`VisitEnum`,
`VisitStruct`, ...), each with the whole of the `Process...` method behind it.
The methods build AST nodes and keep nothing, so they are operators with the
names they have in the code; a node is a record with a field `kind`, the
`_Type` of its JSON object. What the code computes by recursion on cursors
(`PostOrderVisitChildren`, the fields of nested records, `getActualType`) is a
recursive function of the cursor: `PostOrder` and `NestedFields` have at a cursor
what comes from it and from those after it in the same record, which is the order
`clang.VisitChildren` goes (`FirstChild`, `NextChild`), and `Resolved` is where a
chain of typedefs ends.

*Wire.tla* is the JSON between llcppsigfetch and gogensig: what each kind of
node is written with (`Written`), what each unmarshaler reads and which kinds it
accepts there (`...Reads`), and the two recursions, `MarshalWith` and `NodeWith`,
each one step of a function on what is inside the node that is written or read
(`Inside`): TLA+ wants the domain of a recursive function, and what a node holds,
level by level down to `MaxDepth`, is that domain. Parser has an instance of the
module with `MaxDepth` = 3 * `MaxCursor` + 4, which is as deep as the AST of a
unit can be, since a nested record is three nodes below the one around it; the
action `Send` hands `file` to gogensig as `File(Marshal(file))`. That
an empty or nil list is written as null and read as an empty list, and that a nil
`FieldList` is not one without fields, is part of the conversion.

### Deps: the dependency packages

*Deps.tla* has a stack of frames in place of the two recursions: a frame is a
package and what its loop has left. `ImportNext`, `ImportReturn`,
`RegisterNext` and `RegisterReturn` are the iterations and the returns. A
package is a vertex of a graph chosen initially: every llcppg.cfg the instance
allows, cycles included. Its result `scope` is where `Convert!Fresh` starts.

### Header: which headers belong to the package

*Header.tla* runs clang on each interface header alone and then on all of them.
A run is a stack of include directives; a header with an include guard is
entered once. A path is the sequence of components that `strings.Split` makes
of it, so that `filepath.Join` dropping the empty first component of an absolute
path, and `strings.HasPrefix` ending within a component, are there to be seen.
`Classify` includes the FileMap that `parse.Do` builds.

### Pipeline: invocations

*Pipeline.tla* is `cmd/llcppg` as one step after the other on a directory:
symbol table, parse, go mod init, go get, read the table, convert, llcppg.pub,
the Go files in any order, go fmt and tidy. Every step may fail, every write may
be cut short, and between invocations the user changes the project or edits the
symbol table. Files carry what they were made from.

### GoWrite: the positions of a generated file

*GoWrite.tla* is `anchorDecls`: one step gives one position, in the order of the
walk; `next` is the counter `pos`, a comment adds the lines of its text, and
`Register` builds the line table of the synthetic file. `SetLinesOk` is the
condition under which `token.File.SetLines` accepts it; the code panics when it
does not.

### IncludeList: the include list of llcppcfg

*IncludeList.tla* is `sortIncludes`' loop over the flags of pkg-config: `ParseFlag`
walks a directory and sorts what clang accepts, `Add` is an iteration of
`AddCflagEntry`, with the maps `absPath` and `relPath`. The sort is not stable
and so any order it may leave is explored. `ParsePanics` is the nil dereference
for a header with a colon in its name.

### DemoRun and TestRun: the test runner

*DemoRun.tla* has the modes `-demos` and `-demo`: demos one after the other, each
a list of steps that may fail, with the temporary directories that its deferred
calls remove and the log it leaves. *TestRun.tla* extends it with the package
modes, in which main, the goroutine that reads pkg-config's list, one goroutine
for each package and the child processes interleave.

| action | code |
|---|---|
| `GetPkgs`, `List`, `Listed`, `ListerPanics`, `ReadAll` | `getPkgs`, `RunCommandWithOut`, `PkgList`: the pipe and both of its ends |
| `EnterDir`, `CfgReturns` | an iteration of `runPkgs`: llcppcfg, and the callback that starts a goroutine |
| `GenStart`, `GenReturns` | that goroutine: llcppg and `wg.Done` |
| `EndLoop`, `Wait` | `wg.Wait` |
| `Exit(c)` | a child process ends |
| `StartDemos`, `StartDemo`, `EndDemos` | `RunAllGenPkgDemos` |
| `DemoStep`, `RunExample`, `EndExamples`, `NoLogDir` | `RunGenPkgDemo` with its deferred calls |

A panic ends main and the goroutines; a child process goes on.

### How they fit

`Parser` says which declarations, in which order, reach `Convert`, which takes
more orders than the parser makes; `Header`'s FileMap is `Convert`'s `FileType`; `Symg`'s table is `Convert`'s
`FuncGo`; `Deps`' scope is `Convert`'s `DepName`; what `Convert` only knows as
references, `TypeConv` takes apart; `IncludeList` makes `Header`'s include list;
`Pipeline` says when each of these is read, and from which files, and a step of
`TestRun`'s goroutine is a whole behaviour of `Pipeline`. The modules share no variables: the passes
meet only in these values, each of which the next module takes as a constant and
explores freely within its assumptions.

## 3. Runs

Runs that pass:

| run | instance | shows |
|---|---|---|
| `convert` | 24 macros and declarations: structs that refer to each other and share a Go base name, chained typedefs, a third-party struct, a private name; functions, methods, types, enum items and macros against each other and against a dependency; two interface, one implementation and one third-party header; every input of up to 5 nodes | forward declaration, implicit declaration, completion and deferred typedef in every order that C allows; nobody is silently overwritten, gogen's panics are not reached, llcppg.pub is right; the refinement of TypeLife |
| `typeconv` | functions, methods, records and unions of up to two members out of 24 types, alone and after a declaration that fails or sets the context at depth | a Go value has the layout of the C object; arguments are passed as C passes them; no context leaks into the next declaration |
| `symg` | up to 3 of 14 cursors, with both kinds of customisation, an ignored and a redeclared symbol, constructors, a destructor, a private method and a static function; two directories, two libraries, all subsets of library files, each readable or not | naming by rank, precedence of customised names, links |
| `deps` | all graphs with up to two dependencies for each of three packages (self-dependencies, cycles, diamonds; one package may name the C library by its path), five root lists, any read failing | ends; registers exactly what is reachable; the depth-first order decides names |
| `header` | all graphs over six include directives between five headers, four layouts of directories, three include lists, with and without include guards and mix | interface headers by the include list; everything classified; the root directory |
| `parser` | every C unit of up to four declarations over two tags, two typedef names (one of them a tag's), a function whose type may be a typedef, a macro and an include | each name gets one declaration, whatever is nested in what and however typedefs lead back to a tag; no enumerator is lost; contents before containers; gogensig gets the AST that was sent |
| `pipeline` | two projects that share a Go file, all flags, any number of invocations | what success means for the files, after any history of failures |
| `gowrite` | files of up to two declarations with doc comments of one and of three lines, nil comments, functions with and without a type or a body, empty interfaces and others | source lines neither collapse nor drift apart; the line table is accepted and holds every anchor |
| `include` | up to three flags over `/inc`, `/inc/foo` and `/lib` in any order and repeated; four include graphs, headers clang rejects, an excluded directory, a file that is no header, one with a colon | each header once; an unnumbered entry leads back to its header where directories are not nested; a header comes before those it includes, except exactly where a flag has the included one before any has the includer |
| `testrun` | three packages, five entries with demos (one without llcppg.cfg, one unreadable, one hidden), all modes, every step failing or not, every interleaving | what "finished!" means; no overlap in a directory; verdict and leftovers of the demos; the program ends |

The bounds: five nodes allow use, forward declaration, definition, redefinition
and a typedef of one name, which is one more than any property needs to be
violated by the faults listed; three cursors allow two contenders and one that
is customised; three packages have every shape of cycle and diamond; `MaxStack`
in `deps` is one more than the number of packages and a deeper recursion is an
`"overflow"`, so `Terminates` also says that the recursion never goes deeper;
four cursors in `parser` are a record with two levels of nesting and a
typedef, or a chain of two typedefs on a forward-declared tag that is defined
later; `MaxDepth` in `header` is the number of headers, and only headers that include
no cycle go without a guard; two members in `typeconv` are one that may set the
context and one that would feel it, and the types nest three deep; two
declarations in `gowrite` have each kind after each; three flags in `include`
are a directory, one inside it and a repetition of either; three packages in
`testrun` are one whose llcppg runs, one whose llcppg has ended and one whose
llcppcfg runs.

Deadlock is checked in every run: each module has a `Terminated` step for the
states in which the code has returned, and `Pipeline` can always be invoked
again.

Runs that find the code departing from what its documents or comments say:

| run | what is said | what happens |
|---|---|---|
| `common_root` | `["/a/b/c/d", "/a/b/e/f"]` has the parent `/a/b` (header.go:120) | it is `a/b`, relative to the working directory, so implementation headers become third-party |
| `anon_nest` | named nested structs get declarations of their own (llcppg.md:179) | one that is nested in an anonymous struct gets none, though a field refers to it |

Each is a finding in `PROJECT.json`, with the line quoted. The passing runs'
instances stay away from these inputs, so that they show what holds otherwise.

More departures were met and have no run of their own. The modules have them all
the same, where a module is named; the properties leave them out by a condition
or the instances by their inputs.

Names and types (`Convert`, `Symg`, `TypeConv`):

- A reference to a struct `Foo` that is nowhere declared gets the Go type of
  another C name whose Go name is `Foo` (package.go:333).
- The second of two functions mapped to one method name ends the conversion with
  an error, where package.go:299 says "unreachable"; a symMap entry `goFuncName`
  of a class method leaves it a method, where llcppg.md:878 promises a function
  (parse.go:163).
- Constructors and destructors are not asked for their access (`Collected`).
- An enum that a struct field mentions before its definition, as GNU C allows,
  becomes two Go types, because `NewEnumTypeDecl` does not look at what the
  implicit declaration registered.
- `GetUniqueName` counts this run's names only, so a macro whose trimmed name a
  dependency has taken fails the conversion (`Taken`). For a tag that is
  referred to before its definition, the error is dropped (package.go:433): the
  type is declared with the empty name, and llcppg.pub gives the dependency's
  name for it.
- A typedef of a type that a third-party header mentions first is built before
  that type (`Deferred`). The map of types is keyed by the C name alone, so a
  tag and a typedef of one name share an entry. A method whose receiver has no
  named type is not refused.
- `wchar_t` is an int16 and `long double` a float64; a union whose largest
  member does not decide its alignment has another layout than in C, and so has
  a struct that ends in a member without size, such as GNU C's empty struct,
  because gc leaves a byte behind it (`Expressible`); a pointer to an array in a parameter becomes a
  pointer to a pointer (type.go:114).

Files and paths (`Header`, `IncludeList`, `Pipeline`):

- A header of `/opt/include` counts as one of the root `/opt/inc` (`InRoot`).
- Entries `N:foo.h` have no reader: nothing in `_xtool` takes the number off,
  and a header of a nested -I directory can be found under another's path
  (`Resolves` says when it cannot).
- The include list is sorted within one flag and appended flag by flag
  (cfg.go:192, types.go:63): with `-I/inc/foo -I/inc`, or a dependency's directory
  before the library's, a header of the first directory is listed before one of
  the second that includes it, where src/README.md:415 asks for the includer first
  (`OfferedBefore`; `IncludersFirst` says that it is this case only).
- A colon in the name of a header ends llcppcfg with a nil dereference
  (types.go:23). The flags -exts and -excludes never arrive, since the run mode is
  never set to include them.
- An empty mapping leaves the `llcppg.pub` of an earlier invocation in place
  (`PubAfter`), and Go files of headers that are gone stay. After a failure
  behind `go mod init` the same command fails at once, because there is a
  go.mod already.

The test runner (`DemoRun`, `TestRun`):

- `cd` is a program on few systems, so that the package modes panic at the first
  package on the others (`EnterDir`).
- main may print "finished!" for the part of the list it has read before the
  goroutine with pkg-config's error panics (`ListerPanics`; `AllWaited` allows
  just this).
- `PkgList` keeps every line of pkg-config's list (llcppgtest.go:75), and two
  goroutines would share a directory if a package were in it twice; `Listed` has
  each once, and `OneInDir` rests on it.
- The directories for llgo's own files are never removed (demo.go:171,
  `TempRemoved`), and where comments say "will panic" (demo.go:63) and "skip"
  (demo.go:46) an error is returned.

### Fairness

Two modules have a liveness property. `Spec` of `Deps` has weak fairness of
`Next`: `InitDeps` runs on one goroutine that waits for nothing but files and the
go command. `Spec` of `TestRun` has weak fairness of main, of the loop over
demos, of the goroutine that lists packages, of each package's goroutine and of
the end of each child process: Go's scheduler runs every goroutine that can go
on, and pkg-config, llcppcfg, llcppg, go and llgo are taken to end, because the
runner has no timeout of its own. No strong fairness is needed anywhere: what is
enabled in a waiting goroutine stays enabled. The other specifications claim
safety only.

## 4. Proofs

TLAPS checks the following for all values of the constants that satisfy the
named assumptions of the modules.

**ConvertProofs.** `TypeCorrect`, `InitialisedInOwnFile` and `NamesApart`:
`Spec => []TypeOK`, `[]InitInOwnFile`, `[]GoNamesApart`. Two types having
different names is not inductive: it needs that the scope binds the Go name of
every type to that type's own declaration (`OwnName`), which `substObj` could
undo if it did not refuse a declared name. The invariant is a predicate `Sound`
on package records, and there is one lemma for each method of `Package`, which
says that it keeps a sound package sound; the step lemma for an action then
composes them as the code composes the calls.

The second part of the module is what the maps of `Package` say of a type, for
every input: `OneTypeEach` (`OneGoType`), `TrackedWhileIncomplete` (`TrackedExactly`),
`DefinedOnce` (`AllDefinedOnce`), `ReferencesResolve` (`RefsResolve`),
`BindingsKept` (`BindingsStable`, of steps), and `LivesAsPromised`: the
converter implements TypeLife (`LifeInit` and `LifeStep` map the initial state
and each step).

They have one hypothesis about C names, `CSpaces`: a declaration of a record has
a tag for its name, one of a typedef or of an enum has not. C has tags in a space
of their own, and a typedef with the name of its tag is dropped by the parser
(parser.go:432). The hypothesis is needed: `typesMap` is keyed by the C name alone, so that a tag and a typedef of one name
would share an entry. The instance of `convert` satisfies it (an `ASSUME` of
`MCConvert`).

No single property is inductive, and neither is their conjunction, because a
method of `Package` goes through states in which a node is registered and not
yet declared, or declared and not yet tracked. The invariant `TypeInv` has two
parts. `Apart` holds of every package, a failed one included: a C name has one
type, initialised at most once; a substituted name in the scope is a type of
that name or a dependency's; a deferred entry is for one node; what a reference
got is that name's. `Live(s, X, B)` lasts to the first error: a type has no
underlying type exactly while it is tracked, unless it is one of `X`, the nodes a
method is about to declare, or of `B`, the entries `deferTypeBuild` is past;
everything tracked has an entry that will build it; the type an entry waits for
is in the scope or tracked. The second makes `AllDefinedOnce` come out at the
end: when the loop is past the last entry, `B` is everything that is tracked.
That the loop ranges over the slice as it was when it began does no harm because
a lookup from within it only meets names that are known, so nothing is appended
(`next.last = Len(p.incs)` in `TypeInv`). One lemma for each method says what it
does to `Good(s, X)` and that it `Keeps` every binding, name and definition; one
for each action composes them.

The third part is about Go names. `NeverPanics` (`NoPanic`): gogen, which
panics, is never asked to declare a name again or to substitute a declared one.
`PubsTell` (`PubsTruthful`): what llcppg.pub records for a C name is the name of a
type made for it. Besides `CSpaces` they have the hypothesis
`GoSpaces(Nat \ {0})` about internal/name and the tables of llcppg.cfg:

- `SuffixCount` leaves the first user of a name as it is, and two objects only
  come to one name if they ask for one name at one rank, so no C name may convert
  to something that ends in the `__n` of another (name.go:93 appends it whatever the name is,
  and `Symg` shows with `SuffixApart` what happens otherwise);
- the Go name of a tag is no type of a dependency and not the C name of a type
  that has another Go name. Otherwise `ImplicitForwardDecl` finds its name taken
  and declares an empty name, which llcppg.pub does not tell, and gogen panics at
  the second such tag;
- nothing but the tag itself is given, in Go, the name a tag has in C. Otherwise
  the substitution of the C name meets a declaration.

Functions with methods and types may want the same name, dependencies may take the
names of typedefs, constants and functions, and any number of objects may share a
base. The instance of `convert`, where all of this happens, meets the hypothesis
for ranks up to 16, more than five inputs can count to (an `ASSUME` of
`MCConvert`).

The invariant `NameInv` says, until the first error: a type has the Go name it was
registered with, and that name has been counted; what the scope declares has been
given at a rank already counted, so the next rank is free; what the scope
substitutes is a type of a dependency or one whose Go name has been counted; the
C name of a tag registered under another name is not declared (`Names`); and
llcppg.pub tells the types made (`Told`). A function is the delicate case: its Go
name is found free before its signature is converted, which may declare types,
and is declared after. By then it has been counted, so that no type in the
signature gets it (`KeepsFree`).

The fourth part is about the order of definitions. `TypedefsInOrder`
(`TypedefAfterReferent`): a typedef is never initialised before the type it
names. Besides `CSpaces` and `GoSpaces` it has the hypothesis `Referents`, about
the types that a converted typedef names directly (`Referent`):

- a declaration that mentions one of them is itself converted: it is not left out
  for its file, nor a function left out by the table. Two cases are free, in which
  nothing can go wrong: a dependency defines the type, or it is the tag that a
  third-party declaration itself declares, for then `locMap` has the tag and a
  typedef of it is refused;
- two declarations of one thing mention the same of these types, since the
  converter only looks at the first it meets.

The hypothesis is needed. Where a skipped third-party function takes a
`struct B *`, and `typedef struct B BT` follows in a header of the package, the
tag has been mentioned but no declaration of it has reached gogensig. The test
for a deferred definition (package.go:479) comes before the implicit forward
declaration, finds nothing tracked, and the typedef is built while `B` has no
underlying type. The instance of `convert` satisfies it (an `ASSUME` of
`MCConvert`).

The invariant `OrderInv` says that a typedef that is built names a type that is
(`AliasOK`); that the input has mentioned nothing a typedef may name without a
type having been made for it, or its tag being a third party's, because a
declaration that has been converted has left a type for what it mentions
(`RefsMet`); and that the entries of `deferTypeBuild` are in an order in which they
can be built: the type an entry waits for is built or has an earlier entry
(`Ordered`). When the loop comes to an entry, everything before it has been built,
so its type is there (`EntryReady`, `BuildOrder`). What a name in the scope stands
for does not change under way: a typedef or an enum is bound to its own
declaration from the start (`PlainBound`), a tag is when the loop begins (`Bound`).

**SymgProofs.** `GoNamesDistinct`: `Spec => []NamesDistinct`, provided a suffix
never makes one wanted name into another (`SuffixApart`). The invariant says
that each named entry of the queue carries a number at most the count of its
name, different for entries that want the same; the queue has each symbol once
because `Visit` and the stable sort keep it so. Without `SuffixApart` the
theorem is false: functions `X`, `X` and `X__1` collide. `CustomPrecedes`:
`Spec => []CustomGiven`. After the sort no customised entry comes behind one
that is not (`CustomAhead`), and every user a name has been counted for is an
entry before the one that is named next; so a first customised user of a name
is its first user. `EntriesLink`: `Spec => []TableLinks`; the file listed for a
library is the one in the first directory that has it, which exists because `<`
is well-founded on the natural numbers, and `symbols` is what those files list.
`SuffixIsRank`: `Spec => []NamedByRank`, without a hypothesis. `counts[n]` is the
number of named entries of the queue that want `n` (`RankInv`); after the sort the
queue is the collected symbols in another order, in which two symbols of one
class keep the order they were met in, so the entries before one in the queue
are, by a bijection, the symbols that precede it in the documented order, and
sets in bijection have one cardinality.

**DepsProofs.** `RegistersReachable`, `PublishedVisible` and `DependenciesWin`:
the three safety properties of `deps` for any packages, any llcppg.cfg files and
any bound on the stack. Both passes are depth-first traversals, and the
invariant says of each what such a traversal keeps: whatever a visited package
depends on has been visited or is still to do in a frame of that package
(`ImportInv`, `RegisterInv`). When the root returns nothing is left to do, so the
visited set is closed, and it is reachable throughout. That a dependency wins
needs more: each frame is reached from all frames below it (`Chained`). If a
package reaches itself through no cycle, then nothing it reaches can be on the
stack when it returns, so all of it has been registered, names included
(`DependenciesFirst`).

**PassesProofs.** Of Pipeline: `EndsCurrent`, `GeneratedFromTable` and `FailureIsolated`:
the three safety properties of `pipeline` for any set of projects. `Flow` is
the strengthening: from `ReadTable` on the table in memory is the one on disk;
before writing starts all files of the project are to be written; a file that
is neither to be written nor failed has been made from that table.

Of Parser: `DefinedOnceAlways`, `EnumsKeptAlways` and `ContentsFirstAlways`:
`ParseSpec => []DefinedOnce`, `[]EnumsKept` and `[]ContentsFirst` for any names and
units of any length. They have the hypothesis `~AnonNesting`, that no enum and no
named tag is inside an unnamed record: without it `DefinedOnce` is false, as
`anon_nest` shows. The other one, `NilIsNoNode`, says that nil is not a node. The
invariant `ParserInv` has three parts. `UnitOK` and `ChainsOK` are what `Legal`
leaves of C in a unit that is written: records nest in order, types are declared
before they are used, a name has one meaning, and what is used by value is
complete outside the records around the use. They are kept because a new cursor
changes nothing that is said of those before it (`ChainPrefix`, for chains of
typedefs). `DeclsOK` is the walk: there is a sequence of cursors that lists, once
each, those that have been dealt with and yield a declaration, the declarations
are theirs, and it is in post order (`Before`: a cursor comes before one that is
later and not inside it, and before one that is around it). For that
`PostOrderLists` goes over `PostOrder` from the last cursor to the first: what it
has at a cursor is the cursor, what is inside it and what follows it in the same
record (`FromParts`), each part in order and all of one before the next.

From there `DefinedOnce` is that two cursors never give one name a meaning
(`MeansOnce`): a typedef with the name of a tag leads to that tag, so it yields
nothing. `EnumsKept` is a bijection. For `ContentsFirst`, every type that a record
holds, at any depth, is a pointer or built-in, an array of int, an unnamed record
inside it, or a name whose definition is `Ready`: before the record and not around
it, or inside it (`HeldContent`, `ValueUse`); and what is ready comes earlier in
post order. That recursive functions are what their definitions say is shown as
for TypeConv below (`ChainDef`, `UpwardExists`, `LevelDef`), by `OnNat`.

`ReceivedAlways` is `ParseSpec => []Received`. The walk does not end in a panic,
because the type of a function always comes to a function type, and what gogensig
has is the AST of the walk. The second half rests on `RoundTrip`, which is about
no walk: `File(Marshal(n)) = n` for any AST `n` in which each node has the fields
of its kind and holds the kinds its unmarshaler accepts (`Fits`), nested no
deeper than the bound (`Short`; `Whole` is both). For each kind, what is written
is compared with what is read (`KindFacts`): the same fields, and every kind that
is accepted has an unmarshaler. A node is inverted if its parts are
(`StructBack`), and from there the proof is by height: Wire's two recursions have
solutions because a node's parts are less high than the node (`AcrossExists`),
`MarshalParts` says that the JSON of a node holds the JSON of its parts and no
more, so that `Inside` finds there what it found in the AST, and `RoundTrip` goes
from the leaves up. `Sent` then goes over the methods of the walk: what each
builds fits, and how high it is, up to `NestedSent`, the induction from the last
cursor to the first that gives a record three nodes for each record inside it,
and `FileSent`, that the file of a unit is no deeper than the bound. The
hypothesis `NullsApart` says that nil and an error are no nodes and differ, and that
the error is none of the values a node has in a plain field.

**GoCodeProofs.** `LayoutKeptAlways` and `ParamsPassedAlways`:
`Spec => []LayoutKept` and `[]ParamsPassed` of TypeConv, for types of any depth and
declarations in any order. `ToType`, `CLayout`, `Expressible` and `Agrees` are
recursive functions of a type, and TLA+ says nothing of such a function until it
is shown that one satisfies its definition. The library's theorem for that has an
operator as a parameter, so it is done by hand, for the four at once
(`Recursion`): each definition looks only at types that are less deep
(`RecursionSame`); two functions that satisfy it up to a depth agree up to there
(`UptoUnique`), one that does for each depth exists (`UptoExists`), and together
they are the solution (`Solution`). Induction on numbers and on types (`OnNat`,
`OnExpr`) comes from `WFMin`: a set of types without a least counterexample is all
of them. In the same way the loops over fields and members come to an end
(`VarsResult`, `PlaceResult`).

`Kept(e)`, by that induction, is what one call of `ToType` promises: in every
context it returns with the context it was given, and fails or gives a type that
is `Right` for `e`. There is one lemma for each handler. `Right` says more than
the properties do, because the caller looks at the result: that only `void`
becomes `Void` (a pointer to it is a `c.Pointer`, a result of it none), that a
signature and a named function type have the size of a pointer, that a parameter
is never an array, and that the fields of a struct have the layouts of the
members one by one. In a union the field with the largest size has the layout of
the whole: `FitsUnion` gives it for some member of that size, and the first of
the largest is no smaller. From `KeptAll` the invariant of the state is short: the
context is `"Normal"` between declarations.

The module extends GoWrite as well (whose `WriteInit`, `WriteNext` and `WriteSpec`
are named apart for that) and has its `LinesAlwaysKept` and `AlwaysInTable`, for
any file and any base: the counter is always behind the lines of the last anchor,
and the table has one line for each position up to the counter.

**IncludeProofs.** `ListedOnce`: `Spec => []EachOnce` for any flags and any tree
of directories. `absPath` and `relPath` are exactly the headers and the relative
paths of the entries; an entry with a number was made for a flag that has been
reached, and within one directory a relative path has one header, so that a
number and a path never repeat; each header a reached flag offers is listed or
still to add. `LeadsBack`: `[]Resolves`; an entry without a number is of the first
flag under which its path is found, since a later one with the same path would
have got a number (`PathInv`). It rests on what the assumption of the module says
of relative paths: headers with equal ones are in a directory of one name and
have one extension, so that both or neither are listed. `IncludersLead`:
`[]IncludersFirst`, for nested and repeated directories too; what `sort.Slice`
leaves has neighbours in order, hence all pairs, as the first pair out of order
would have a neighbour; what is listed when a flag is parsed, earlier flags offer,
and what the flag adds, none does, so that the list is in the order of the first
flags that offer its headers and sorted for each flag (`SortInv`); a header that
includes another has all of its dependencies and the other one too, so strictly
more.

**HeaderProofs.** `IncludeListRules`: `Spec => []InterListed`, and
`ClassifiesAll`: `[]AllClassified`, for any include graph, include guards and
include list. Alone, each header of the list is entered at depth 1 when clang has
entered nothing, so it is never skipped; the headers reported, the one about to
be entered and those left are the list (`Alone`). The run on the composed header
is a depth-first traversal: what an entered header includes has been entered or
is on the stack, everything on the stack is reachable, and what has been entered
and is not an interface header is in `others` (`Together`, `Found`). When the stack
is empty the entered headers are closed under inclusion. `LocalImpls`:
`[]ImplsAreLocal`, if only the first component of a path can be empty and no
header has the path of a directory (`CleanPaths`, which the instance of `header`
satisfies). There is a longest common beginning of the directories; with one
directory or relative paths `filepath.Join` leaves it as it is; made absolute it
is the longest common beginning of the absolute directories; and a header whose
path begins with it has a directory that does, or a look-alike on its path.

**TestRunProofs.** `WaitsForAll` and `NeverTogether`: `Spec => []AllWaited` and
`[]OneInDir` for any number of packages, in every interleaving. The counter of
the wait group is the number of packages that are still in the loop, are at
llcppcfg, or have a goroutine that has not called Done; a child process belongs
to the step of its package that started it. `NothingLeft` and `VerdictsHold`:
`[]TempRemoved` and `[]DemosJudged` for any demos. The demo being run is the only
one with a temporary directory that will be removed, its log ends with the one
failure it may have, and each entry that has been gone through either passed or
is among the failed ones.

Only model-checked:

- of Convert, `TypedefAfterReferent` for inputs that `Referents` excludes, where it
  is false, as explained there;
- of Parser, any unit with `AnonNesting`;
- `Terminates` of Deps and `Ends` of TestRun, which are liveness under fairness
  and also out of its reach.

## 5. Not modelled

- Literals and comments: `expr.go` and `comments.go` compute a result from one
  node and keep nothing. Of a name in a signature or a record only is kept
  whether there is one.
- libclang, clang, nm, ld, go: external. What they may answer is an input of
  the modules.
- C++ in the parser (namespaces, classes, methods, references); the kinds of
  built-in types, the tokens of macros and the comments, which the walk copies;
  unions apart from structs, which it treats alike.
- `gogensig` after it has read the AST: the second half of `Pipeline` as a
  program of its own.
- The flags of llcppcfg, its normalisation of package names and how it runs
  pkg-config; the arguments the test runner passes to the programs.
- Command-line helpers, AST data types, the libclang binding, and
  `cl/compile.go`, `decl.go`, `blockctx.go`, `type_and_var.go`, which no command
  reaches.

## 6. Plan

The modules of the plan are done. In order of what is worth most, what is left:

| | question | theorems worth proving |
|---|---|---|
| Convert | what becomes of a typedef of a tag that only skipped declarations mention, an input `Referents` excludes: a run of its own | `TypedefsInOrder` without the second part of `Referents`, for redeclarations that mention different types |
| Parser | C++: classes, namespaces, methods | `Received` with `AnonNesting` too, for which the order of the declarations does not matter; for C++ the part of `ReceivedAlways` about the walk, since `RoundTrip` covers its nodes |
