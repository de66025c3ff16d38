------------------------------- MODULE Driver -------------------------------
(***************************************************************************)
(* tcc, the program that runs the passes (src/src/tcc/tcc.c with the       *)
(* command lines of src/config/sys/x86_64-linux.c): cpp, rcc, copt, a C    *)
(* compiler and an assembler for each source file, then xlate.pl, the C    *)
(* compiler on what it wrote, and the linker.                              *)
(*                                                                         *)
(* A file name is <<directory, base, suffix>>, the base split at its dots.  *)
(* The contents of a file are the set of sources whose text went into it;  *)
(* Garbage marks what a pass left that did not finish.  A pass is a child  *)
(* process: it ends when it likes, and is waited for in any order with     *)
(* other children.                                                         *)
(***************************************************************************)
EXTENDS Naturals, Sequences, Functions

CONSTANTS CommandLines,   \* each a sequence of options and file names
          Disk            \* the names of the files that exist beforehand

Garbage == <<"garbage">>

Names == STRING \X Seq(STRING) \X STRING
Args == UNION {Range(line) : line \in CommandLines}

\* Nobody names the driver's own temporary files, or the file x...c that it
\* derives from the output's name, and -o is not followed by another option.
IsOption(arg) == Len(arg) = 1
Own == {"tmp", "x"}
Given(name) == name \in Names /\ name[1] \notin Own
ASSUME DriverAssumption ==
  /\ \A line \in CommandLines :
        /\ line \in Seq(Args)
        /\ \A k \in DOMAIN line : line[k] = <<"-o">> /\ k < Len(line) => ~IsOption(line[k + 1])
  /\ \A arg \in Args : IsOption(arg) \/ Given(arg)
  /\ \A name \in Disk : Given(name)

VARIABLES args, argv, next,             \* of main: what is left to sort out, the files named, the next of them
          flags, outfile,
          pc, job, then,             \* where the driver is, in which file name
          status, awaited, children, \* of callsys
          files, rmlist, llist, errcnt, exit,
          ghost                      \* history: what befell the run
vars == <<args, argv, next, flags, outfile, pc, job, then, status, awaited, children, files, rmlist, llist, errcnt, exit, ghost>>

-----------------------------------------------------------------------------
(* Names and options.                                                      *)

basename(name) == name[2]
suffix(name) == IF name[3] = "tc" THEN "c" ELSE name[3]
concat(base, end) == <<"", base, end>>
Dotted(name, end) == <<name[1], IF name[3] = "" THEN name[2] ELSE Append(name[2], name[3]), end>>
Sources == {"c", "i", "s"}
OneLetter == Sources \cup {"o", "a", "h"}

Temp(end) == <<"tmp", <<"tcc">>, end>>
TempX(end) == <<"tmp", <<"xtcc">>, end>>

\* The names of the files between the passes.
Between(end, base) == IF flags.keep THEN concat(base, end) ELSE Temp(end)
xname(end) == IF flags.keep THEN <<"x", outfile, end>> ELSE TempX(end)

NoFlags == [E |-> FALSE, S |-> FALSE, c |-> FALSE, keep |-> FALSE, pipe |-> FALSE, peephole |-> TRUE, verbose |-> 0]
opt(f, arg) ==
  CASE arg[1] = "-E" -> [f EXCEPT !.E = TRUE]
    [] arg[1] = "-S" -> [f EXCEPT !.S = TRUE]
    [] arg[1] = "-c" -> [f EXCEPT !.c = TRUE]
    [] arg[1] = "-keep" -> [f EXCEPT !.keep = TRUE]
    [] arg[1] = "-pipe" -> [f EXCEPT !.pipe = TRUE]
    [] arg[1] = "-nsp" -> [f EXCEPT !.peephole = FALSE]
    [] arg[1] = "-v" -> [f EXCEPT !.verbose = @ + 1]
    [] OTHER -> f

\* Mutated form: preprocessed sources are not protected from -o.
Mut_Overwrites(name) == suffix(name) = "c"

Overwrites(name) == suffix(name) \in {"c", "i"}

-----------------------------------------------------------------------------
(* Child processes and callsys.                                            *)

NoJob == [name |-> <<>>, base |-> <<>>]
Command(tool, ins, outs) == [tool |-> tool, ins |-> ins, outs |-> outs]
Child(cmd) == [cmd |-> cmd, st |-> "runs", code |-> "ok"]
Code(c) == children[c].code

\* What a pass that succeeds puts into its output.
Text(ins) == UNION {files[f] : f \in ins \cap DOMAIN files}
Without(names) == [f \in DOMAIN files \ names |-> files[f]]
With(names, text) == [f \in DOMAIN files \cup names |-> IF f \in names THEN text ELSE files[f]]

\* A pass that reads the pipe can finish only when the preprocessor closed it;
\* one whose output is its input refuses to run.
LastPipe == CHOOSE c \in DOMAIN children : /\ children[c].cmd.tool = "cpp|"
                                           /\ \A d \in DOMAIN children : children[d].cmd.tool = "cpp|" => d <= c
ReadsPipe(cmd) == cmd.tool = "rcc" /\ cmd.ins = {}
Ready(cmd) == IF ReadsPipe(cmd) THEN children[LastPipe].st # "runs"
              ELSE cmd.ins \subseteq DOMAIN files /\ cmd.ins \cap cmd.outs = {}
Produced(cmd) ==
  IF ReadsPipe(cmd)
  THEN IF Code(LastPipe) = "ok" THEN Text(children[LastPipe].cmd.ins) ELSE {Garbage}
  ELSE IF cmd.tool = "xlate" THEN {} ELSE Text(cmd.ins)

Become(c, st, code) == children' = [children EXCEPT ![c].st = st, ![c].code = code]

ChildSucceeds(c) ==
  /\ children[c].st = "runs" /\ Ready(children[c].cmd)
  /\ Become(c, IF children[c].cmd.tool = "cpp|" THEN "closed" ELSE "dead", "ok")
  /\ files' = With(children[c].cmd.outs, Produced(children[c].cmd))

\* rcc writes a header and a C file beside its last output and removes them at
\* its end (src/src/rcc/main.c:88-123): one that is killed leaves them.
Scratch(cmd) == IF cmd.tool = "rcc" THEN {Dotted(f, "h") : f \in {g \in cmd.outs : suffix(g) # "s"}} ELSE {}

ChildFails(c) ==
  /\ children[c].st = "runs"
  /\ \E code \in {"failed", "killed"} \cup (IF children[c].cmd.tool = "xlate" THEN {"none"} ELSE {}) :
        /\ Become(c, IF children[c].cmd.tool = "cpp|" THEN "closed" ELSE "dead", code)
        /\ \/ UNCHANGED files /\ code = "failed"
           \/ files' = With(children[c].cmd.outs \cup (IF code = "killed" THEN Scratch(children[c].cmd) ELSE {}),
                            IF code = "none" THEN {} ELSE {Garbage})

PipeWriterExits(c) == children[c].st = "closed" /\ Become(c, "dead", Code(c)) /\ UNCHANGED files

ChildStep ==
  /\ \E c \in DOMAIN children : ChildSucceeds(c) \/ ChildFails(c) \/ PipeWriterExits(c)
  /\ UNCHANGED <<args, argv, next, flags, outfile, pc, job, then, status, awaited, rmlist, llist, errcnt, exit, ghost>>


\* callsysnoerr: run cmd and go on at label, with the statuses of all children
\* that were waited for.  The second -v only prints.
callsys(cmd, label) ==
  \/ /\ flags.verbose >= 2 /\ status' = {"ok"} /\ pc' = label /\ UNCHANGED <<then, awaited, children>>
  \/ /\ flags.verbose < 2
     /\ \/ /\ status' = {"failed"} /\ pc' = label                  \* fork fails
           /\ UNCHANGED <<then, awaited, children>>
        \/ /\ children' = Append(children, Child(cmd)) /\ awaited' = Len(children) + 1
           /\ status' = {} /\ then' = label /\ pc' = "wait"

Wait ==
  /\ pc = "wait"
  /\ \E c \in DOMAIN children :
        /\ children[c].st = "dead"
        /\ Become(c, "reaped", Code(c))
        /\ status' = status \cup {Code(c)}
        /\ pc' = IF c = awaited THEN then ELSE "wait"
  /\ UNCHANGED <<args, argv, next, flags, outfile, job, then, awaited, files, rmlist, llist, errcnt, exit, ghost>>

\* Mutated form: a child that is killed has no exit status to look at.
Mut_Succeeded == status \cap {"failed", "none"} = {}

Succeeded == status = {"ok"}

-----------------------------------------------------------------------------
(* filename: one file, pass by pass.                                       *)

Fails(n) == errcnt' = errcnt + n /\ pc' = "arg"
Goto(label) == pc' = label /\ UNCHANGED errcnt
NextIf(label) == IF Succeeded THEN Goto(label) ELSE Fails(1)
callstate == <<then, status, awaited, children>>
mainstate == <<args, argv, next, flags, outfile, exit>>

\* An unreadable file counts as an error at once.
exists(name) == flags.verbose > 1 \/ name \in DOMAIN files

cpp ==
  /\ pc = "file" /\ suffix(job.name) = "c"
  /\ UNCHANGED <<job, llist, files, ghost, mainstate>>
  /\ \/ ~exists(job.name) /\ Fails(1) /\ UNCHANGED <<rmlist, callstate>>
     \/ /\ exists(job.name) /\ UNCHANGED errcnt
        /\ \/ /\ flags.E /\ UNCHANGED rmlist
              /\ callsys(Command("cpp", {job.name}, {}), "arg_status")
           \/ /\ ~flags.E /\ ~flags.pipe
              /\ rmlist' = IF flags.keep THEN rmlist ELSE rmlist \cup {Temp("i")}
              /\ callsys(Command("cpp", {job.name}, {Between("i", job.base)}), "cpp_done")
           \/ /\ ~flags.E /\ flags.pipe /\ UNCHANGED rmlist
              /\ \/ flags.verbose > 1 /\ pc' = "pipe" /\ UNCHANGED callstate
                 \/ /\ flags.verbose <= 1
                    /\ \/ pc' = "arg" /\ UNCHANGED callstate       \* fork fails: return 100, uncounted
                       \/ /\ children' = Append(children, Child(Command("cpp|", {job.name}, {})))
                          /\ pc' = "pipe" /\ UNCHANGED <<then, status, awaited>>

cpp_done ==
  /\ pc = "cpp_done" /\ NextIf("file")
  /\ job' = IF Succeeded THEN [job EXCEPT !.name = Between("i", job.base)] ELSE job
  /\ UNCHANGED <<llist, files, rmlist, ghost, callstate, mainstate>>

\* Where rcc puts its output and the C code, in the order of its arguments.
Listing == IF flags.S THEN IF outfile # <<>> THEN outfile ELSE concat(job.base, "s") ELSE Between("s", job.base)
Ctext ==
  IF flags.S /\ outfile # <<>> THEN Dotted(outfile, "c")
  ELSE Dotted(Listing, IF flags.peephole \/ flags.pipe THEN "b" ELSE "c")

\* compile: a failing rcc leaves input in the pipe, which is read and dropped.
compile(ins, label) == callsys(Command("rcc", ins, {Listing, Ctext}), label)

pipe ==
  /\ pc = "pipe" /\ compile({}, IF flags.S THEN "arg_status" ELSE "pipe_done")
  /\ UNCHANGED <<job, llist, files, rmlist, errcnt, ghost, mainstate>>

pipe_done ==
  /\ pc = "pipe_done" /\ NextIf("file")
  /\ job' = IF Succeeded THEN [job EXCEPT !.name = Listing] ELSE job
  /\ UNCHANGED <<llist, files, rmlist, ghost, callstate, mainstate>>

rcc ==
  /\ pc = "file" /\ suffix(job.name) = "i"
  /\ UNCHANGED <<job, llist, files, rmlist, ghost, mainstate>>
  /\ \/ ~exists(job.name) /\ Fails(1) /\ UNCHANGED callstate
     \/ exists(job.name) /\ flags.E /\ Goto("arg") /\ UNCHANGED callstate
     \/ exists(job.name) /\ ~flags.E /\ compile({job.name}, "rcc_done") /\ UNCHANGED errcnt

\* system(pocom): copt reads the C code and writes the file cc2 compiles.  Its
\* status is ignored; the shell opens the input first, then empties the output.
Assembler == IF flags.S THEN concat(job.base, "s") ELSE Between("s", job.base)
Unoptimised == Dotted(Assembler, "b")
Optimised == Dotted(Assembler, "c")
copt ==
  IF Unoptimised \notin DOMAIN files THEN UNCHANGED <<files, ghost>>
  ELSE \/ files' = With({Optimised}, files[Unoptimised]) /\ UNCHANGED ghost
       \/ files' = With({Optimised}, {Garbage}) /\ ghost' = [ghost EXCEPT !.coptfailed = TRUE]

rcc_done ==
  /\ pc = "rcc_done"
  /\ IF ~Succeeded THEN Fails(1) ELSE Goto(IF flags.S THEN "arg" ELSE "file")
  /\ job' = IF Succeeded /\ ~flags.S THEN [job EXCEPT !.name = Listing] ELSE job
  /\ IF Succeeded /\ flags.peephole THEN copt ELSE UNCHANGED <<files, ghost>>
  /\ UNCHANGED <<llist, rmlist, callstate, mainstate>>

\* cc2 compiles the C code of the last rcc or copt into the assembler file.
cc2 ==
  /\ pc = "file" /\ suffix(job.name) = "s"
  /\ UNCHANGED <<job, llist, files, rmlist, errcnt, ghost, mainstate>>
  /\ \/ (flags.E \/ flags.S) /\ pc' = "arg" /\ UNCHANGED callstate
     \/ ~flags.E /\ ~flags.S /\ callsys(Command("cc2", {Optimised}, {job.name}), "cc2_done")

Object == IF flags.c /\ outfile # <<>> THEN outfile ELSE concat(job.base, "o")

cc2_done ==
  /\ pc = "cc2_done" /\ UNCHANGED <<job, llist, files, rmlist, ghost, mainstate>>
  /\ \/ ~Succeeded /\ Fails(1) /\ UNCHANGED callstate
     \/ Succeeded /\ callsys(Command("as", {job.name}, {Object}), "as_done") /\ UNCHANGED errcnt

Listed(name) == IF \E i \in DOMAIN llist : llist[i] = name THEN llist ELSE Append(llist, name)

as_done ==
  /\ pc = "as_done" /\ NextIf("arg") /\ llist' = Listed(Object)
  /\ UNCHANGED <<job, files, rmlist, ghost, callstate, mainstate>>

object ==
  /\ pc = "file" /\ suffix(job.name) = "o"
  /\ Goto("arg") /\ llist' = Listed(job.name)
  /\ UNCHANGED <<job, files, rmlist, ghost, callstate, mainstate>>

\* Libraries and whatever else there is go to the linker; a name without a
\* one-letter suffix is preprocessed first under -E.
library ==
  /\ pc = "file" /\ suffix(job.name) \notin Sources \cup {"o"}
  /\ llist' = Append(llist, job.name) /\ UNCHANGED <<job, files, rmlist, errcnt, ghost, mainstate>>
  /\ \/ flags.E /\ suffix(job.name) \notin OneLetter /\ callsys(Command("cpp", {job.name}, {}), "arg_status")
     \/ (~flags.E \/ suffix(job.name) \in OneLetter) /\ pc' = "arg" /\ UNCHANGED callstate

arg_status ==
  /\ pc = "arg_status" /\ NextIf("arg")
  /\ UNCHANGED <<job, llist, files, rmlist, ghost, callstate, mainstate>>

filename ==
  cpp \/ cpp_done \/ pipe \/ pipe_done \/ rcc \/ rcc_done \/ cc2 \/ cc2_done \/ as_done \/ object \/ library \/ arg_status

-----------------------------------------------------------------------------
(* main.                                                                   *)

NoExit == 256
Init ==
  /\ args \in CommandLines /\ argv = <<>> /\ next = 1
  /\ flags = NoFlags /\ outfile = <<>>
  /\ pc = "options" /\ exit = NoExit
  /\ job = NoJob /\ then = "arg" /\ status = {} /\ awaited = 0 /\ children = <<>>
  /\ files = [f \in Disk |-> {f}]
  /\ rmlist = {} /\ llist = <<>> /\ errcnt = 0
  /\ ghost = [coptfailed |-> FALSE, interrupted |-> {}]

unsorted == <<next, job, files, rmlist, llist, errcnt, ghost, callstate>>
Refuse == exit' = 8 /\ pc' = "over" /\ UNCHANGED <<args, argv, flags, outfile>>

\* The first loop of main sorts options from files.
Option ==
  /\ pc = "options" /\ args # <<>> /\ IsOption(Head(args)) /\ Head(args) # <<"-o">>
  /\ flags' = opt(flags, Head(args)) /\ args' = Tail(args)
  /\ UNCHANGED <<argv, outfile, pc, exit, unsorted>>

Output ==
  /\ pc = "options" /\ args # <<>> /\ Head(args) = <<"-o">>
  /\ IF Len(args) = 1 THEN Refuse
     ELSE IF Overwrites(args[2]) THEN Refuse
     ELSE outfile' = args[2] /\ args' = Tail(Tail(args)) /\ UNCHANGED <<argv, flags, pc, exit>>
  /\ UNCHANGED unsorted

File ==
  /\ pc = "options" /\ args # <<>> /\ ~IsOption(Head(args))
  /\ argv' = Append(argv, Head(args)) /\ args' = Tail(args)
  /\ UNCHANGED <<flags, outfile, pc, exit, unsorted>>

OneSource == \E k \in DOMAIN argv : \A l \in DOMAIN argv : suffix(argv[l]) \in Sources <=> l = k

Sorted ==
  /\ pc = "options" /\ args = <<>> /\ pc' = "arg"
  /\ outfile' = IF (flags.c \/ flags.S) /\ ~OneSource THEN <<>> ELSE outfile
  /\ UNCHANGED <<args, argv, flags, exit, unsorted>>

\* Mutated form: only the file that rcc writes last is put on the list.
Mut_TempsOf == {Dotted(Temp("s"), "c")}

TempsOf == {Dotted(Temp("s"), "c"), Dotted(Temp("s"), "b"), Temp("s")}

NextFile ==
  /\ pc = "arg" /\ next <= Len(argv)
  /\ next' = next + 1 /\ job' = [name |-> argv[next], base |-> basename(argv[next])]
  /\ rmlist' = IF flags.keep THEN rmlist ELSE rmlist \cup TempsOf
  /\ pc' = "file"
  /\ UNCHANGED <<args, argv, flags, outfile, exit, llist, files, errcnt, ghost, callstate>>

Links == errcnt = 0 /\ ~flags.E /\ ~flags.S /\ ~flags.c /\ llist # <<>>
OnlySource == Len(argv) = 1 /\ suffix(argv[1]) \in Sources /\ ~flags.keep

xlate ==
  /\ pc = "arg" /\ next > Len(argv) /\ Links
  /\ rmlist' = IF OnlySource THEN rmlist \cup {concat(basename(argv[1]), "o")} ELSE rmlist
  /\ callsys(Command("xlate", Range(llist), {xname("c")}), "xlate_done")
  /\ UNCHANGED <<job, llist, files, errcnt, ghost, mainstate>>

\* Exit status -1 says that there is nothing to translate, whatever else came
\* in with it.
NothingToDo == status = {"ok"} \/ "none" \in status
xlate_done ==
  /\ pc = "xlate_done" /\ UNCHANGED <<job, llist, files, rmlist, ghost, mainstate>>
  /\ \/ /\ NothingToDo
        /\ callsys(Command("cc2", {xname("c")}, {xname("o")}), "xcc_done") /\ UNCHANGED errcnt
     \/ /\ ~NothingToDo
        /\ errcnt' = errcnt + 1 /\ pc' = "quit" /\ UNCHANGED callstate

Executable == IF outfile = <<>> THEN concat(<<"a">>, "out") ELSE outfile
xcc_done ==
  /\ pc = "xcc_done" /\ UNCHANGED <<job, files, ghost, mainstate>>
  /\ \/ /\ Succeeded
        /\ rmlist' = IF flags.keep THEN rmlist ELSE rmlist \cup {xname("c"), xname("o")}
        /\ llist' = Append(llist, xname("o"))
        /\ callsys(Command("ld", Range(llist'), {Executable}), "ld_done") /\ UNCHANGED errcnt
     \/ ~Succeeded /\ errcnt' = errcnt + 1 /\ pc' = "quit" /\ UNCHANGED <<rmlist, llist, callstate>>

ld_done ==
  /\ pc = "ld_done" /\ errcnt' = errcnt + (IF Succeeded THEN 0 ELSE 1) /\ pc' = "quit"
  /\ UNCHANGED <<job, llist, files, rmlist, ghost, callstate, mainstate>>

Quit ==
  /\ pc = "quit" \/ (pc = "arg" /\ next > Len(argv) /\ ~Links)
  /\ files' = Without(rmlist) /\ pc' = "over"
  /\ exit' = IF errcnt > 0 THEN 1 ELSE 0
  /\ UNCHANGED <<args, argv, next, flags, outfile, job, llist, rmlist, errcnt, ghost, callstate>>

\* A signal to the driver: its children go on and may write after it is gone.
Outputs == UNION {children[c].cmd.outs \cup Scratch(children[c].cmd) : c \in {d \in DOMAIN children : children[d].st = "runs"}}
interrupt ==
  /\ pc # "over"
  /\ files' = Without(rmlist) /\ exit' = 100 /\ pc' = "over"
  /\ ghost' = [ghost EXCEPT !.interrupted = Outputs \cup {<<>>}]
  /\ UNCHANGED <<args, argv, next, flags, outfile, job, llist, rmlist, errcnt, callstate>>

main == Option \/ Output \/ File \/ Sorted \/ NextFile \/ xlate \/ xlate_done \/ xcc_done \/ ld_done \/ Quit

Driver == Wait \/ filename \/ main
Next == Driver \/ ChildStep \/ interrupt

\* Programs end, and the driver runs when it does not wait.
Spec == Init /\ [][Next]_vars /\ WF_vars(Driver) /\ WF_vars(ChildStep)

-----------------------------------------------------------------------------
(* Properties.                                                             *)

Arguments == Range(argv)
Translated == {f \in Arguments : suffix(f) \in {"c", "i"}}

\* Known ways to lose a source: a file between the passes has its name, because
\* of another source or of -S -o.
Collide ==
  \E f, g \in Arguments : /\ f # g
                          /\ \/ basename(f) = basename(g)
                             \/ (flags.S \/ flags.keep) /\ basename(g) = Append(basename(f), "s")
Shadows == flags.S /\ outfile # <<>> /\ Dotted(outfile, "c") \in Arguments

Product(f) ==
  IF flags.S THEN Dotted(IF outfile # <<>> THEN outfile ELSE concat(basename(f), "s"), "c")
  ELSE IF flags.c THEN IF outfile # <<>> THEN outfile ELSE concat(basename(f), "o")
  ELSE Executable

\* Known ways to a wrong result with a good status: two sources share a file;
\* copt's status is ignored, and with -S -o it may read a file rcc did not write
\* and overwrite the one it did; with -pipe copt is not run, and the
\* preprocessor's end may be seen too late; an assembler file is overwritten
\* with whatever C file is left from the source before it.
Stale ==
  /\ flags.S /\ outfile # <<>>
  /\ \E f \in Arguments : LET s == concat(basename(f), "s")
                          IN  Dotted(s, "b") \in Disk /\ Product(f) = Dotted(s, "c")
Excused == Collide \/ Shadows \/ Stale \/ ghost.coptfailed \/ flags.pipe \/ \E f \in Arguments : suffix(f) = "s"

\* When tcc reports success, the file it was asked for exists and holds the
\* translation of each source named on the command line, and of it alone or of
\* it and the other files linked, however its passes ended (callsys, filename).
ExitTellsTruth ==
  exit = 0 /\ ~flags.E /\ flags.verbose < 2 /\ ~Excused =>
    \A f \in Translated :
      /\ Product(f) \in DOMAIN files
      /\ f \in files[Product(f)]
      /\ Garbage \notin files[Product(f)]
      /\ files[Product(f)] \subseteq (IF flags.S \/ flags.c THEN {f} ELSE Arguments)

\* No source is written to or removed (main's test of -o, the temporary names).
SourcesKept ==
  ~Collide /\ ~Shadows => \A f \in Translated \cap Disk : f \in DOMAIN files /\ files[f] = {f}

\* When tcc and all its children are gone, so are the temporary files, except
\* xlate.pl's output if it or its compilation failed (main puts it on the list
\* only then), what rcc leaves when it is killed, and what a pass wrote that
\* outlived an interrupted tcc.
Over == exit # NoExit /\ \A c \in DOMAIN children : children[c].st \notin {"runs", "closed"}
Leftover ==
  (UNION {IF children[c].cmd.tool = "rcc" /\ Code(c) = "killed" THEN Scratch(children[c].cmd) ELSE {} : c \in DOMAIN children})
    \cup (IF exit # 0 THEN {TempX("c"), TempX("o")} ELSE {}) \cup ghost.interrupted
TemporariesRemoved == Over => {f \in DOMAIN files : f[1] = "tmp"} \subseteq Leftover

=============================================================================
