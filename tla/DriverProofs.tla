---------------------------- MODULE DriverProofs ----------------------------
(***************************************************************************)
(* Proofs about Driver: sources survive every run of tcc, temporary files  *)
(* go, and success means what it says, for all command lines and whatever  *)
(* the passes do.                                                          *)
(***************************************************************************)
EXTENDS Driver, SequenceTheorems, TLAPS

Named == {arg \in Args : ~IsOption(arg)}
Flags == [E : BOOLEAN, S : BOOLEAN, c : BOOLEAN, keep : BOOLEAN, pipe : BOOLEAN, peephole : BOOLEAN, verbose : Nat]

\* What main made of the command line.
Settings ==
  /\ args \in Seq(Args) /\ argv \in Seq(Named) /\ next \in 1 .. Len(argv) + 1
  /\ \A k \in 1 .. Len(args) - 1 : args[k] = <<"-o">> => ~IsOption(args[k + 1])
  /\ flags \in Flags
  /\ outfile # <<>> => Given(outfile) /\ ~Overwrites(outfile)
  /\ pc = "options" => /\ next = 1 /\ children = <<>> /\ files = [f \in Disk |-> {f}]
                       /\ rmlist = {} /\ llist = <<>> /\ errcnt = 0

\* Where the driver is, or will be when the child it waits for has ended.
at == IF pc = "wait" THEN then ELSE pc
InFile == {"file", "cpp_done", "pipe", "pipe_done", "rcc_done", "cc2_done", "as_done", "arg_status"}
src == argv[next - 1]

\* The file that filename is in stands for the source it was called with.
JobInv ==
  /\ pc = "wait" => then \notin {"options", "wait", "over", "file", "pipe", "quit"}
  /\ at \in InFile => next > 1
  /\ next > 1 => {"name", "base"} \subseteq DOMAIN job /\ job.base = basename(src)
  /\ at \in InFile =>
       \/ job.name = src
       \/ suffix(src) = "c" /\ job.name = Between("i", job.base)
       \/ suffix(src) \in {"c", "i"} /\ ~flags.S /\ job.name = Between("s", job.base)
  /\ at \in {"cpp_done", "pipe", "pipe_done"} => suffix(job.name) = "c"
  /\ at = "pipe_done" => ~flags.S
  /\ at = "rcc_done" => suffix(job.name) = "i"

IsChild(c) ==
  /\ {"cmd", "st", "code"} \subseteq DOMAIN c
  /\ c.st = "runs" => c.code = "ok"
  /\ c.cmd.tool = "cpp|" => c.cmd.outs = {}

\* Only the child that the driver waits for is left to end, besides a
\* preprocessor that writes a pipe.
ChildInv ==
  /\ children \in Seq(Range(children))
  /\ \A c \in DOMAIN children : IsChild(children[c])
  /\ exit = NoExit =>
       \A c \in DOMAIN children : children[c].st = "reaped" \/ children[c].cmd.tool = "cpp|" \/ (pc = "wait" /\ c = awaited)

Produces(c) == children[c].cmd.outs \cup Scratch(children[c].cmd)
SourceInv ==
  ~Collide /\ ~Shadows =>
    /\ \A c \in DOMAIN children : Produces(c) \cap Translated = {}
    /\ rmlist \cap Translated = {}
    /\ \A f \in Translated \cap Disk : f \in DOMAIN files /\ files[f] = {f}

XTemps == {TempX("c"), TempX("o")}
LinkStage == at \in {"xlate_done", "xcc_done"} \/ (pc = "quit" /\ errcnt > 0)
Tracked(f) == f[1] = "tmp" => ~flags.keep /\ (f \in rmlist \/ (f \in XTemps /\ LinkStage))
KilledAmong(ch) == UNION {IF ch[c].cmd.tool = "rcc" /\ ch[c].code = "killed" THEN Scratch(ch[c].cmd) ELSE {} : c \in DOMAIN ch}
Killed == KilledAmong(children)

\* A temporary file is on the list of files to remove, or will be.
TempInv ==
  /\ exit \in {0, 1, 8, 100, NoExit} /\ errcnt \in Nat /\ "interrupted" \in DOMAIN ghost
  /\ pc = "over" <=> exit # NoExit
  /\ ~flags.keep /\ next > 1 => TempsOf \subseteq rmlist
  /\ exit = NoExit => /\ \A f \in DOMAIN files : f \in Killed \/ Tracked(f)
                      /\ \A c \in DOMAIN children : children[c].st = "runs" => \A f \in children[c].cmd.outs : Tracked(f)
  /\ exit # NoExit => /\ \A f \in DOMAIN files : f[1] = "tmp" => f \in Leftover
                      /\ \A c \in DOMAIN children : children[c].st = "runs" => children[c].cmd.tool = "cpp|" \/ Produces(c) \subseteq ghost.interrupted

IInv == Settings /\ JobInv /\ ChildInv /\ SourceInv /\ TempInv

-----------------------------------------------------------------------------
(* File names.                                                             *)

LEMMA ArgumentsAreGiven ==
  ASSUME Settings
  PROVE  \A f \in Arguments : /\ Given(f) /\ f = <<f[1], f[2], f[3]>>
                              /\ f[1] \in STRING /\ f[2] \in Seq(STRING) /\ f[3] \in STRING
<1> SUFFICES ASSUME NEW f \in Arguments
             PROVE  Given(f)
  BY DEF Given, Names
<1>1. PICK k \in DOMAIN argv : f = argv[k]
  BY DEF Arguments, Range
<1>2. argv \in Seq(Named)
  BY DEF Settings
<1> QED
  BY <1>1, <1>2, DriverAssumption DEF Named

LEMMA SrcIsArgument ==
  ASSUME Settings, next > 1
  PROVE  src \in Arguments /\ next - 1 \in DOMAIN argv
<1>1. /\ argv \in Seq(Named) /\ next \in 1 .. Len(argv) + 1
  BY DEF Settings
<1> QED
  BY <1>1 DEF src, Arguments, Range

LEMMA AppendGrows ==
  ASSUME NEW S, NEW b \in Seq(S), NEW s
  PROVE  Append(b, s) # b
<1>1. Len(Append(b, s)) = Len(b) + 1 /\ Len(b) \in Nat
  OBVIOUS
<1> QED
  BY <1>1

\* No file that a pass or copt writes for one source, and none that links, is a
\* source, unless two files collide or -S -o shadows one.
LEMMA OutputsApart ==
  ASSUME Settings, ~Collide, ~Shadows
  PROVE  /\ \A end : Temp(end) \notin Arguments /\ Dotted(Temp("s"), end) \notin Arguments
         /\ \A end : xname(end) \notin Arguments /\ TempX(end) \notin Arguments
         /\ Executable \notin Translated
         /\ \A base \in Seq(STRING) : /\ concat(base, "o") \notin Translated
                                      /\ concat(base, "s") \notin Translated
                                      /\ Dotted(concat(base, "s"), "b") \notin Translated
         /\ next > 1 /\ suffix(src) = "c" => concat(basename(src), "i") \notin Translated
         /\ next > 1 /\ (flags.S \/ flags.keep) => Dotted(concat(basename(src), "s"), "c") \notin Translated
         /\ flags.S /\ outfile # <<>> => Dotted(outfile, "c") \notin Translated
<1>1. \A f \in Arguments : /\ f[1] \notin Own /\ f = <<f[1], f[2], f[3]>> /\ f[2] \in Seq(STRING) /\ f[3] \in STRING
  BY ArgumentsAreGiven DEF Given
<1>2. \A end : Temp(end) \notin Arguments /\ Dotted(Temp("s"), end) \notin Arguments
  BY <1>1 DEF Temp, Dotted, Own
<1>3. \A end : xname(end) \notin Arguments /\ TempX(end) \notin Arguments
  BY <1>1 DEF xname, TempX, Own
<1>4. Executable \notin Translated
  <2>1. CASE outfile = <<>>
    BY <2>1 DEF Executable, concat, Translated, suffix
  <2>2. CASE outfile # <<>>
    BY <2>2 DEF Executable, Translated, Settings, Overwrites
  <2> QED
    BY <2>1, <2>2
<1>5. ASSUME NEW base \in Seq(STRING)
      PROVE  /\ concat(base, "o") \notin Translated
             /\ concat(base, "s") \notin Translated
             /\ Dotted(concat(base, "s"), "b") \notin Translated
  BY DEF concat, Dotted, Translated, suffix
<1>6. ASSUME next > 1, suffix(src) = "c"
      PROVE  concat(basename(src), "i") \notin Translated
  <2>1. SUFFICES ASSUME concat(basename(src), "i") \in Translated
                 PROVE  FALSE
    OBVIOUS
  <2>2. src \in Arguments
    BY <1>6, SrcIsArgument
  <2>3. concat(basename(src), "i") \in Arguments /\ concat(basename(src), "i") # src
    BY <1>6, <2>1 DEF Translated, concat, suffix
  <2>4. basename(concat(basename(src), "i")) = basename(src)
    BY DEF basename, concat
  <2> QED
    BY <2>2, <2>3, <2>4 DEF Collide
<1>7. ASSUME next > 1, flags.S \/ flags.keep
      PROVE  Dotted(concat(basename(src), "s"), "c") \notin Translated
  <2> DEFINE g == Dotted(concat(basename(src), "s"), "c")
  <2>1. SUFFICES ASSUME g \in Arguments
                 PROVE  FALSE
    BY DEF Translated
  <2>2. src \in Arguments /\ basename(src) \in Seq(STRING)
    BY <1>7, <1>1, SrcIsArgument DEF basename
  <2>3. basename(g) = Append(basename(src), "s")
    BY DEF basename, concat, Dotted
  <2>4. basename(g) # basename(src)
    BY <2>2, <2>3, AppendGrows
  <2>5. g # src
    BY <2>4
  <2> QED
    BY <1>7, <2>1, <2>2, <2>3, <2>5 DEF Collide
<1>8. flags.S /\ outfile # <<>> => Dotted(outfile, "c") \notin Translated
  BY DEF Shadows, Translated
<1> QED
  BY <1>2, <1>3, <1>4, <1>5, <1>6, <1>7, <1>8

-----------------------------------------------------------------------------
(* Children.                                                               *)

LEMMA BecomeEffect ==
  ASSUME ChildInv, NEW c \in DOMAIN children, NEW st, NEW code, Become(c, st, code), st = "runs" => code = "ok"
  PROVE  /\ children' \in Seq(Range(children')) /\ DOMAIN children' = DOMAIN children /\ Len(children') = Len(children)
         /\ \A d \in DOMAIN children : children'[d].cmd = children[d].cmd /\ (d # c => children'[d] = children[d])
         /\ children'[c].st = st /\ children'[c].code = code
         /\ \A d \in DOMAIN children' : IsChild(children'[d])
<1> DEFINE ch == [children[c] EXCEPT !.st = st, !.code = code]
<1>1. children \in Seq(Range(children)) /\ \A d \in DOMAIN children : IsChild(children[d])
  BY DEF ChildInv
<1>2. children' = [children EXCEPT ![c] = ch]
  BY <1>1 DEF Become
<1>3. IsChild(children[c])
  BY <1>1
<1>4. IsChild(ch) /\ ch.cmd = children[c].cmd /\ ch.st = st /\ ch.code = code
  BY <1>3 DEF IsChild
<1> HIDE DEF ch
<1>5. DOMAIN children = 1 .. Len(children) /\ Len(children) \in Nat
  BY <1>1
<1>6. /\ DOMAIN children' = DOMAIN children
      /\ children'[c] = ch /\ \A d \in DOMAIN children : d # c => children'[d] = children[d]
  BY <1>2, <1>5
<1>7. children' \in Seq(Range(children')) /\ Len(children') = Len(children)
  <2>1. children' \in Seq(Range(children) \cup {ch})
    BY <1>1, <1>2
  <2>2. Len(children') = Len(children)
    BY <1>1, <1>2
  <2>3. \A d \in 1 .. Len(children') : children'[d] \in Range(children')
    BY <1>5, <1>6, <2>2 DEF Range
  <2> QED
    BY <2>1, <2>2, <2>3, SeqDef
<1> QED
  BY <1>1, <1>4, <1>6, <1>7

LEMMA ForkEffect ==
  ASSUME ChildInv, NEW cmd, children' = Append(children, Child(cmd)), cmd.tool = "cpp|" => cmd.outs = {}
  PROVE  /\ children' \in Seq(Range(children')) /\ Len(children') = Len(children) + 1
         /\ DOMAIN children' = DOMAIN children \cup {Len(children) + 1}
         /\ \A d \in DOMAIN children : children'[d] = children[d]
         /\ children'[Len(children) + 1] = Child(cmd)
         /\ Child(cmd).cmd = cmd /\ Child(cmd).st = "runs" /\ Child(cmd).code = "ok"
         /\ \A d \in DOMAIN children' : IsChild(children'[d])
<1>1. children \in Seq(Range(children)) /\ \A d \in DOMAIN children : IsChild(children[d])
  BY DEF ChildInv
<1>2. Child(cmd).cmd = cmd /\ Child(cmd).st = "runs" /\ Child(cmd).code = "ok" /\ IsChild(Child(cmd))
  BY DEF Child, IsChild
<1>3. /\ children' \in Seq(Range(children) \cup {Child(cmd)})
      /\ Len(children') = Len(children) + 1
      /\ DOMAIN children = 1 .. Len(children) /\ DOMAIN children' = 1 .. Len(children') /\ Len(children) \in Nat
      /\ \A d \in DOMAIN children : children'[d] = children[d]
      /\ children'[Len(children) + 1] = Child(cmd)
  BY <1>1
<1>4. DOMAIN children' = DOMAIN children \cup {Len(children) + 1}
  BY <1>3
<1>5. children' \in Seq(Range(children'))
  <2>1. \A d \in 1 .. Len(children') : children'[d] \in Range(children')
    BY <1>3 DEF Range
  <2> QED
    BY <1>3, <2>1, SeqDef
<1> QED
  BY <1>1, <1>2, <1>3, <1>4, <1>5

-----------------------------------------------------------------------------
(* What main made of the command line does not change once it is sorted.   *)

Frozen == UNCHANGED <<args, argv, flags, outfile>>
Labels == {"arg", "quit"} \cup InFile \cup {"xlate_done", "xcc_done", "ld_done"}

LEMMA CallsysMoves ==
  ASSUME NEW cmd, NEW label, callsys(cmd, label), label # "wait"
  PROVE  /\ at' = label
         /\ pc' = label \/ (pc' = "wait" /\ then' = label)
         /\ \/ UNCHANGED children /\ pc' # "wait"
            \/ children' = Append(children, Child(cmd)) /\ pc' = "wait" /\ awaited' = Len(children) + 1
BY DEF callsys, at

LEMMA FilenameMoves ==
  ASSUME filename
  PROVE  /\ Frozen /\ UNCHANGED <<next, exit>>
         /\ pc \in InFile
         /\ at' \in InFile \cup {"arg"} /\ (pc' = "wait" \/ pc' = at')
         /\ pc' = "wait" => then' \notin {"file", "pipe"}
<1> USE DEF Frozen, InFile, Goto, Fails, NextIf, mainstate
<1>1. CASE cpp
  <2>1. Frozen /\ UNCHANGED <<next, exit>> /\ pc \in InFile
    BY <1>1 DEF cpp
  <2>2. \/ pc' \in {"arg", "pipe"}
        \/ callsys(Command("cpp", {job.name}, {}), "arg_status")
        \/ callsys(Command("cpp", {job.name}, {Between("i", job.base)}), "cpp_done")
    BY <1>1 DEF cpp
  <2> QED
    BY <2>1, <2>2, CallsysMoves DEF at
<1>2. CASE cpp_done
  BY <1>2 DEF cpp_done, at
<1>3. CASE pipe
  BY <1>3, CallsysMoves DEF pipe, compile
<1>4. CASE pipe_done
  BY <1>4 DEF pipe_done, at
<1>5. CASE rcc
  <2>1. Frozen /\ UNCHANGED <<next, exit>> /\ pc \in InFile
    BY <1>5 DEF rcc
  <2>2. pc' = "arg" \/ callsys(Command("rcc", {job.name}, {Listing, Ctext}), "rcc_done")
    BY <1>5 DEF rcc, compile
  <2> QED
    BY <2>1, <2>2, CallsysMoves DEF at
<1>6. CASE rcc_done
  BY <1>6 DEF rcc_done, at
<1>7. CASE cc2
  BY <1>7, CallsysMoves DEF cc2, at
<1>8. CASE cc2_done
  BY <1>8, CallsysMoves DEF cc2_done, at
<1>9. CASE as_done
  BY <1>9 DEF as_done, at
<1>10. CASE object
  BY <1>10 DEF object, at
<1>11. CASE library
  BY <1>11, CallsysMoves DEF library, at
<1>12. CASE arg_status
  BY <1>12 DEF arg_status, at
<1> QED
  BY <1>1, <1>2, <1>3, <1>4, <1>5, <1>6, <1>7, <1>8, <1>9, <1>10, <1>11, <1>12 DEF filename

LEMMA MainMoves ==
  ASSUME NextFile \/ xlate \/ xlate_done \/ xcc_done \/ ld_done \/ Quit
  PROVE  /\ Frozen /\ pc \notin {"options", "wait", "over"}
         /\ at' \in {"file", "xlate_done", "xcc_done", "ld_done", "quit", "over"} /\ (pc' = "wait" \/ pc' = at')
         /\ pc' = "wait" => then' \notin {"file", "quit", "over"}
<1> USE DEF Frozen, mainstate
<1>1. CASE NextFile
  BY <1>1 DEF NextFile, at
<1>2. CASE xlate
  BY <1>2, CallsysMoves DEF xlate
<1>3. CASE xlate_done
  <2>1. Frozen /\ pc = "xlate_done"
    BY <1>3 DEF xlate_done
  <2>2. pc' = "quit" \/ callsys(Command("cc2", {xname("c")}, {xname("o")}), "xcc_done")
    BY <1>3 DEF xlate_done
  <2> QED
    BY <2>1, <2>2, CallsysMoves DEF at
<1>4. CASE xcc_done
  <2>1. Frozen /\ pc = "xcc_done"
    BY <1>4 DEF xcc_done
  <2>2. pc' = "quit" \/ callsys(Command("ld", Range(llist'), {Executable}), "ld_done")
    BY <1>4 DEF xcc_done
  <2> QED
    BY <2>1, <2>2, CallsysMoves DEF at
<1>5. CASE ld_done
  BY <1>5 DEF ld_done, at
<1>6. CASE Quit
  BY <1>6 DEF Quit, at
<1> QED
  BY <1>1, <1>2, <1>3, <1>4, <1>5, <1>6

LEMMA OptFlags ==
  ASSUME NEW f \in Flags, NEW arg
  PROVE  opt(f, arg) \in Flags
<1>1. opt(f, arg) \in {[f EXCEPT !.E = TRUE], [f EXCEPT !.S = TRUE], [f EXCEPT !.c = TRUE], [f EXCEPT !.keep = TRUE],
                       [f EXCEPT !.pipe = TRUE], [f EXCEPT !.peephole = FALSE], [f EXCEPT !.verbose = @ + 1], f}
  BY Zenon DEF opt
<1>2. /\ [f EXCEPT !.E = TRUE] \in Flags /\ [f EXCEPT !.S = TRUE] \in Flags /\ [f EXCEPT !.c = TRUE] \in Flags
      /\ [f EXCEPT !.keep = TRUE] \in Flags /\ [f EXCEPT !.pipe = TRUE] \in Flags
  BY DEF Flags
<1>3. [f EXCEPT !.peephole = FALSE] \in Flags
  BY DEF Flags
<1>4. [f EXCEPT !.verbose = @ + 1] \in Flags
  <2>1. f.verbose + 1 \in Nat
    BY DEF Flags
  <2> QED
    BY <2>1 DEF Flags
<1> QED
  BY <1>1, <1>2, <1>3, <1>4

LEMMA SettingsStep ==
  ASSUME Settings, JobInv, Next
  PROVE  Settings'
<1> USE DEF Settings
<1>1. CASE Option
  <2>1. /\ pc = "options" /\ args # <<>> /\ args' = Tail(args) /\ flags' = opt(flags, Head(args))
        /\ UNCHANGED <<argv, outfile, pc, next, files, rmlist, llist, errcnt, children>>
    BY <1>1 DEF Option, unsorted, callstate
  <2>2. /\ args' \in Seq(Args) /\ Len(args') = Len(args) - 1 /\ Len(args) \in Nat
        /\ \A k \in 1 .. Len(args') : args'[k] = args[k + 1]
    BY <2>1
  <2>3. \A k \in 1 .. Len(args') - 1 : args'[k] = <<"-o">> => ~IsOption(args'[k + 1])
    <3> SUFFICES ASSUME NEW k \in 1 .. Len(args') - 1, args'[k] = <<"-o">>
                 PROVE  ~IsOption(args'[k + 1])
      OBVIOUS
    <3>1. args[k + 1] = <<"-o">> /\ k + 1 \in 1 .. Len(args) - 1 /\ args'[k + 1] = args[k + 1 + 1]
      BY <2>2
    <3> QED
      BY <3>1
  <2>4. flags' \in Flags
    BY <2>1, OptFlags
  <2> QED
    BY <2>1, <2>2, <2>3, <2>4
<1>2. CASE Output
  <2>1. /\ pc = "options" /\ args # <<>> /\ Head(args) = <<"-o">>
        /\ UNCHANGED <<argv, flags, next, files, rmlist, llist, errcnt, children>>
    BY <1>2 DEF Output, unsorted, callstate, Refuse
  <2>2. CASE pc' = "over" /\ UNCHANGED <<args, outfile>>
    BY <2>1, <2>2
  <2>3. CASE Len(args) # 1 /\ ~Overwrites(args[2]) /\ outfile' = args[2] /\ args' = Tail(Tail(args)) /\ UNCHANGED pc
    <3>0. args \in Seq(Args) /\ args # <<>>
      BY <2>1
    <3>1. /\ Len(args) \in Nat /\ Len(args) >= 2 /\ args[1] = <<"-o">> /\ args[2] \in Args
      <4>1. Len(args) \in Nat /\ Len(args) # 0 /\ args[1] = Head(args)
        BY <3>0
      <4>2. Len(args) # 1
        BY <2>3, Zenon
      <4>3. \A n \in Nat : n # 0 /\ n # 1 => n >= 2
        OBVIOUS
      <4>4. Len(args) >= 2
        BY <4>1, <4>2, <4>3, Zenon
      <4> QED
        BY <4>1, <4>4, <3>0, <2>1
    <3>2. ~IsOption(args[2])
      BY <3>1
    <3>3. outfile' # <<>> => Given(outfile') /\ ~Overwrites(outfile')
      BY <2>3, <3>1, <3>2, DriverAssumption
    <3>4. /\ args' \in Seq(Args) /\ Len(args') = Len(args) - 2
          /\ \A k \in 1 .. Len(args') : args'[k] = args[k + 2]
      <4>1. Tail(args) \in Seq(Args) /\ Len(Tail(args)) = Len(args) - 1 /\ \A k \in 1 .. Len(args) - 1 : Tail(args)[k] = args[k + 1]
        BY <3>0
      <4>2. Tail(args) # <<>>
        <5>1. Len(Tail(args)) # 0
          BY <4>1, <3>1
        <5>2. Len(<<>>) = 0
          OBVIOUS
        <5> QED
          BY <5>1, <5>2, Zenon
      <4>3. /\ Tail(Tail(args)) \in Seq(Args) /\ Len(Tail(Tail(args))) = Len(Tail(args)) - 1
            /\ \A k \in 1 .. Len(Tail(args)) - 1 : Tail(Tail(args))[k] = Tail(args)[k + 1]
        BY <4>1, <4>2
      <4>4. \A k \in 1 .. Len(args) - 2 : Tail(Tail(args))[k] = args[k + 2]
        <5> TAKE k \in 1 .. Len(args) - 2
        <5>1. Tail(Tail(args))[k] = Tail(args)[k + 1] /\ k + 1 \in 1 .. Len(args) - 1
          BY <3>1, <4>1, <4>3
        <5>2. Tail(args)[k + 1] = args[k + 1 + 1]
          BY <4>1, <5>1
        <5> QED
          BY <5>1, <5>2
      <4> QED
        BY <2>3, <3>1, <4>1, <4>3, <4>4
    <3>5. \A k \in 1 .. Len(args') - 1 : args'[k] = <<"-o">> => ~IsOption(args'[k + 1])
      <4> SUFFICES ASSUME NEW k \in 1 .. Len(args') - 1, args'[k] = <<"-o">>
                   PROVE  ~IsOption(args'[k + 1])
        OBVIOUS
      <4>1. args[k + 2] = <<"-o">> /\ k + 2 \in 1 .. Len(args) - 1 /\ args'[k + 1] = args[k + 2 + 1]
        <5>1. Len(args') = Len(args) - 2 /\ Len(args) \in Nat /\ k \in Nat
          BY <3>1, <3>4
        <5>2. /\ k \in 1 .. Len(args') /\ k + 1 \in 1 .. Len(args') /\ k + 2 \in 1 .. Len(args) - 1
              /\ (k + 1) + 2 = k + 2 + 1
          BY <5>1
        <5>3. args'[k] = args[k + 2] /\ args'[k + 1] = args[(k + 1) + 2]
          BY <3>4, <5>2, Zenon
        <5> QED
          BY <5>2, <5>3
      <4> QED
        BY <4>1
    <3> QED
      BY <2>1, <2>3, <3>3, <3>4, <3>5 DEF Overwrites, Given, suffix
  <2> QED
    BY <1>2, <2>2, <2>3 DEF Output, Refuse
<1>3. CASE File
  <2>1. /\ pc = "options" /\ args # <<>> /\ ~IsOption(Head(args)) /\ args' = Tail(args) /\ argv' = Append(argv, Head(args))
        /\ UNCHANGED <<flags, outfile, pc, next, files, rmlist, llist, errcnt, children>>
    BY <1>3 DEF File, unsorted, callstate
  <2>2. /\ args' \in Seq(Args) /\ Len(args') = Len(args) - 1 /\ Len(args) \in Nat
        /\ \A k \in 1 .. Len(args') : args'[k] = args[k + 1]
        /\ Head(args) \in Args
    BY <2>1
  <2>3. argv' \in Seq(Named) /\ next' \in 1 .. Len(argv') + 1
    BY <2>1, <2>2 DEF Named
  <2>4. \A k \in 1 .. Len(args') - 1 : args'[k] = <<"-o">> => ~IsOption(args'[k + 1])
    <3> SUFFICES ASSUME NEW k \in 1 .. Len(args') - 1, args'[k] = <<"-o">>
                 PROVE  ~IsOption(args'[k + 1])
      OBVIOUS
    <3>1. args[k + 1] = <<"-o">> /\ k + 1 \in 1 .. Len(args) - 1 /\ args'[k + 1] = args[k + 1 + 1]
      BY <2>2
    <3> QED
      BY <3>1
  <2> QED
    BY <2>1, <2>2, <2>3, <2>4
<1>4. CASE Sorted
  BY <1>4 DEF Sorted, unsorted, callstate, Given, Overwrites, suffix
<1>5. CASE NextFile
  BY <1>5, MainMoves DEF Frozen, NextFile, Given, Overwrites, suffix
<1>6. CASE xlate \/ xlate_done \/ xcc_done \/ ld_done \/ Quit
  <2>1. Frozen /\ UNCHANGED next /\ pc' # "options"
    BY <1>6, MainMoves DEF xlate, xlate_done, xcc_done, ld_done, Quit, mainstate
  <2> QED
    BY <2>1 DEF Frozen, Given, Overwrites, suffix
<1>7. CASE filename
  <2>1. Frozen /\ UNCHANGED next /\ pc' # "options"
    BY <1>7, FilenameMoves DEF InFile
  <2> QED
    BY <2>1 DEF Frozen, Given, Overwrites, suffix
<1>8. CASE Wait
  <2>1. Frozen /\ UNCHANGED next /\ pc' \in {then, "wait"}
    BY <1>8 DEF Wait, Frozen
  <2>2. then # "options"
    BY <1>8 DEF Wait, JobInv
  <2> QED
    BY <2>1, <2>2 DEF Frozen, Given, Overwrites, suffix
<1>9. CASE ChildStep
  <2>1. Frozen /\ UNCHANGED <<next, pc, rmlist, llist, errcnt>> /\ DOMAIN children # {}
    BY <1>9 DEF ChildStep, Frozen
  <2>2. pc # "options"
    BY <2>1
  <2> QED
    BY <2>1, <2>2 DEF Frozen, Given, Overwrites, suffix
<1>10. CASE interrupt
  BY <1>10 DEF interrupt, callstate, Given, Overwrites, suffix
<1> QED
  BY <1>1, <1>2, <1>3, <1>4, <1>5, <1>6, <1>7, <1>8, <1>9, <1>10 DEF Next, Driver, main

LEMMA SameSource ==
  ASSUME Frozen, UNCHANGED next
  PROVE  /\ src' = src /\ Arguments' = Arguments /\ Translated' = Translated
         /\ (Collide <=> Collide') /\ (Shadows <=> Shadows')
         /\ \A end, base : Between(end, base)' = Between(end, base)
BY DEF Frozen, src, Arguments, Translated, Collide, Shadows, Between

\* One source after another, each as itself, as its preprocessed text or as an
\* assembler file.
LEMMA JobStep ==
  ASSUME Settings, JobInv, Next
  PROVE  JobInv'
<1> DEFINE Stands == \/ job.name = src
                     \/ suffix(src) = "c" /\ job.name = Between("i", job.base)
                     \/ suffix(src) \in {"c", "i"} /\ ~flags.S /\ job.name = Between("s", job.base)
<1>1. CASE Option \/ Output \/ File \/ Sorted
  <2>1. next' = 1 /\ pc' \in {"options", "over", "arg"}
    BY <1>1 DEF Option, Output, File, Sorted, unsorted, Refuse, Settings
  <2> QED
    BY <2>1 DEF JobInv, at, InFile
<1>2. CASE NextFile
  <2>1. /\ pc' = "file" /\ next' = next + 1 /\ argv' = argv /\ next \in Nat \ {0}
        /\ job' = [name |-> argv[next], base |-> basename(argv[next])]
    BY <1>2 DEF NextFile, Settings
  <2>2. src' = argv[next] /\ job'.name = src' /\ job'.base = basename(src') /\ {"name", "base"} \subseteq DOMAIN job'
    BY <2>1 DEF src, basename
  <2>3. next' > 1 /\ at' = "file"
    BY <2>1 DEF at
  <2> QED
    BY <2>1, <2>2, <2>3 DEF JobInv, basename
<1>3. CASE xlate \/ xlate_done \/ xcc_done \/ ld_done \/ Quit
  <2>1. Frozen /\ UNCHANGED <<next, job>>
    BY <1>3, MainMoves DEF xlate, xlate_done, xcc_done, ld_done, Quit, mainstate
  <2>2. at' \notin InFile /\ (pc' = "wait" => then' \notin {"options", "wait", "over", "file", "pipe", "quit"})
    <3>1. at' \notin {"file"}
      BY <1>3, CallsysMoves DEF xlate, xlate_done, xcc_done, ld_done, Quit, at
    <3>2. pc' = "wait" => at' = then'
      BY DEF at
    <3> QED
      BY <1>3, <3>1, <3>2, MainMoves DEF InFile
  <2> QED
    BY <2>1, <2>2, SameSource DEF JobInv, InFile, basename
<1>4. CASE filename
  <2>1. /\ Frozen /\ UNCHANGED next /\ pc \in InFile /\ at' \in InFile \cup {"arg"} /\ at = pc
        /\ pc' = "wait" \/ pc' = at'
        /\ pc' = "wait" => then' \notin {"file", "pipe"} /\ then' = at'
    BY <1>4, FilenameMoves DEF at, InFile
  <2>2. next > 1 /\ job.base = basename(src) /\ {"name", "base"} \subseteq DOMAIN job /\ Stands
    BY <2>1 DEF JobInv
  <2>3. src' = src /\ \A end, base : Between(end, base)' = Between(end, base)
    BY <2>1, SameSource
  <2>4. {"name", "base"} \subseteq DOMAIN job' /\ job'.base = job.base
    <3>1. job' = job \/ \E n : job' = [job EXCEPT !.name = n]
      BY <1>4 DEF filename, cpp, cpp_done, pipe, pipe_done, rcc, rcc_done, cc2, cc2_done, as_done, object, library, arg_status
    <3> QED
      BY <2>2, <3>1
  <2>0. suffix(Between("i", job.base)) = "i" /\ suffix(Between("s", job.base)) = "s"
    BY DEF Between, concat, Temp, suffix
  <2>5. suffix(job.name) = "c" => job.name = src /\ suffix(src) = "c"
    BY <2>0, <2>2
  <2>6. suffix(job.name) = "i" => suffix(src) \in {"c", "i"} /\ (job.name = src \/ job.name = Between("i", job.base))
    BY <2>0, <2>2
  <2>7. at' \in InFile => \/ job'.name = src
                          \/ suffix(src) = "c" /\ job'.name = Between("i", job.base)
                          \/ suffix(src) \in {"c", "i"} /\ ~flags.S /\ job'.name = Between("s", job.base)
    <3>1. CASE job' = job
      BY <2>2, <3>1
    <3>2. CASE cpp_done /\ Succeeded
      <4>1. job'.name = Between("i", job.base)
        BY <2>2, <3>2 DEF cpp_done
      <4> QED
        BY <2>5, <3>2, <4>1, <2>1 DEF cpp_done, JobInv
    <3>3. CASE pipe_done /\ Succeeded
      <4>1. job'.name = Listing
        BY <2>2, <3>3 DEF pipe_done
      <4>2. suffix(src) = "c" /\ job.name = src
        BY <2>1, <2>5, <3>3 DEF pipe_done, JobInv
      <4>3. ~flags.S
        BY <3>3, <2>1 DEF JobInv, pipe_done
      <4> QED
        BY <4>1, <4>2, <4>3 DEF Listing
    <3>4. CASE rcc_done /\ Succeeded /\ ~flags.S
      <4>1. job'.name = Listing
        BY <2>2, <3>4 DEF rcc_done
      <4>2. suffix(src) \in {"c", "i"}
        BY <2>1, <2>6, <3>4 DEF rcc_done, JobInv
      <4> QED
        BY <3>4, <4>1, <4>2 DEF Listing
    <3> QED
      BY <1>4, <3>1, <3>2, <3>3, <3>4
        DEF filename, cpp, cpp_done, pipe, pipe_done, rcc, rcc_done, cc2, cc2_done, as_done, object, library, arg_status
  <2>8. /\ at' \in {"cpp_done", "pipe", "pipe_done"} => suffix(job'.name) = "c"
        /\ at' = "pipe_done" => ~flags.S
        /\ at' = "rcc_done" => suffix(job'.name) = "i"
    <3>1. CASE cpp
      <4>1. job' = job /\ suffix(job.name) = "c" /\ pc = "file"
        BY <3>1 DEF cpp
      <4>2. at' \in {"arg", "pipe", "arg_status", "cpp_done"}
        <5>1. \/ pc' \in {"arg", "pipe"}
              \/ callsys(Command("cpp", {job.name}, {}), "arg_status")
              \/ callsys(Command("cpp", {job.name}, {Between("i", job.base)}), "cpp_done")
          BY <3>1 DEF cpp, Fails
        <5> QED
          BY <5>1, CallsysMoves DEF at
      <4> QED
        BY <4>1, <4>2
    <3>2. CASE pipe
      <4>1. job' = job /\ suffix(job.name) = "c" /\ at' = IF flags.S THEN "arg_status" ELSE "pipe_done"
        BY <3>2, <2>1, CallsysMoves DEF pipe, compile, JobInv
      <4> QED
        BY <4>1
    <3>3. CASE rcc
      <4>1. job' = job /\ suffix(job.name) = "i"
        BY <3>3 DEF rcc
      <4>2. at' \in {"arg", "rcc_done"}
        <5>1. pc' = "arg" \/ callsys(Command("rcc", {job.name}, {Listing, Ctext}), "rcc_done")
          BY <3>3 DEF rcc, compile, Fails, Goto
        <5> QED
          BY <5>1, CallsysMoves DEF at
      <4> QED
        BY <4>1, <4>2
    <3>4. CASE cpp_done \/ pipe_done \/ rcc_done
      BY <3>4 DEF cpp_done, pipe_done, rcc_done, NextIf, Goto, Fails, at
    <3>5. CASE cc2 \/ cc2_done \/ as_done \/ object \/ library \/ arg_status
      <4>1. \/ pc' = "arg"
            \/ \E cmd : \E label \in {"cc2_done", "as_done", "arg_status"} : callsys(cmd, label)
        <5>1. CASE cc2
          BY <5>1 DEF cc2
        <5>2. CASE cc2_done
          BY <5>2 DEF cc2_done, Fails
        <5>3. CASE library
          BY <5>3 DEF library
        <5>4. CASE as_done \/ object \/ arg_status
          BY <5>4 DEF as_done, object, arg_status, NextIf, Goto, Fails
        <5> QED
          BY <3>5, <5>1, <5>2, <5>3, <5>4
      <4> QED
        BY <4>1, CallsysMoves DEF at
    <3> QED
      BY <1>4, <3>1, <3>2, <3>3, <3>4, <3>5 DEF filename
  <2>9. {"name", "base"} \subseteq DOMAIN job' /\ job'.base = basename(src')
    BY <2>2, <2>3, <2>4
  <2>10. flags' = flags /\ next' = next /\ (pc' = "wait" => then' \notin {"options", "wait", "over", "file", "pipe", "quit"})
    BY <2>1 DEF Frozen, InFile
  <2> QED
    BY <2>2, <2>3, <2>4, <2>7, <2>8, <2>9, <2>10 DEF JobInv, basename, suffix
<1>5. CASE Wait
  <2>1. Frozen /\ UNCHANGED <<next, job, then>> /\ pc = "wait" /\ pc' \in {then, "wait"}
    BY <1>5 DEF Wait, Frozen
  <2>2. at' = at /\ then \notin {"options", "wait", "over", "file", "pipe", "quit"}
    BY <2>1 DEF at, JobInv
  <2>3. src' = src /\ \A end, base : Between(end, base)' = Between(end, base)
    BY <2>1, SameSource
  <2> QED
    BY <2>1, <2>2, <2>3 DEF JobInv, Frozen, basename, suffix
<1>6. CASE ChildStep
  <2>1. Frozen /\ UNCHANGED <<next, job, then, pc>>
    BY <1>6 DEF ChildStep, Frozen
  <2>2. at' = at
    BY <2>1 DEF at
  <2>3. src' = src /\ \A end, base : Between(end, base)' = Between(end, base)
    BY <2>1, SameSource
  <2> QED
    BY <2>1, <2>2, <2>3 DEF JobInv, Frozen, basename, suffix
<1>7. CASE interrupt
  <2>1. Frozen /\ UNCHANGED <<next, job>> /\ pc' = "over"
    BY <1>7 DEF interrupt, Frozen
  <2>2. src' = src /\ at' = "over"
    BY <2>1, SameSource DEF at
  <2> QED
    BY <2>1, <2>2 DEF JobInv, InFile, basename
<1> QED
  BY <1>1, <1>2, <1>3, <1>4, <1>5, <1>6, <1>7 DEF Next, Driver, main

-----------------------------------------------------------------------------
(* What the passes write.                                                  *)

\* A file that is in no temporary directory or on the list of files to remove.
Placed(f) == f[1] = "tmp" => ~flags.keep /\ f \in rmlist

LEMMA ScratchApart ==
  ASSUME NEW cmd
  PROVE  Scratch(cmd) \cap Translated = {}
<1> SUFFICES ASSUME NEW f \in Scratch(cmd), f \in Translated
             PROVE  FALSE
  OBVIOUS
<1>1. PICK g : f = Dotted(g, "h")
  BY DEF Scratch
<1>2. suffix(f) = "h"
  BY <1>1 DEF Dotted, suffix
<1> QED
  BY <1>2 DEF Translated

LEMMA FileOutputs ==
  ASSUME Settings, JobInv, at \in InFile, ~flags.keep => TempsOf \subseteq rmlist
  PROVE  /\ Placed(Listing) /\ Placed(Ctext) /\ Placed(Optimised) /\ Placed(Object)
         /\ suffix(job.name) = "s" => Placed(job.name) /\ job.name \notin Translated
         /\ ~Collide /\ ~Shadows =>
              /\ Object \notin Translated
              /\ suffix(src) \in {"c", "i"} =>
                   Listing \notin Translated /\ Ctext \notin Translated /\ Optimised \notin Translated
<1>1. /\ next > 1 /\ job.base = basename(src) /\ src \in Arguments
      /\ Given(src) /\ basename(src) \in Seq(STRING)
  BY SrcIsArgument, ArgumentsAreGiven DEF JobInv, basename
<1>2. /\ outfile # <<>> => Given(outfile) /\ ~Overwrites(outfile)
      /\ ~flags.keep => Temp("s") \in rmlist /\ Dotted(Temp("s"), "b") \in rmlist /\ Dotted(Temp("s"), "c") \in rmlist
  BY DEF Settings, TempsOf
<1>3. Placed(Listing)
  BY <1>2 DEF Listing, Between, concat, Temp, Placed, Given, Own
<1>4. Placed(Ctext)
  BY <1>2 DEF Ctext, Listing, Between, concat, Temp, Placed, Given, Own, Dotted
<1>5. Placed(Optimised)
  BY <1>2 DEF Optimised, Assembler, Between, concat, Temp, Placed, Given, Own, Dotted
<1>6. Placed(Object)
  BY <1>2 DEF Object, concat, Placed, Given, Own
<1>7. suffix(job.name) = "s" => Placed(job.name) /\ job.name \notin Translated
  <2>1. job.name \in {src, Between("i", job.base), Between("s", job.base)}
    BY DEF JobInv
  <2>2. suffix(Between("i", job.base)) = "i"
    BY DEF Between, concat, Temp, suffix
  <2>3. Placed(src) /\ Placed(Between("s", job.base))
    BY <1>1, <1>2 DEF Between, concat, Temp, Placed, Given, Own
  <2> QED
    BY <2>1, <2>2, <2>3 DEF Translated
<1>8. ASSUME ~Collide, ~Shadows
      PROVE  Object \notin Translated
  BY <1>1, <1>2, <1>8, OutputsApart DEF Object, Translated, Overwrites
<1>9. ASSUME ~Collide, ~Shadows, suffix(src) \in {"c", "i"}
      PROVE  Listing \notin Translated /\ Ctext \notin Translated /\ Optimised \notin Translated
  <2>1. /\ concat(job.base, "s") \notin Translated /\ Dotted(concat(job.base, "s"), "b") \notin Translated
        /\ flags.S \/ flags.keep => Dotted(concat(job.base, "s"), "c") \notin Translated
        /\ Temp("s") \notin Translated /\ Dotted(Temp("s"), "b") \notin Translated /\ Dotted(Temp("s"), "c") \notin Translated
        /\ flags.S /\ outfile # <<>> => Dotted(outfile, "c") \notin Translated
    <3>1. \A base \in Seq(STRING) : concat(base, "s") \notin Translated /\ Dotted(concat(base, "s"), "b") \notin Translated
      BY <1>9, OutputsApart
    <3>2. flags.S \/ flags.keep => Dotted(concat(job.base, "s"), "c") \notin Translated
      BY <1>1, <1>9, OutputsApart
    <3>3. /\ \A end : Temp(end) \notin Arguments /\ Dotted(Temp("s"), end) \notin Arguments
          /\ flags.S /\ outfile # <<>> => Dotted(outfile, "c") \notin Translated
      BY <1>9, OutputsApart
    <3>4. concat(job.base, "s") \notin Translated /\ Dotted(concat(job.base, "s"), "b") \notin Translated
      BY <1>1, <3>1, Zenon
    <3>6. Temp("s") \notin Arguments /\ Dotted(Temp("s"), "b") \notin Arguments /\ Dotted(Temp("s"), "c") \notin Arguments
      BY <3>3, Zenon
    <3> QED
      BY <3>2, <3>3, <3>4, <3>6, Zenon DEF Translated
  <2>2. outfile # <<>> => outfile \notin Translated
    BY <1>2 DEF Translated, Overwrites
  <2> QED
    BY <2>1, <2>2 DEF Listing, Ctext, Optimised, Assembler, Between
<1> QED
  BY <1>3, <1>4, <1>5, <1>6, <1>7, <1>8, <1>9

Follows(f) == f[1] = "tmp" => ~flags.keep' /\ (f \in rmlist' \/ (f \in XTemps /\ LinkStage'))

\* A command whose outputs are neither sources nor temporary files that nobody
\* removes.
Proper(cmd) ==
  /\ cmd.tool = "cpp|" => cmd.outs = {}
  /\ ~Collide /\ ~Shadows => (cmd.outs \cup Scratch(cmd)) \cap Translated = {}
  /\ \A f \in cmd.outs : Follows(f)

\* At most one command is started, and it is waited for unless it writes a pipe.
Starts ==
  \/ UNCHANGED children /\ pc' # "wait"
  \/ \E cmd : /\ children' = Append(children, Child(cmd)) /\ Proper(cmd)
              /\ \/ cmd.tool = "cpp|"
                 \/ pc' = "wait" /\ awaited' = Len(children) + 1
              /\ pc' = "wait" => awaited' = Len(children) + 1

LEMMA CallsysStarts ==
  ASSUME NEW cmd, NEW label, callsys(cmd, label), label # "wait", Proper(cmd)
  PROVE  Starts
<1>1. \/ UNCHANGED children /\ pc' # "wait"
      \/ children' = Append(children, Child(cmd)) /\ pc' = "wait" /\ awaited' = Len(children) + 1
  BY CallsysMoves
<1> QED
  BY <1>1 DEF Starts

LEMMA PlacedFollows ==
  ASSUME NEW f, Placed(f), Frozen, rmlist \subseteq rmlist'
  PROVE  Follows(f)
BY DEF Placed, Follows, Frozen

LEMMA FilenameEffect ==
  ASSUME Settings, JobInv, TempInv, filename
  PROVE  /\ rmlist \subseteq rmlist' /\ rmlist' \subseteq rmlist \cup {Temp("i")}
         /\ errcnt \in Nat => errcnt' \in Nat
         /\ Starts
         /\ \/ UNCHANGED files
            \/ /\ \E text : files' = With({Optimised}, text)
               /\ Follows(Optimised) /\ (~Collide /\ ~Shadows => Optimised \notin Translated)
<1>1. /\ Frozen /\ UNCHANGED <<next, exit>> /\ pc \in InFile /\ at = pc
  BY FilenameMoves DEF at, InFile
<1>2. ~flags.keep => TempsOf \subseteq rmlist
  BY <1>1 DEF TempInv, JobInv
<1>3. /\ Placed(Listing) /\ Placed(Ctext) /\ Placed(Optimised) /\ Placed(Object)
      /\ suffix(job.name) = "s" => Placed(job.name) /\ job.name \notin Translated
      /\ ~Collide /\ ~Shadows =>
           /\ Object \notin Translated
           /\ suffix(src) \in {"c", "i"} =>
                Listing \notin Translated /\ Ctext \notin Translated /\ Optimised \notin Translated
  BY <1>1, <1>2, FileOutputs
<1>0. suffix(Between("i", job.base)) = "i" /\ suffix(Between("s", job.base)) = "s"
  BY DEF Between, concat, Temp, suffix
<1>4. suffix(job.name) \in {"c", "i"} => suffix(src) \in {"c", "i"}
  BY <1>0, <1>1 DEF JobInv
<1>5. suffix(job.name) = "c" => job.name = src
  BY <1>0, <1>1 DEF JobInv
<1>6. ASSUME NEW ins, rmlist' = rmlist, suffix(job.name) \in {"c", "i"}
      PROVE  Proper(Command("rcc", ins, {Listing, Ctext}))
  <2> DEFINE cmd == Command("rcc", ins, {Listing, Ctext})
  <2>1. cmd.tool = "rcc" /\ cmd.outs = {Listing, Ctext}
    BY DEF Command
  <2> HIDE DEF cmd
  <2>2. Follows(Listing) /\ Follows(Ctext)
    BY <1>1, <1>3, <1>6, PlacedFollows
  <2>3. ~Collide /\ ~Shadows => cmd.outs \cap Translated = {}
    BY <1>3, <1>4, <1>6, <2>1
  <2>4. Scratch(cmd) \cap Translated = {} /\ "rcc" # "cpp|"
    BY ScratchApart
  <2> QED
    BY <2>1, <2>2, <2>3, <2>4 DEF Proper, cmd
<1>7. ASSUME NEW tool, NEW ins, tool # "cpp|"
      PROVE  Proper(Command(tool, ins, {}))
  BY <1>7, ScratchApart DEF Proper, Command
<1>8. ASSUME NEW tool, NEW ins, NEW out, tool # "cpp|", Placed(out) \/ Follows(out), rmlist \subseteq rmlist',
             ~Collide /\ ~Shadows => out \notin Translated
      PROVE  Proper(Command(tool, ins, {out}))
  <2> DEFINE cmd == Command(tool, ins, {out})
  <2>1. cmd.tool = tool /\ cmd.outs = {out}
    BY DEF Command
  <2> HIDE DEF cmd
  <2>2. Follows(out)
    BY <1>1, <1>8, PlacedFollows
  <2>3. ~Collide /\ ~Shadows => cmd.outs \cap Translated = {}
    BY <1>8, <2>1
  <2>4. Scratch(cmd) \cap Translated = {}
    BY ScratchApart
  <2> QED
    BY <1>8, <2>1, <2>2, <2>3, <2>4 DEF Proper, cmd
<1> USE DEF Goto, Fails, NextIf
<1>10. CASE cpp
  <2>1. /\ suffix(job.name) = "c" /\ UNCHANGED files /\ (errcnt' = errcnt \/ errcnt' = errcnt + 1)
        /\ rmlist' = rmlist \/ rmlist' = rmlist \cup {Temp("i")}
    BY <1>10 DEF cpp
  <2>2. CASE UNCHANGED children /\ pc' # "wait"
    BY <2>1, <2>2 DEF Starts
  <2>3. CASE callsys(Command("cpp", {job.name}, {}), "arg_status")
    BY <1>7, <2>1, <2>3, CallsysStarts
  <2>4. CASE /\ callsys(Command("cpp", {job.name}, {Between("i", job.base)}), "cpp_done")
             /\ rmlist' = IF flags.keep THEN rmlist ELSE rmlist \cup {Temp("i")}
    <3>1. Follows(Between("i", job.base))
      BY <1>1, <2>4 DEF Follows, Between, Temp, concat, Frozen
    <3>2. ~Collide /\ ~Shadows => Between("i", job.base) \notin Translated
      <4>1. job.base = basename(src) /\ next > 1
        BY <1>1 DEF JobInv
      <4>2. ~Collide /\ ~Shadows => concat(job.base, "i") \notin Translated /\ Temp("i") \notin Arguments
        BY <2>1, <1>5, <4>1, OutputsApart
      <4> QED
        BY <4>2 DEF Between, Translated
    <3>3. Proper(Command("cpp", {job.name}, {Between("i", job.base)}))
      BY <1>8, <2>1, <3>1, <3>2
    <3> QED
      BY <2>1, <2>4, <3>3, CallsysStarts
  <2>5. CASE children' = Append(children, Child(Command("cpp|", {job.name}, {}))) /\ pc' = "pipe"
    <3>1. Proper(Command("cpp|", {job.name}, {}))
      BY ScratchApart DEF Proper, Command
    <3>2. Starts
      BY <2>5, <3>1 DEF Starts, Command
    <3> QED
      BY <2>1, <3>2
  <2> QED
    BY <1>10, <2>2, <2>3, <2>4, <2>5 DEF cpp, callstate
<1>11. CASE cpp_done \/ pipe_done \/ as_done \/ object \/ arg_status
  BY <1>11 DEF cpp_done, pipe_done, as_done, object, arg_status, callstate, Starts
<1>12. CASE pipe
  <2>1. /\ rmlist' = rmlist /\ UNCHANGED <<files, errcnt>> /\ suffix(job.name) = "c"
        /\ callsys(Command("rcc", {}, {Listing, Ctext}), IF flags.S THEN "arg_status" ELSE "pipe_done")
    BY <1>1, <1>12 DEF pipe, compile, JobInv
  <2> QED
    BY <1>6, <2>1, CallsysStarts
<1>13. CASE rcc
  <2>1. /\ rmlist' = rmlist /\ UNCHANGED files /\ (errcnt' = errcnt \/ errcnt' = errcnt + 1) /\ suffix(job.name) = "i"
        /\ \/ callsys(Command("rcc", {job.name}, {Listing, Ctext}), "rcc_done")
           \/ UNCHANGED children /\ pc' # "wait"
    BY <1>13 DEF rcc, compile, callstate
  <2>2. Starts
    BY <1>6, <2>1, CallsysStarts DEF Starts
  <2> QED
    BY <2>1, <2>2
<1>14. CASE rcc_done
  <2>1. rmlist' = rmlist /\ UNCHANGED children /\ pc' # "wait" /\ (errcnt' = errcnt \/ errcnt' = errcnt + 1)
    BY <1>14 DEF rcc_done, callstate
  <2>2. UNCHANGED files \/ \E text : files' = With({Optimised}, text)
    BY <1>14 DEF rcc_done, copt
  <2>3. suffix(src) \in {"c", "i"}
    BY <1>1, <1>4, <1>14 DEF rcc_done, JobInv
  <2>4. Follows(Optimised)
    BY <1>1, <1>3, <2>1, PlacedFollows
  <2> QED
    BY <1>3, <2>1, <2>2, <2>3, <2>4 DEF Starts
<1>15. CASE cc2
  <2>1. /\ rmlist' = rmlist /\ UNCHANGED <<files, errcnt>> /\ suffix(job.name) = "s"
        /\ \/ callsys(Command("cc2", {Optimised}, {job.name}), "cc2_done")
           \/ UNCHANGED children /\ pc' # "wait"
    BY <1>15 DEF cc2, callstate
  <2>2. Starts
    BY <1>3, <1>8, <2>1, CallsysStarts DEF Starts
  <2> QED
    BY <2>1, <2>2
<1>16. CASE cc2_done
  <2>1. /\ rmlist' = rmlist /\ UNCHANGED files /\ (errcnt' = errcnt \/ errcnt' = errcnt + 1)
        /\ \/ callsys(Command("as", {job.name}, {Object}), "as_done")
           \/ UNCHANGED children /\ pc' # "wait"
    BY <1>16 DEF cc2_done, callstate
  <2>2. Starts
    BY <1>3, <1>8, <2>1, CallsysStarts DEF Starts
  <2> QED
    BY <2>1, <2>2
<1>17. CASE library
  <2>1. /\ rmlist' = rmlist /\ UNCHANGED <<files, errcnt>>
        /\ \/ callsys(Command("cpp", {job.name}, {}), "arg_status")
           \/ UNCHANGED children /\ pc' # "wait"
    BY <1>17 DEF library, callstate
  <2>2. Starts
    BY <1>7, <2>1, CallsysStarts DEF Starts
  <2> QED
    BY <2>1, <2>2
<1> QED
  BY <1>10, <1>11, <1>12, <1>13, <1>14, <1>15, <1>16, <1>17 DEF filename

LEMMA MainEffect ==
  ASSUME Settings, JobInv, TempInv, NextFile \/ xlate \/ xlate_done \/ xcc_done \/ ld_done
  PROVE  /\ rmlist \subseteq rmlist' /\ (~Collide /\ ~Shadows => rmlist' \cap Translated \subseteq rmlist)
         /\ errcnt' \in Nat /\ UNCHANGED <<files, exit>> /\ pc' # "over"
         /\ Starts
         /\ \A f : Tracked(f) => Follows(f)
         /\ ~flags.keep /\ next' > 1 => TempsOf \subseteq rmlist'
<1>1. /\ Frozen /\ errcnt \in Nat /\ (~flags.keep /\ next > 1 => TempsOf \subseteq rmlist)
      /\ pc \notin {"wait", "options"} /\ at = pc
  BY MainMoves DEF TempInv, at
<1>2. outfile # <<>> => Given(outfile)
  BY DEF Settings
<1>3. ASSUME ~Collide, ~Shadows
      PROVE  /\ xname("c") \notin Translated /\ xname("o") \notin Translated /\ Executable \notin Translated
             /\ TempX("c") \notin Translated /\ TempX("o") \notin Translated
             /\ Temp("s") \notin Translated /\ Dotted(Temp("s"), "b") \notin Translated /\ Dotted(Temp("s"), "c") \notin Translated
  BY <1>3, OutputsApart DEF Translated
<1>4. ASSUME NEW tool, NEW ins, NEW out, tool # "cpp|", tool # "rcc", Follows(out),
             ~Collide /\ ~Shadows => out \notin Translated
      PROVE  Proper(Command(tool, ins, {out}))
  <2> DEFINE cmd == Command(tool, ins, {out})
  <2>1. cmd.tool = tool /\ cmd.outs = {out}
    BY DEF Command
  <2> HIDE DEF cmd
  <2>2. Scratch(cmd) = {}
    BY <1>4, <2>1 DEF Scratch
  <2> QED
    BY <1>4, <2>1, <2>2 DEF Proper, cmd
<1>5. ASSUME LinkStage => LinkStage' \/ flags.keep \/ XTemps \subseteq rmlist', rmlist \subseteq rmlist'
      PROVE  \A f : Tracked(f) => Follows(f)
  BY <1>1, <1>5 DEF Tracked, Follows, Frozen, XTemps, TempX
<1>6. Frozen => xname("c")' = xname("c") /\ xname("o")' = xname("o")
  BY DEF Frozen, xname
<1>10. CASE NextFile
  <2>1. /\ rmlist' = (IF flags.keep THEN rmlist ELSE rmlist \cup TempsOf) /\ UNCHANGED <<files, exit, errcnt, children>>
        /\ pc = "arg" /\ pc' = "file"
    BY <1>10 DEF NextFile, callstate
  <2>2. ~LinkStage
    BY <1>1, <2>1 DEF LinkStage
  <2>3. ~Collide /\ ~Shadows => rmlist' \cap Translated \subseteq rmlist
    BY <1>3, <2>1 DEF TempsOf
  <2> QED
    BY <1>1, <1>5, <2>1, <2>2, <2>3 DEF Starts
<1>11. CASE xlate
  <2>1. /\ pc = "arg" /\ UNCHANGED <<files, errcnt, next, exit>>
        /\ rmlist' = (IF OnlySource THEN rmlist \cup {concat(basename(argv[1]), "o")} ELSE rmlist)
        /\ callsys(Command("xlate", Range(llist), {xname("c")}), "xlate_done")
    BY <1>11 DEF xlate, mainstate
  <2>2. at' = "xlate_done" /\ LinkStage'
    BY <2>1, CallsysMoves DEF LinkStage
  <2>3. Follows(xname("c"))
    BY <1>1, <2>2 DEF Follows, xname, TempX, XTemps, Frozen
  <2>4. Starts
    BY <1>3, <1>4, <2>1, <2>3, CallsysStarts
  <2>5. ~Collide /\ ~Shadows => rmlist' \cap Translated \subseteq rmlist
    <3>1. concat(basename(argv[1]), "o") \notin Translated
      BY DEF concat, Translated, suffix
    <3> QED
      BY <2>1, <3>1
  <2>6. pc' # "over"
    BY <2>1, CallsysMoves
  <2> QED
    BY <1>1, <1>5, <2>1, <2>2, <2>4, <2>5, <2>6
<1>12. CASE xlate_done
  <2>1. pc = "xlate_done" /\ UNCHANGED <<files, next, exit, rmlist>>
    BY <1>12 DEF xlate_done, mainstate
  <2>2. CASE pc' = "quit" /\ errcnt' = errcnt + 1 /\ UNCHANGED children
    <3>1. LinkStage'
      BY <1>1, <2>2 DEF LinkStage
    <3> QED
      BY <1>1, <1>5, <2>1, <2>2, <3>1 DEF Starts
  <2>3. CASE callsys(Command("cc2", {xname("c")}, {xname("o")}), "xcc_done") /\ UNCHANGED errcnt
    <3>1. at' = "xcc_done" /\ LinkStage' /\ pc' # "over"
      BY <2>3, CallsysMoves DEF LinkStage
    <3>2. Follows(xname("o"))
      BY <1>1, <3>1 DEF Follows, xname, TempX, XTemps, Frozen
    <3>3. Starts
      BY <1>3, <1>4, <2>3, <3>2, CallsysStarts
    <3> QED
      BY <1>1, <1>5, <2>1, <2>3, <3>1, <3>3
  <2> QED
    BY <1>12, <2>2, <2>3 DEF xlate_done, callstate
<1>13. CASE xcc_done
  <2>1. pc = "xcc_done" /\ UNCHANGED <<files, next, exit>>
    BY <1>13 DEF xcc_done, mainstate
  <2>2. CASE pc' = "quit" /\ errcnt' = errcnt + 1 /\ UNCHANGED <<rmlist, children>>
    <3>1. LinkStage'
      BY <1>1, <2>2 DEF LinkStage
    <3> QED
      BY <1>1, <1>5, <2>1, <2>2, <3>1 DEF Starts
  <2>3. CASE /\ callsys(Command("ld", Range(llist'), {Executable}), "ld_done") /\ UNCHANGED errcnt
             /\ rmlist' = IF flags.keep THEN rmlist ELSE rmlist \cup {xname("c"), xname("o")}
    <3>1. pc' # "over"
      BY <2>3, CallsysMoves
    <3>2. flags.keep \/ XTemps \subseteq rmlist'
      BY <2>3 DEF xname, XTemps
    <3>3. Follows(Executable)
      BY <1>2 DEF Follows, Executable, concat, Given, Own
    <3>4. Starts
      BY <1>3, <1>4, <2>3, <3>3, CallsysStarts
    <3>5. ~Collide /\ ~Shadows => rmlist' \cap Translated \subseteq rmlist
      BY <1>3, <2>3
    <3> QED
      BY <1>1, <1>5, <2>1, <2>3, <3>1, <3>2, <3>4, <3>5
  <2> QED
    BY <1>13, <2>2, <2>3 DEF xcc_done, callstate
<1>14. CASE ld_done
  <2>1. /\ pc = "ld_done" /\ pc' = "quit" /\ UNCHANGED <<files, next, exit, rmlist, children>>
        /\ errcnt' = errcnt + (IF Succeeded THEN 0 ELSE 1)
    BY <1>14 DEF ld_done, callstate, mainstate
  <2>3. errcnt' \in Nat
    <3>1. CASE Succeeded
      BY <1>1, <2>1, <3>1
    <3>2. CASE ~Succeeded
      BY <1>1, <2>1, <3>2
    <3> QED
      BY <3>1, <3>2
  <2>2. ~LinkStage
    BY <1>1, <2>1 DEF LinkStage
  <2> QED
    BY <1>1, <1>5, <2>1, <2>2, <2>3 DEF Starts
<1> QED
  BY <1>10, <1>11, <1>12, <1>13, <1>14

-----------------------------------------------------------------------------
(* The driver's own steps.                                                 *)

\* What killed compilers left.
LEMMA KilledScratch ==
  ASSUME NEW ch
  PROVE  \A f : f \in KilledAmong(ch) <=>
                 \E c \in DOMAIN ch : ch[c].cmd.tool = "rcc" /\ ch[c].code = "killed" /\ f \in Scratch(ch[c].cmd)
<1> DEFINE left(c) == IF ch[c].cmd.tool = "rcc" /\ ch[c].code = "killed" THEN Scratch(ch[c].cmd) ELSE {}
<1>1. \A f, c : f \in left(c) <=> ch[c].cmd.tool = "rcc" /\ ch[c].code = "killed" /\ f \in Scratch(ch[c].cmd)
  OBVIOUS
<1>2. KilledAmong(ch) = UNION {left(c) : c \in DOMAIN ch}
  BY DEF KilledAmong
<1> HIDE DEF left
<1>3. \A f : f \in UNION {left(c) : c \in DOMAIN ch} <=> \E c \in DOMAIN ch : f \in left(c)
  BY Zenon
<1> QED
  BY <1>1, <1>2, <1>3

LEMMA KilledGrows ==
  ASSUME NEW ch, NEW dh, DOMAIN ch \subseteq DOMAIN dh,
         \A d \in DOMAIN ch : dh[d].cmd = ch[d].cmd /\ (ch[d].code = "killed" => dh[d].code = "killed")
  PROVE  KilledAmong(ch) \subseteq KilledAmong(dh)
<1> SUFFICES ASSUME NEW f \in KilledAmong(ch)
             PROVE  f \in KilledAmong(dh)
  OBVIOUS
<1>1. PICK c \in DOMAIN ch : ch[c].cmd.tool = "rcc" /\ ch[c].code = "killed" /\ f \in Scratch(ch[c].cmd)
  BY KilledScratch
<1>2. c \in DOMAIN dh /\ dh[c].cmd.tool = "rcc" /\ dh[c].code = "killed" /\ f \in Scratch(dh[c].cmd)
  BY <1>1
<1> QED
  BY <1>2, KilledScratch

LEMMA LeftoverIs ==
  /\ Leftover = Killed \cup (IF exit # 0 THEN XTemps ELSE {}) \cup ghost.interrupted
  /\ Leftover' = Killed' \cup (IF exit' # 0 THEN XTemps ELSE {}) \cup ghost'.interrupted
<1>1. Leftover = Killed \cup (IF exit # 0 THEN XTemps ELSE {}) \cup ghost.interrupted
  BY DEF Leftover, Killed, KilledAmong, Code, XTemps
<1>2. Leftover' = Killed' \cup (IF exit' # 0 THEN XTemps' ELSE {}) \cup ghost'.interrupted
  BY DEF Leftover, Killed, KilledAmong, Code, XTemps
<1>3. XTemps' = XTemps
  BY DEF XTemps, TempX
<1> QED
  BY <1>1, <1>2, <1>3

LEMMA SameArguments ==
  ASSUME Frozen
  PROVE  /\ Arguments' = Arguments /\ Translated' = Translated /\ flags' = flags
         /\ (Collide <=> Collide') /\ (Shadows <=> Shadows')
BY DEF Frozen, Arguments, Translated, Collide, Shadows

\* What a step keeps that starts at most one command, and a proper one.
LEMMA StepKeeps ==
  ASSUME ChildInv, SourceInv, TempInv, Frozen, UNCHANGED exit,
         pc \notin {"wait", "over"}, pc' # "over", errcnt' \in Nat, "interrupted" \in DOMAIN ghost',
         Starts,
         ~flags.keep /\ next' > 1 => TempsOf \subseteq rmlist',
         ~Collide /\ ~Shadows => rmlist' \cap Translated = {},
         \A f : Tracked(f) => Follows(f),
         \/ UNCHANGED files
         \/ \E out, text : files' = With({out}, text) /\ Follows(out) /\ (~Collide /\ ~Shadows => out \notin Translated)
  PROVE  ChildInv' /\ SourceInv' /\ TempInv'
<1>1. exit = NoExit /\ exit' = NoExit
  BY DEF TempInv
<1>2. /\ Translated' = Translated /\ flags' = flags
      /\ (Collide <=> Collide') /\ (Shadows <=> Shadows')
  BY SameArguments
<1>3. /\ ChildInv' /\ DOMAIN children \subseteq DOMAIN children'
      /\ \A d \in DOMAIN children : children'[d] = children[d]
      /\ \A d \in DOMAIN children' : d \notin DOMAIN children => Proper(children'[d].cmd)
  <2>1. CASE UNCHANGED children /\ pc' # "wait"
    BY <1>1, <2>1 DEF ChildInv, IsChild
  <2>2. ASSUME NEW cmd, children' = Append(children, Child(cmd)), Proper(cmd),
               \/ cmd.tool = "cpp|"
               \/ pc' = "wait" /\ awaited' = Len(children) + 1,
               pc' = "wait" => awaited' = Len(children) + 1
        PROVE  /\ ChildInv' /\ DOMAIN children \subseteq DOMAIN children'
               /\ \A d \in DOMAIN children : children'[d] = children[d]
               /\ \A d \in DOMAIN children' : d \notin DOMAIN children => Proper(children'[d].cmd)
    <3>1. /\ children' \in Seq(Range(children')) /\ Len(children') = Len(children) + 1
          /\ DOMAIN children' = DOMAIN children \cup {Len(children) + 1}
          /\ \A d \in DOMAIN children : children'[d] = children[d]
          /\ children'[Len(children) + 1] = Child(cmd)
          /\ Child(cmd).cmd = cmd
          /\ \A d \in DOMAIN children' : IsChild(children'[d])
      BY <2>2, ForkEffect DEF Proper
    <3>2. \A d \in DOMAIN children' : \/ children'[d].st = "reaped" \/ children'[d].cmd.tool = "cpp|"
                                      \/ pc' = "wait" /\ d = awaited'
      BY <1>1, <2>2, <3>1 DEF ChildInv
    <3>3. ChildInv'
      BY <3>1, <3>2 DEF ChildInv, IsChild
    <3> QED
      BY <2>2, <3>1, <3>3
  <2> QED
    BY <2>1, <2>2 DEF Starts
<1>4. SourceInv'
  <2>1. SUFFICES ASSUME ~Collide, ~Shadows
                 PROVE  /\ \A c \in DOMAIN children' : Produces(c)' \cap Translated = {}
                        /\ rmlist' \cap Translated = {}
                        /\ \A f \in Translated \cap Disk : f \in DOMAIN files' /\ files'[f] = {f}
    BY <1>2 DEF SourceInv
  <2>2. \A c \in DOMAIN children' : Produces(c)' \cap Translated = {}
    <3> SUFFICES ASSUME NEW c \in DOMAIN children'
                 PROVE  (children'[c].cmd.outs \cup Scratch(children'[c].cmd)) \cap Translated = {}
      BY DEF Produces, Scratch
    <3>1. CASE c \in DOMAIN children
      BY <1>3, <2>1, <3>1 DEF SourceInv, Produces
    <3>2. CASE c \notin DOMAIN children
      BY <1>3, <2>1, <3>2 DEF Proper
    <3> QED
      BY <3>1, <3>2
  <2>3. \A f \in Translated \cap Disk : f \in DOMAIN files' /\ files'[f] = {f}
    BY <2>1 DEF SourceInv, With
  <2> QED
    BY <2>1, <2>2, <2>3
<1>5. \A f : Follows(f) <=> Tracked(f)'
  BY DEF Follows, Tracked
<1>6. Killed \subseteq Killed'
  BY <1>3, KilledGrows DEF Killed
<1>7. \A f \in DOMAIN files' : f \in Killed' \/ Tracked(f)'
  <2>1. \A f \in DOMAIN files : f \in Killed' \/ Follows(f)
    BY <1>1, <1>6 DEF TempInv
  <2>2. \A f \in DOMAIN files' : f \in DOMAIN files \/ Follows(f)
    BY DEF With
  <2> QED
    BY <1>5, <2>1, <2>2
<1>8. \A c \in DOMAIN children' : children'[c].st = "runs" => \A f \in children'[c].cmd.outs : Tracked(f)'
  <2> SUFFICES ASSUME NEW c \in DOMAIN children', children'[c].st = "runs", NEW f \in children'[c].cmd.outs
               PROVE  Follows(f)
    BY <1>5
  <2>1. CASE c \in DOMAIN children
    BY <1>1, <1>3, <2>1 DEF TempInv
  <2>2. CASE c \notin DOMAIN children
    BY <1>3, <2>2 DEF Proper
  <2> QED
    BY <2>1, <2>2
<1>9. TempInv'
  BY <1>1, <1>2, <1>7, <1>8 DEF TempInv, TempsOf, Temp, Dotted
<1> QED
  BY <1>3, <1>4, <1>9

LEMMA FilenameKeeps ==
  ASSUME IInv, filename
  PROVE  ChildInv' /\ SourceInv' /\ TempInv'
<1> USE DEF IInv
<1>1. /\ Frozen /\ UNCHANGED <<next, exit>> /\ pc \in InFile
      /\ at' \in InFile \cup {"arg"} /\ (pc' = "wait" \/ pc' = at')
  BY FilenameMoves
<1>2. /\ rmlist \subseteq rmlist' /\ rmlist' \subseteq rmlist \cup {Temp("i")}
      /\ errcnt \in Nat => errcnt' \in Nat
      /\ Starts
      /\ \/ UNCHANGED files
         \/ /\ \E text : files' = With({Optimised}, text)
            /\ Follows(Optimised) /\ (~Collide /\ ~Shadows => Optimised \notin Translated)
  BY FilenameEffect
<1>3. pc \notin {"wait", "over"} /\ pc' # "over" /\ errcnt' \in Nat /\ ~LinkStage
  BY <1>1, <1>2 DEF InFile, TempInv, LinkStage, at
<1>4. \A f : Tracked(f) => Follows(f)
  BY <1>1, <1>2, <1>3 DEF Tracked, Follows, Frozen
<1>5. ~Collide /\ ~Shadows => rmlist' \cap Translated = {}
  <2>1. ~Collide /\ ~Shadows => Temp("i") \notin Translated /\ rmlist \cap Translated = {}
    BY OutputsApart DEF Translated, SourceInv
  <2> QED
    BY <1>2, <2>1
<1>6. ~flags.keep /\ next' > 1 => TempsOf \subseteq rmlist'
  BY <1>1, <1>2 DEF TempInv
<1>7. "interrupted" \in DOMAIN ghost'
  <2>1. ghost' = ghost \/ ghost' = [ghost EXCEPT !.coptfailed = TRUE]
    BY DEF filename, cpp, cpp_done, pipe, pipe_done, rcc, rcc_done, copt, cc2, cc2_done, as_done, object, library, arg_status
  <2> QED
    BY <2>1 DEF TempInv
<1>8. \/ UNCHANGED files
      \/ \E out, text : files' = With({out}, text) /\ Follows(out) /\ (~Collide /\ ~Shadows => out \notin Translated)
  BY <1>2
<1> QED
  BY <1>1, <1>2, <1>3, <1>4, <1>5, <1>6, <1>7, <1>8, StepKeeps

LEMMA MainKeeps ==
  ASSUME IInv, NextFile \/ xlate \/ xlate_done \/ xcc_done \/ ld_done
  PROVE  ChildInv' /\ SourceInv' /\ TempInv'
<1> USE DEF IInv
<1>1. Frozen /\ pc \notin {"wait", "over"}
  BY MainMoves
<1>2. /\ rmlist \subseteq rmlist' /\ (~Collide /\ ~Shadows => rmlist' \cap Translated \subseteq rmlist)
      /\ errcnt' \in Nat /\ UNCHANGED <<files, exit>> /\ pc' # "over"
      /\ Starts
      /\ \A f : Tracked(f) => Follows(f)
      /\ ~flags.keep /\ next' > 1 => TempsOf \subseteq rmlist'
  BY MainEffect
<1>4. "interrupted" \in DOMAIN ghost'
  BY DEF TempInv, NextFile, xlate, xlate_done, xcc_done, ld_done
<1>3. ~Collide /\ ~Shadows => rmlist' \cap Translated = {}
  BY <1>2 DEF SourceInv
<1> QED
  BY <1>1, <1>2, <1>3, <1>4, StepKeeps

-----------------------------------------------------------------------------
(* Children end, and so does the driver.                                   *)

\* What one child's end changes: its own record, and files that it may write.
LEMMA ChildEffect ==
  ASSUME ChildInv, ChildStep
  PROVE  /\ Frozen /\ UNCHANGED <<next, job, pc, then, status, awaited, rmlist, llist, errcnt, exit, ghost>>
         /\ \E c \in DOMAIN children, st \in {"closed", "dead"} : \E code, names :
              /\ Become(c, st, code) /\ children[c].st \in {"runs", "closed"}
              /\ children[c].st = "closed" => code = Code(c) /\ UNCHANGED files
              /\ names \subseteq Produces(c) /\ (names \subseteq children[c].cmd.outs \/ code = "killed")
              /\ UNCHANGED files \/ \E text : files' = With(names, text)
<1>1. Frozen /\ UNCHANGED <<next, job, pc, then, status, awaited, rmlist, llist, errcnt, exit, ghost>>
  BY DEF ChildStep, Frozen
<1>2. PICK c \in DOMAIN children : ChildSucceeds(c) \/ ChildFails(c) \/ PipeWriterExits(c)
  BY DEF ChildStep
<1>3. CASE ChildSucceeds(c)
  <2>1. PICK st \in {"closed", "dead"} : Become(c, st, "ok")
    BY <1>3 DEF ChildSucceeds
  <2>2. children[c].st = "runs" /\ files' = With(children[c].cmd.outs, Produced(children[c].cmd))
    BY <1>3 DEF ChildSucceeds
  <2>3. children[c].cmd.outs \subseteq Produces(c)
    BY DEF Produces
  <2> QED
    BY <1>1, <2>1, <2>2, <2>3
<1>4. CASE ChildFails(c)
  <2>1. PICK code : /\ Become(c, IF children[c].cmd.tool = "cpp|" THEN "closed" ELSE "dead", code)
                    /\ \/ UNCHANGED files
                       \/ files' = With(children[c].cmd.outs \cup (IF code = "killed" THEN Scratch(children[c].cmd) ELSE {}),
                                        IF code = "none" THEN {} ELSE {Garbage})
    BY <1>4 DEF ChildFails
  <2>2. PICK st \in {"closed", "dead"} : Become(c, st, code)
    BY <2>1
  <2>3. children[c].st = "runs"
    BY <1>4 DEF ChildFails
  <2>4. PICK names : /\ names \subseteq Produces(c) /\ (names \subseteq children[c].cmd.outs \/ code = "killed")
                     /\ UNCHANGED files \/ \E text : files' = With(names, text)
    <3> DEFINE written == children[c].cmd.outs \cup (IF code = "killed" THEN Scratch(children[c].cmd) ELSE {})
    <3>1. written \subseteq Produces(c) /\ (written \subseteq children[c].cmd.outs \/ code = "killed")
      BY DEF Produces
    <3>2. UNCHANGED files \/ \E text : files' = With(written, text)
      BY <2>1
    <3> HIDE DEF written
    <3> QED
      BY <3>1, <3>2
  <2> QED
    BY <1>1, <2>2, <2>3, <2>4
<1>5. CASE PipeWriterExits(c)
  <2>1. children[c].st = "closed" /\ Become(c, "dead", Code(c)) /\ UNCHANGED files
    BY <1>5 DEF PipeWriterExits
  <2>2. {} \subseteq Produces(c) /\ {} \subseteq children[c].cmd.outs
    OBVIOUS
  <2>3. /\ children[c].st \in {"runs", "closed"} /\ Become(c, "dead", Code(c))
        /\ children[c].st = "closed" => Code(c) = Code(c) /\ UNCHANGED files
        /\ {} \subseteq Produces(c) /\ ({} \subseteq children[c].cmd.outs \/ Code(c) = "killed")
        /\ UNCHANGED files \/ \E text : files' = With({}, text)
    BY <2>1
  <2>4. \E st \in {"closed", "dead"} :
          /\ children[c].st \in {"runs", "closed"} /\ Become(c, st, Code(c))
          /\ children[c].st = "closed" => Code(c) = Code(c) /\ UNCHANGED files
          /\ {} \subseteq Produces(c) /\ ({} \subseteq children[c].cmd.outs \/ Code(c) = "killed")
          /\ UNCHANGED files \/ \E text : files' = With({}, text)
    BY <2>3
  <2> QED
    BY <1>1, <2>4
<1> QED
  BY <1>2, <1>3, <1>4, <1>5

LEMMA ChildKeeps ==
  ASSUME ChildInv, SourceInv, TempInv, ChildStep
  PROVE  ChildInv' /\ SourceInv' /\ TempInv'
<1>1. Frozen /\ UNCHANGED <<next, pc, then, awaited, rmlist, errcnt, exit, ghost>>
  BY ChildEffect
<1>2. PICK c \in DOMAIN children, st \in {"closed", "dead"} : \E code, names :
        /\ Become(c, st, code) /\ children[c].st \in {"runs", "closed"}
        /\ children[c].st = "closed" => code = Code(c) /\ UNCHANGED files
        /\ names \subseteq Produces(c) /\ (names \subseteq children[c].cmd.outs \/ code = "killed")
        /\ UNCHANGED files \/ \E text : files' = With(names, text)
  BY ChildEffect
<1>16. PICK code, names :
        /\ Become(c, st, code) /\ children[c].st \in {"runs", "closed"}
        /\ children[c].st = "closed" => code = Code(c) /\ UNCHANGED files
        /\ names \subseteq Produces(c) /\ (names \subseteq children[c].cmd.outs \/ code = "killed")
        /\ UNCHANGED files \/ \E text : files' = With(names, text)
  BY <1>2
<1>3. /\ children' \in Seq(Range(children')) /\ DOMAIN children' = DOMAIN children
      /\ \A d \in DOMAIN children : children'[d].cmd = children[d].cmd /\ (d # c => children'[d] = children[d])
      /\ children'[c].st = st /\ children'[c].code = code
      /\ \A d \in DOMAIN children' : IsChild(children'[d])
  BY <1>16, BecomeEffect
<1>4. /\ Translated' = Translated /\ flags' = flags
      /\ (Collide <=> Collide') /\ (Shadows <=> Shadows')
  BY <1>1, SameArguments
<1>5. \A d \in DOMAIN children : Produces(d)' = Produces(d)
  BY <1>3 DEF Produces, Scratch
<1>6. ChildInv'
  <2>1. exit = NoExit =>
          \A d \in DOMAIN children' : \/ children'[d].st = "reaped" \/ children'[d].cmd.tool = "cpp|"
                                      \/ pc = "wait" /\ d = awaited
    BY <1>16, <1>3 DEF ChildInv
  <2> QED
    BY <1>1, <1>3, <2>1 DEF ChildInv, IsChild
<1>7. SourceInv'
  <2>1. ~Collide /\ ~Shadows => names \cap Translated = {}
    BY <1>16 DEF SourceInv
  <2>2. ~Collide /\ ~Shadows => \A f \in Translated \cap Disk : f \in DOMAIN files' /\ files'[f] = {f}
    BY <1>16, <2>1 DEF SourceInv, With
  <2>3. ~Collide /\ ~Shadows => \A d \in DOMAIN children' : Produces(d)' \cap Translated = {}
    BY <1>3, <1>5 DEF SourceInv
  <2> QED
    BY <1>1, <1>4, <2>2, <2>3 DEF SourceInv
<1>8. \A f : Tracked(f)' <=> Tracked(f)
  BY <1>1, <1>4 DEF Tracked, LinkStage, at
<1>9. Killed \subseteq Killed' /\ (code = "killed" => Scratch(children[c].cmd) \subseteq Killed')
  <2>1. \A d \in DOMAIN children : Code(d) = "killed" => children'[d].code = "killed"
    <3> SUFFICES ASSUME NEW d \in DOMAIN children, Code(d) = "killed"
                 PROVE  children'[d].code = "killed"
      OBVIOUS
    <3>1. CASE d # c
      BY <1>3, <3>1 DEF Code
    <3>2. CASE d = c
      <4>1. children[c].st # "runs"
        BY <3>2 DEF ChildInv, IsChild, Code
      <4> QED
        BY <1>16, <1>3, <3>2, <4>1
    <3> QED
      BY <3>1, <3>2
  <2>2. Killed \subseteq Killed'
    BY <1>3, <2>1, KilledGrows DEF Killed, Code
  <2>3. ASSUME code = "killed", NEW f \in Scratch(children[c].cmd)
        PROVE  f \in KilledAmong(children')
    <3>1. children[c].cmd.tool = "rcc"
      BY <2>3 DEF Scratch
    <3>2. c \in DOMAIN children' /\ children'[c].cmd = children[c].cmd /\ children'[c].code = "killed"
      BY <1>3, <2>3
    <3> QED
      BY <2>3, <3>1, <3>2, KilledScratch
  <2>4. KilledAmong(children') = Killed'
    BY DEF Killed
  <2> QED
    BY <2>2, <2>3, <2>4
<1>10. \A f \in DOMAIN files' : f \in DOMAIN files \/ (children[c].st = "runs" /\ f \in names)
  BY <1>16 DEF With
<1>11. names \subseteq children[c].cmd.outs \cup Killed'
  BY <1>16, <1>9 DEF Produces
<1>12. exit = NoExit => \A f \in DOMAIN files' : f \in Killed' \/ Tracked(f)'
  BY <1>8, <1>9, <1>10, <1>11 DEF TempInv
<1>13. exit = NoExit => \A d \in DOMAIN children' : children'[d].st = "runs" => \A f \in children'[d].cmd.outs : Tracked(f)'
  <2> SUFFICES ASSUME exit = NoExit, NEW d \in DOMAIN children', children'[d].st = "runs", NEW f \in children'[d].cmd.outs
               PROVE  Tracked(f)
    BY <1>8
  <2>1. d # c
    BY <1>3
  <2> QED
    BY <1>3, <2>1 DEF TempInv
<1>14. exit # NoExit => \A f \in DOMAIN files' : f[1] = "tmp" => f \in Leftover'
  <2>1. Leftover = Killed \cup (IF exit # 0 THEN XTemps ELSE {}) \cup ghost.interrupted
    BY LeftoverIs
  <2>2. Leftover' = Killed' \cup (IF exit # 0 THEN XTemps ELSE {}) \cup ghost.interrupted
    BY <1>1, LeftoverIs
  <2> SUFFICES ASSUME exit # NoExit, NEW f \in DOMAIN files', f[1] = "tmp"
               PROVE  f \in Leftover'
    OBVIOUS
  <2>3. CASE f \in DOMAIN files
    BY <1>9, <2>1, <2>2, <2>3 DEF TempInv
  <2>4. CASE children[c].st = "runs" /\ f \in names
    <3>1. CASE children[c].cmd.tool = "cpp|"
      <4>1. Produces(c) = {}
        BY <3>1 DEF Produces, Scratch, ChildInv, IsChild
      <4> QED
        BY <1>16, <2>4, <4>1
    <3>2. CASE children[c].cmd.tool # "cpp|"
      BY <1>16, <2>2, <2>4, <3>2 DEF TempInv
    <3> QED
      BY <3>1, <3>2
  <2> QED
    BY <1>10, <2>3, <2>4
<1>15. exit # NoExit => \A d \in DOMAIN children' :
         children'[d].st = "runs" => children'[d].cmd.tool = "cpp|" \/ Produces(d)' \subseteq ghost'.interrupted
  <2> SUFFICES ASSUME exit # NoExit, NEW d \in DOMAIN children', children'[d].st = "runs"
               PROVE  children'[d].cmd.tool = "cpp|" \/ Produces(d)' \subseteq ghost.interrupted
    BY <1>1
  <2>1. d # c
    BY <1>3
  <2> QED
    BY <1>3, <1>5, <2>1 DEF TempInv
<1> QED
  BY <1>1, <1>4, <1>6, <1>7, <1>12, <1>13, <1>14, <1>15 DEF TempInv, TempsOf, Temp, Dotted

LEMMA WaitKeeps ==
  ASSUME JobInv, ChildInv, SourceInv, TempInv, Wait
  PROVE  ChildInv' /\ SourceInv' /\ TempInv'
<1>1. /\ Frozen /\ UNCHANGED <<next, then, awaited, files, rmlist, errcnt, exit, ghost>> /\ pc = "wait"
      /\ then \notin {"wait", "over", "quit"}
  BY DEF Wait, Frozen, JobInv
<1>2. PICK c \in DOMAIN children : Become(c, "reaped", Code(c)) /\ pc' = IF c = awaited THEN then ELSE "wait"
  BY DEF Wait
<1>3. /\ children' \in Seq(Range(children')) /\ DOMAIN children' = DOMAIN children
      /\ \A d \in DOMAIN children : children'[d].cmd = children[d].cmd /\ (d # c => children'[d] = children[d])
      /\ children'[c].st = "reaped" /\ children'[c].code = Code(c)
      /\ \A d \in DOMAIN children' : IsChild(children'[d])
  BY <1>2, BecomeEffect
<1>4. /\ Translated' = Translated /\ flags' = flags
      /\ (Collide <=> Collide') /\ (Shadows <=> Shadows')
  BY <1>1, SameArguments
<1>5. exit = NoExit
  BY <1>1 DEF TempInv
<1>6. ChildInv'
  <2>1. \A d \in DOMAIN children' : \/ children'[d].st = "reaped" \/ children'[d].cmd.tool = "cpp|"
                                    \/ pc' = "wait" /\ d = awaited
    BY <1>1, <1>2, <1>3, <1>5 DEF ChildInv
  <2> QED
    BY <1>1, <1>3, <2>1 DEF ChildInv, IsChild
<1>7. \A d \in DOMAIN children : Produces(d)' = Produces(d)
  BY <1>3 DEF Produces, Scratch
<1>8. SourceInv'
  BY <1>1, <1>3, <1>4, <1>7 DEF SourceInv
<1>9. \A f : Tracked(f)' <=> Tracked(f)
  <2>1. at' = at /\ (LinkStage' <=> LinkStage)
    BY <1>1, <1>2 DEF at, LinkStage
  <2> QED
    BY <1>1, <1>4, <2>1 DEF Tracked, XTemps, TempX
<1>10. Killed \subseteq Killed'
  <2>1. \A d \in DOMAIN children : children[d].code = "killed" => children'[d].code = "killed"
    BY <1>3 DEF Code
  <2> QED
    BY <1>3, <2>1, KilledGrows DEF Killed
<1>11. \A d \in DOMAIN children' : children'[d].st = "runs" => \A f \in children'[d].cmd.outs : Tracked(f)'
  <2> SUFFICES ASSUME NEW d \in DOMAIN children', children'[d].st = "runs", NEW f \in children'[d].cmd.outs
               PROVE  Tracked(f)
    BY <1>9
  <2>1. d # c
    BY <1>3
  <2> QED
    BY <1>3, <1>5, <2>1 DEF TempInv
<1> QED
  BY <1>1, <1>2, <1>4, <1>5, <1>6, <1>8, <1>9, <1>10, <1>11 DEF TempInv, TempsOf, Temp, Dotted

\* Whatever ends the driver removes what is on the list.
LEMMA EndKeeps ==
  ASSUME ChildInv, SourceInv, TempInv, Quit \/ interrupt
  PROVE  ChildInv' /\ SourceInv' /\ TempInv'
<1>1. /\ Frozen /\ UNCHANGED <<next, children, rmlist, errcnt>> /\ pc' = "over" /\ pc # "over"
      /\ files' = Without(rmlist) /\ exit' \in {0, 1, 100}
      /\ "interrupted" \in DOMAIN ghost'
  BY DEF Quit, interrupt, Frozen, callstate, TempInv
<1>2. /\ Translated' = Translated /\ flags' = flags
      /\ (Collide <=> Collide') /\ (Shadows <=> Shadows')
  BY <1>1, SameArguments
<1>3. exit = NoExit /\ exit' # NoExit
  BY <1>1 DEF TempInv, NoExit
<1>4. ChildInv'
  BY <1>1, <1>3 DEF ChildInv, IsChild
<1>5. SourceInv'
  <2>1. \A d \in DOMAIN children : Produces(d)' = Produces(d)
    BY <1>1 DEF Produces, Scratch
  <2>2. ~Collide /\ ~Shadows => \A f \in Translated \cap Disk : f \in DOMAIN files' /\ files'[f] = {f}
    BY <1>1 DEF SourceInv, Without
  <2> QED
    BY <1>1, <1>2, <2>1, <2>2 DEF SourceInv
<1>6. Killed' = Killed
  BY <1>1 DEF Killed
<1>7. LinkStage => exit' # 0
  BY DEF LinkStage, at, Quit, interrupt
<1>8. \A f \in DOMAIN files' : f[1] = "tmp" => f \in Leftover'
  <2>1. Leftover' = Killed' \cup (IF exit' # 0 THEN XTemps ELSE {}) \cup ghost'.interrupted
    BY LeftoverIs
  <2>2. \A f \in DOMAIN files' : f \in DOMAIN files /\ f \notin rmlist
    BY <1>1 DEF Without
  <2> QED
    BY <1>3, <1>6, <1>7, <2>1, <2>2 DEF TempInv, Tracked
<1>9. \A d \in DOMAIN children' :
        children'[d].st = "runs" => children'[d].cmd.tool = "cpp|" \/ Produces(d)' \subseteq ghost'.interrupted
  <2>1. CASE Quit
    BY <1>1, <1>3, <2>1 DEF Quit, ChildInv
  <2>2. CASE interrupt
    <3>1. ghost'.interrupted = Outputs \cup {<<>>}
      BY <2>2 DEF interrupt, TempInv
    <3>2. \A d \in DOMAIN children : children[d].st = "runs" => Produces(d) \subseteq Outputs
      BY DEF Produces, Outputs
    <3>3. \A d \in DOMAIN children : Produces(d)' = Produces(d)
      BY <1>1 DEF Produces, Scratch
    <3> QED
      BY <1>1, <3>1, <3>2, <3>3
  <2> QED
    BY <2>1, <2>2
<1> QED
  BY <1>1, <1>2, <1>3, <1>4, <1>5, <1>8, <1>9 DEF TempInv, TempsOf, Temp, Dotted

-----------------------------------------------------------------------------
(* The theorems.                                                           *)

LEMMA InitHolds == Init => IInv
<1> SUFFICES ASSUME Init
             PROVE  IInv
  OBVIOUS
<1>0. /\ args \in CommandLines /\ argv = <<>> /\ next = 1
      /\ flags = NoFlags /\ outfile = <<>>
      /\ pc = "options" /\ exit = NoExit
      /\ children = <<>> /\ files = [f \in Disk |-> {f}]
      /\ rmlist = {} /\ llist = <<>> /\ errcnt = 0
  BY DEF Init
<1>6. "interrupted" \in DOMAIN ghost
  BY DEF Init
<1>1. Settings
  <2>1. NoFlags \in Flags
    BY DEF NoFlags, Flags
  <2>2. /\ args \in Seq(Args)
        /\ \A k \in DOMAIN args : args[k] = <<"-o">> /\ k < Len(args) => ~IsOption(args[k + 1])
    BY <1>0, DriverAssumption
  <2>3. \A k \in 1 .. Len(args) - 1 : k \in DOMAIN args /\ k < Len(args)
    BY <2>2
  <2>4. \A k \in 1 .. Len(args) - 1 : args[k] = <<"-o">> => ~IsOption(args[k + 1])
    BY <2>2, <2>3, Zenon
  <2>5. argv \in Seq(Named) /\ next \in 1 .. Len(argv) + 1
    BY <1>0
  <2> QED
    BY <1>0, <2>1, <2>2, <2>4, <2>5 DEF Settings
<1>2. JobInv
  BY <1>0 DEF JobInv, at, InFile
<1>3. ChildInv /\ DOMAIN children = {}
  BY <1>0 DEF ChildInv
<1>4. SourceInv
  BY <1>0, <1>3 DEF SourceInv
<1>5. TempInv
  <2>1. \A f \in DOMAIN files : Tracked(f)
    BY <1>0, DriverAssumption DEF Given, Own, Tracked
  <2> QED
    BY <1>0, <1>3, <1>6, <2>1 DEF TempInv, NoExit
<1> QED
  BY <1>1, <1>2, <1>3, <1>4, <1>5 DEF IInv

\* While main reads the command line nothing has happened yet.
LEMMA OptionsKeep ==
  ASSUME IInv, Option \/ Output \/ File \/ Sorted
  PROVE  ChildInv' /\ SourceInv' /\ TempInv'
<1>1. /\ UNCHANGED <<children, files, rmlist, next, errcnt, ghost>>
      /\ pc = "options"
      /\ \/ pc' \in {"options", "arg"} /\ exit' = exit
         \/ pc' = "over" /\ exit' = 8
  BY DEF Option, Output, File, Sorted, Refuse, unsorted, callstate
<1>2. /\ children = <<>> /\ next = 1 /\ files = [f \in Disk |-> {f}] /\ rmlist = {} /\ errcnt = 0
      /\ exit = NoExit /\ "interrupted" \in DOMAIN ghost
  BY <1>1 DEF IInv, Settings, TempInv
<1>3. ChildInv' /\ DOMAIN children' = {}
  BY <1>1, <1>2 DEF ChildInv
<1>4. SourceInv'
  BY <1>1, <1>2, <1>3 DEF SourceInv
<1>5. \A f \in DOMAIN files' : f[1] # "tmp"
  BY <1>1, <1>2, DriverAssumption DEF Given, Own
<1>6. \A f \in DOMAIN files' : Tracked(f)'
  BY <1>5 DEF Tracked
<1> QED
  BY <1>1, <1>2, <1>3, <1>4, <1>5, <1>6 DEF TempInv, NoExit

LEMMA NextKeeps == IInv /\ [Next]_vars => IInv'
<1> SUFFICES ASSUME IInv, [Next]_vars
             PROVE  IInv'
  OBVIOUS
<1>1. CASE UNCHANGED vars
  BY <1>1 DEF IInv, vars, Settings, JobInv, at, InFile, src, ChildInv, IsChild, SourceInv, Produces, Scratch, TempInv,
              Tracked, LinkStage, Killed, Leftover, Code, Collide, Shadows, Arguments, Translated, Between, XTemps,
              Given, Overwrites, suffix, TempsOf, basename
<1>2. CASE Next
  <2>1. Settings' /\ JobInv'
    BY <1>2, SettingsStep, JobStep DEF IInv
  <2>2. ChildInv' /\ SourceInv' /\ TempInv'
    <3>1. CASE Option \/ Output \/ File \/ Sorted
      BY <3>1, OptionsKeep
    <3>2. CASE NextFile \/ xlate \/ xlate_done \/ xcc_done \/ ld_done
      BY <3>2, MainKeeps
    <3>3. CASE Quit \/ interrupt
      BY <3>3, EndKeeps DEF IInv
    <3>4. CASE filename
      BY <3>4, FilenameKeeps
    <3>5. CASE Wait
      BY <3>5, WaitKeeps DEF IInv
    <3>6. CASE ChildStep
      BY <3>6, ChildKeeps DEF IInv
    <3> QED
      BY <1>2, <3>1, <3>2, <3>3, <3>4, <3>5, <3>6 DEF Next, Driver, main
  <2> QED
    BY <2>1, <2>2 DEF IInv
<1> QED
  BY <1>1, <1>2

\* Whatever the command line, whichever passes fail or are killed and in
\* whatever order children end, the driver's bookkeeping of processes and files
\* holds (main, filename, callsysnoerr).
THEOREM DriverInvariant == Spec => []IInv
<1>1. Init => IInv
  BY InitHolds
<1>2. IInv /\ [Next]_vars => IInv'
  BY NextKeeps
<1> QED
  BY <1>1, <1>2, PTL DEF Spec

\* No run of tcc writes to or removes a C or preprocessed source it is given,
\* the known collisions of names aside (main's test of -o, the names of the
\* files between the passes, the list of files to remove).
THEOREM SourcesAreKept == Spec => []SourcesKept
<1>1. IInv => SourcesKept
  BY DEF IInv, SourceInv, SourcesKept
<1> QED
  BY <1>1, DriverInvariant, PTL

\* When tcc and its children are gone, only the temporary files are left that
\* rcc leaves when it is killed, xlate.pl's after a failure, and those written
\* after an interrupt (rmlist in main, filename, and the signal handler).
THEOREM TemporariesAreRemoved == Spec => []TemporariesRemoved
<1>1. IInv => TemporariesRemoved
  BY DEF IInv, TempInv, TemporariesRemoved, Over
<1> QED
  BY <1>1, DriverInvariant, PTL

-----------------------------------------------------------------------------
(* What a successful run knows of its files.                               *)

Holds(x, f) == x \in DOMAIN files /\ files[x] = {f}

\* Nothing has gone wrong so far: what follows is claimed only then.
Good == ~flags.E /\ flags.verbose < 2 /\ ~Excused
Fine ==
  /\ Good /\ exit = NoExit /\ pc # "options" /\ errcnt = 0
  /\ pc = "wait" => Code(awaited) \in {"ok", "none"}
  /\ pc \in {"cpp_done", "rcc_done", "cc2_done", "as_done", "xcc_done", "ld_done"} => Succeeded
  /\ pc = "xlate_done" => NothingToDo

\* The file that holds the translation of f until it is linked.
Target(f) == IF flags.S THEN Product(f) ELSE IF flags.c /\ outfile # <<>> THEN outfile ELSE concat(basename(f), "o")

\* The pass that ends, or has ended, at each label.
Passes == {"cpp_done", "rcc_done", "cc2_done", "as_done"}
Links3 == {"xlate_done", "xcc_done", "ld_done"}
Cmd(label) ==
  CASE label = "cpp_done" -> Command("cpp", {job.name}, {Between("i", job.base)})
    [] label = "rcc_done" -> Command("rcc", {job.name}, {Listing, Ctext})
    [] label = "cc2_done" -> Command("cc2", {Optimised}, {job.name})
    [] label = "as_done" -> Command("as", {job.name}, {Object})
    [] label = "xlate_done" -> Command("xlate", Range(llist), {xname("c")})
    [] label = "xcc_done" -> Command("cc2", {xname("c")}, {xname("o")})
    [] label = "ld_done" -> Command("ld", Range(llist), {Executable})
Ended == pc = "wait" => children[awaited].st = "dead"

\* Without -pipe, one pass runs at a time: the one its label stands for.
Alone ==
  /\ \A c \in DOMAIN children : children[c].cmd.tool # "cpp|"
  /\ at \notin {"pipe", "pipe_done", "arg_status"}
  /\ pc = "wait" => /\ then \in Passes \cup Links3 /\ children[awaited].cmd = Cmd(then)
                    /\ awaited \in DOMAIN children /\ children[awaited].st \in {"runs", "dead"}
                    /\ status = {}
OneAtATime ==
  exit = NoExit /\ pc # "options" =>
    /\ outfile # <<>> /\ (flags.S \/ flags.c) => OneSource
    /\ ~flags.E /\ ~flags.pipe => Alone

\* Sources are as they were; what is linked comes from the arguments.
Kept == \A g \in Translated \cap DOMAIN files : files[g] = {g}
Clean == /\ llist \in Seq(Range(llist))
         /\ ~flags.S => \A g \in (Arguments \cup Range(llist)) \cap DOMAIN files : files[g] \subseteq Arguments

\* How many of the files named are done with, and what became of them.
Finished == IF at \in InFile THEN next - 2 ELSE next - 1
Made(f) == Holds(Target(f), f) /\ (flags.S \/ Target(f) \in Range(llist))
Done == \A k \in 1 .. Finished : argv[k] \in Translated => Made(argv[k])

\* The file that the next pass reads holds the source in progress.
Current ==
  /\ at \in InFile =>
       /\ suffix(job.name) = "i" /\ job.name \in DOMAIN files => files[job.name] = {src}
       /\ suffix(job.name) = "s" => Holds(Optimised, src)
  /\ at \in {"cc2_done", "as_done"} => suffix(job.name) = "s" /\ ~flags.S
  /\ at = "as_done" => Holds(job.name, src)
Written == at \in Passes /\ Ended => \A o \in Cmd(at).outs : Holds(o, src)

\* The passes that link.
Linking ==
  /\ at \in Links3 \/ pc = "quit" => next > Len(argv) /\ ~flags.S /\ ~flags.c
  /\ at = "xcc_done" \/ (at = "xlate_done" /\ Ended) => xname("c") \in DOMAIN files /\ files[xname("c")] = {}
  /\ at = "xcc_done" /\ Ended => xname("o") \in DOMAIN files /\ files[xname("o")] = {}
  /\ (at = "ld_done" /\ Ended) \/ pc = "quit" =>
       /\ Executable \in DOMAIN files /\ Translated \subseteq files[Executable] /\ files[Executable] \subseteq Arguments
       /\ Executable \notin Range(llist)

\* What is removed at the end is no result, and no other file looks like the
\* input of copt.
Removable == \A x \in rmlist : x[1] = "tmp" \/ (~flags.S /\ ~flags.c /\ x \in Range(llist))
NoStray == flags.S /\ outfile # <<>> => \A g \in DOMAIN files \ Disk : g[3] = "b" => g = outfile

Stages == Kept /\ Clean /\ Done /\ Current /\ Written /\ Linking /\ Removable /\ NoStray

TruthInv ==
  /\ "coptfailed" \in DOMAIN ghost
  /\ OneAtATime /\ (Fine => Stages) /\ ExitTellsTruth
  /\ exit = 0 /\ ~flags.E /\ ~flags.pipe => \A c \in DOMAIN children : children[c].st = "reaped"

LEMMA GoodStays ==
  ASSUME Settings, "coptfailed" \in DOMAIN ghost, Next, pc # "options"
  PROVE  Frozen /\ "coptfailed" \in DOMAIN ghost' /\ (Good' => Good)
<1>1. /\ Frozen
      /\ \/ UNCHANGED ghost
         \/ ghost' = [ghost EXCEPT !.coptfailed = TRUE]
         \/ ghost' = [ghost EXCEPT !.interrupted = Outputs \cup {<<>>}]
  <2>1. CASE filename
    <3>1. UNCHANGED ghost \/ ghost' = [ghost EXCEPT !.coptfailed = TRUE]
      BY <2>1 DEF filename, cpp, cpp_done, pipe, pipe_done, rcc, rcc_done, copt, cc2, cc2_done, as_done, object, library, arg_status
    <3> QED
      BY <2>1, <3>1, FilenameMoves
  <2>2. CASE NextFile \/ xlate \/ xlate_done \/ xcc_done \/ ld_done \/ Quit
    <3>1. UNCHANGED ghost
      BY <2>2 DEF NextFile, xlate, xlate_done, xcc_done, ld_done, Quit
    <3> QED
      BY <2>2, <3>1, MainMoves
  <2>3. CASE Wait \/ ChildStep \/ interrupt
    BY <2>3 DEF Wait, ChildStep, interrupt, Frozen
  <2>4. CASE Option \/ Output \/ File \/ Sorted
    BY <2>4 DEF Option, Output, File, Sorted
  <2> QED
    BY <2>1, <2>2, <2>3, <2>4 DEF Next, Driver, main
<1>2. "coptfailed" \in DOMAIN ghost' /\ (ghost'.coptfailed = ghost.coptfailed \/ ghost'.coptfailed)
  BY <1>1
<1>3. (Collide' <=> Collide) /\ (Shadows' <=> Shadows) /\ (Stale' <=> Stale) /\ Arguments' = Arguments /\ flags' = flags
  BY <1>1 DEF Frozen, Collide, Shadows, Stale, Arguments, Product, Executable
<1> QED
  BY <1>1, <1>2, <1>3 DEF Good, Excused

LEMMA SameCommands ==
  ASSUME Frozen, UNCHANGED job
  PROVE  /\ \A label \in Passes : Cmd(label)' = Cmd(label)
         /\ UNCHANGED llist => \A label \in Links3 : Cmd(label)' = Cmd(label)
<1> USE DEF Frozen, Between, Listing, Ctext, Optimised, Assembler, Object, xname, Executable
<1>1. /\ Cmd("cpp_done")' = Cmd("cpp_done") /\ Cmd("rcc_done")' = Cmd("rcc_done")
      /\ Cmd("cc2_done")' = Cmd("cc2_done") /\ Cmd("as_done")' = Cmd("as_done")
  BY DEF Cmd
<1>2. UNCHANGED llist => /\ Cmd("xlate_done")' = Cmd("xlate_done") /\ Cmd("xcc_done")' = Cmd("xcc_done")
                         /\ Cmd("ld_done")' = Cmd("ld_done")
  BY DEF Cmd
<1> QED
  BY <1>1, <1>2 DEF Passes, Links3

\* What callsys starts is the pass that its label stands for.
LEMMA CallsysAlone ==
  ASSUME ChildInv, NEW cmd, NEW label \in Passes \cup Links3, callsys(cmd, label), cmd = Cmd(label)', cmd.tool # "cpp|",
         \A c \in DOMAIN children : children[c].cmd.tool # "cpp|"
  PROVE  Alone'
<1>1. label # "wait" /\ label \notin {"pipe", "pipe_done", "arg_status"}
  BY DEF Passes, Links3
<1>2. at' = label
  BY <1>1, CallsysMoves
<1>3. CASE pc' # "wait"
  <2>1. UNCHANGED children
    BY <1>1, <1>3, CallsysMoves
  <2> QED
    BY <1>1, <1>2, <1>3, <2>1 DEF Alone
<1>4. CASE pc' = "wait"
  <2>1. children' = Append(children, Child(cmd)) /\ awaited' = Len(children) + 1 /\ then' = label /\ status' = {}
    BY <1>1, <1>4 DEF callsys
  <2>2. /\ DOMAIN children' = DOMAIN children \cup {Len(children) + 1}
        /\ \A d \in DOMAIN children : children'[d] = children[d]
        /\ children'[Len(children) + 1] = Child(cmd)
        /\ Child(cmd).cmd = cmd /\ Child(cmd).st = "runs"
    BY <2>1, ForkEffect
  <2>3. \A c \in DOMAIN children' : children'[c].cmd.tool # "cpp|"
    BY <2>2
  <2>4. Cmd(then)' = cmd
    BY <2>1
  <2> QED
    BY <1>1, <1>2, <2>1, <2>2, <2>3, <2>4 DEF Alone
<1> QED
  BY <1>3, <1>4

\* If nothing goes wrong the pass is started, and waited for next.
LEMMA CallsysFine ==
  ASSUME Settings, NEW cmd, NEW label \in Passes \cup Links3, callsys(cmd, label), Frozen, Fine'
  PROVE  /\ pc' = "wait" /\ then' = label /\ at' = label
         /\ children' = Append(children, Child(cmd)) /\ awaited' = Len(children) + 1
<1>1. ~(flags.verbose >= 2)
  <2>1. flags' = flags /\ flags'.verbose < 2
    BY DEF Fine, Good, Frozen
  <2>2. flags.verbose \in Nat
    BY DEF Settings, Flags
  <2> QED
    BY <2>1, <2>2
<1>2. ~(status' = {"failed"} /\ pc' = label)
  BY DEF Fine, Passes, Links3, Succeeded, NothingToDo
<1> QED
  BY <1>1, <1>2 DEF callsys, at

-----------------------------------------------------------------------------
(* One pass at a time, and nothing forgets an error.                       *)

\* What a step of filename starts.
LEMMA FilenameAlone ==
  ASSUME Settings, JobInv, ChildInv, Alone, filename, ~flags.E, ~flags.pipe
  PROVE  Alone'
<1>1. Frozen
  BY FilenameMoves
<1> USE DEF Passes
<1>2. ASSUME UNCHANGED children, pc' # "wait", pc' \notin {"pipe", "pipe_done", "arg_status"}
      PROVE  Alone'
  BY <1>2 DEF Alone, at
<1>3. ASSUME NEW tool \in {"cpp", "rcc", "cc2", "as"}, NEW ins, NEW outs, NEW label \in Passes, UNCHANGED job,
             callsys(Command(tool, ins, outs), label), Command(tool, ins, outs) = Cmd(label)
      PROVE  Alone'
  <2>1. Command(tool, ins, outs) = Cmd(label)'
    BY <1>1, <1>3, SameCommands
  <2>2. Command(tool, ins, outs).tool # "cpp|"
    BY DEF Command
  <2> QED
    BY <1>3, <2>1, <2>2, CallsysAlone DEF Alone
<1>4. CASE cpp
  <2>1. UNCHANGED job
    BY <1>4 DEF cpp
  <2>2. CASE UNCHANGED children /\ pc' = "arg"
    BY <1>2, <2>2
  <2>3. CASE callsys(Command("cpp", {job.name}, {Between("i", job.base)}), "cpp_done")
    BY <1>3, <2>1, <2>3 DEF Cmd
  <2> QED
    BY <1>4, <2>2, <2>3 DEF cpp, Fails, callstate
<1>5. CASE cpp_done \/ rcc_done \/ as_done \/ object
  <2>1. UNCHANGED children /\ pc' \in {"file", "arg"}
    BY <1>5 DEF cpp_done, rcc_done, as_done, object, NextIf, Goto, Fails, callstate
  <2> QED
    BY <1>2, <2>1
<1>6. CASE pipe \/ pipe_done \/ arg_status
  BY <1>6 DEF pipe, pipe_done, arg_status, Alone, at
<1>7. CASE rcc
  <2>1. UNCHANGED job
    BY <1>7 DEF rcc
  <2>2. CASE UNCHANGED children /\ pc' = "arg"
    BY <1>2, <2>2
  <2>3. CASE callsys(Command("rcc", {job.name}, {Listing, Ctext}), "rcc_done")
    BY <1>3, <2>1, <2>3 DEF Cmd
  <2> QED
    BY <1>7, <2>2, <2>3 DEF rcc, Fails, compile, callstate
<1>8. CASE cc2
  <2>1. UNCHANGED job
    BY <1>8 DEF cc2
  <2>2. CASE UNCHANGED children /\ pc' = "arg"
    BY <1>2, <2>2
  <2>3. CASE callsys(Command("cc2", {Optimised}, {job.name}), "cc2_done")
    BY <1>3, <2>1, <2>3 DEF Cmd
  <2> QED
    BY <1>8, <2>2, <2>3 DEF cc2, callstate
<1>9. CASE cc2_done
  <2>1. UNCHANGED job
    BY <1>9 DEF cc2_done
  <2>2. CASE UNCHANGED children /\ pc' = "arg"
    BY <1>2, <2>2
  <2>3. CASE callsys(Command("as", {job.name}, {Object}), "as_done")
    BY <1>3, <2>1, <2>3 DEF Cmd
  <2> QED
    BY <1>9, <2>2, <2>3 DEF cc2_done, Fails, callstate
<1>10. CASE library
  <2>1. UNCHANGED children /\ pc' = "arg"
    BY <1>10 DEF library, callstate
  <2> QED
    BY <1>2, <2>1
<1> QED
  BY <1>4, <1>5, <1>6, <1>7, <1>8, <1>9, <1>10 DEF filename

\* What a step of main starts.
LEMMA MainAlone ==
  ASSUME ChildInv, Alone, NextFile \/ xlate \/ xlate_done \/ xcc_done \/ ld_done
  PROVE  Alone'
<1>1. Frozen
  BY MainMoves
<1> USE DEF Links3
<1>2. ASSUME UNCHANGED children, pc' # "wait", pc' \notin {"pipe", "pipe_done", "arg_status"}
      PROVE  Alone'
  BY <1>2 DEF Alone, at
<1>3. ASSUME NEW tool \in {"xlate", "cc2", "ld"}, NEW ins, NEW outs, NEW label \in Links3,
             callsys(Command(tool, ins, outs), label), Command(tool, ins, outs) = Cmd(label)'
      PROVE  Alone'
  <2>1. Command(tool, ins, outs).tool # "cpp|"
    BY DEF Command
  <2> QED
    BY <1>3, <2>1, CallsysAlone DEF Alone
<1>4. xname("c")' = xname("c") /\ xname("o")' = xname("o") /\ Executable' = Executable
  BY <1>1 DEF Frozen, xname, Executable
<1>5. CASE NextFile
  BY <1>2, <1>5 DEF NextFile, callstate
<1>6. CASE xlate
  <2>1. UNCHANGED llist /\ callsys(Command("xlate", Range(llist), {xname("c")}), "xlate_done")
    BY <1>6 DEF xlate
  <2>2. Command("xlate", Range(llist), {xname("c")}) = Cmd("xlate_done")'
    BY <1>4, <2>1 DEF Cmd
  <2> QED
    BY <1>3, <2>1, <2>2
<1>7. CASE xlate_done
  <2>1. CASE UNCHANGED children /\ pc' = "quit"
    BY <1>2, <2>1
  <2>2. CASE callsys(Command("cc2", {xname("c")}, {xname("o")}), "xcc_done")
    <3>1. Command("cc2", {xname("c")}, {xname("o")}) = Cmd("xcc_done")'
      BY <1>4 DEF Cmd
    <3> QED
      BY <1>3, <2>2, <3>1
  <2> QED
    BY <1>7, <2>1, <2>2 DEF xlate_done, callstate
<1>8. CASE xcc_done
  <2>1. CASE UNCHANGED children /\ pc' = "quit"
    BY <1>2, <2>1
  <2>2. CASE callsys(Command("ld", Range(llist'), {Executable}), "ld_done")
    <3>1. Command("ld", Range(llist'), {Executable}) = Cmd("ld_done")'
      BY <1>4 DEF Cmd
    <3> QED
      BY <1>3, <2>2, <3>1
  <2> QED
    BY <1>8, <2>1, <2>2 DEF xcc_done, callstate
<1>9. CASE ld_done
  BY <1>2, <1>9 DEF ld_done, callstate
<1> QED
  BY <1>5, <1>6, <1>7, <1>8, <1>9

\* The only child that can take a step is the pass that is waited for.
LEMMA PassEnds ==
  ASSUME ChildInv, Alone, exit = NoExit, ChildStep
  PROVE  /\ pc = "wait" /\ children[awaited].st = "runs" /\ awaited \in DOMAIN children
         /\ children'[awaited].st = "dead" /\ children'[awaited].cmd = Cmd(then)
         /\ DOMAIN children' = DOMAIN children /\ \A d \in DOMAIN children : children'[d].cmd = children[d].cmd
         /\ \/ children'[awaited].code = "ok" /\ Ready(Cmd(then)) /\ files' = With(Cmd(then).outs, Produced(Cmd(then)))
            \/ children'[awaited].code = "none" /\ then = "xlate_done" /\ files' = With(Cmd(then).outs, {})
            \/ children'[awaited].code \notin {"ok", "none"}
<1>1. PICK c \in DOMAIN children : ChildSucceeds(c) \/ ChildFails(c) \/ PipeWriterExits(c)
  BY DEF ChildStep
<1>2. children[c].st \in {"runs", "closed"}
  BY <1>1 DEF ChildSucceeds, ChildFails, PipeWriterExits
<1>3. pc = "wait" /\ c = awaited
  BY <1>2 DEF ChildInv, Alone
<1>4. children[c].st = "runs" /\ children[c].cmd = Cmd(then) /\ children[c].cmd.tool # "cpp|" /\ then \in Passes \cup Links3
  BY <1>2, <1>3 DEF Alone
<1>5. then = "xlate_done" <=> children[c].cmd.tool = "xlate"
  <2>1. Cmd(then).tool = "xlate" <=> then = "xlate_done"
    BY <1>4 DEF Cmd, Command, Passes, Links3
  <2> QED
    BY <1>4, <2>1
<1>6. CASE ChildSucceeds(c)
  <2>1. Become(c, "dead", "ok") /\ Ready(Cmd(then)) /\ files' = With(Cmd(then).outs, Produced(Cmd(then)))
    BY <1>4, <1>6 DEF ChildSucceeds
  <2>2. /\ DOMAIN children' = DOMAIN children /\ \A d \in DOMAIN children : children'[d].cmd = children[d].cmd
        /\ children'[c].st = "dead" /\ children'[c].code = "ok"
    BY <2>1, BecomeEffect
  <2> QED
    BY <1>3, <1>4, <2>1, <2>2
<1>7. CASE ChildFails(c)
  <2>1. PICK code \in {"failed", "killed"} \cup (IF children[c].cmd.tool = "xlate" THEN {"none"} ELSE {}) :
          /\ Become(c, "dead", code)
          /\ \/ UNCHANGED files /\ code = "failed"
             \/ files' = With(children[c].cmd.outs \cup (IF code = "killed" THEN Scratch(children[c].cmd) ELSE {}),
                              IF code = "none" THEN {} ELSE {Garbage})
    BY <1>4, <1>7 DEF ChildFails
  <2>2. /\ DOMAIN children' = DOMAIN children /\ \A d \in DOMAIN children : children'[d].cmd = children[d].cmd
        /\ children'[c].st = "dead" /\ children'[c].code = code
    BY <2>1, BecomeEffect
  <2>3. code \notin {"ok", "none"} \/ (code = "none" /\ then = "xlate_done" /\ files' = With(Cmd(then).outs, {}))
    <3>1. CASE code = "none"
      <4>1. files' = With(children[c].cmd.outs \cup {}, {})
        BY <2>1, <3>1
      <4>2. children[c].cmd.outs \cup {} = Cmd(then).outs
        BY <1>4
      <4>3. children[c].cmd.tool = "xlate"
        BY <2>1, <3>1
      <4> QED
        BY <1>5, <3>1, <4>1, <4>2, <4>3
    <3>2. CASE code # "none"
      BY <2>1, <3>2
    <3> QED
      BY <3>1, <3>2
  <2> QED
    BY <1>3, <1>4, <2>2, <2>3
<1>8. CASE PipeWriterExits(c)
  BY <1>4, <1>8 DEF PipeWriterExits
<1> QED
  BY <1>1, <1>6, <1>7, <1>8

LEMMA ChildAlone ==
  ASSUME ChildInv, Alone, exit = NoExit, ChildStep
  PROVE  Alone'
<1>1. Frozen /\ UNCHANGED <<job, pc, then, status, awaited, llist>>
  BY ChildEffect
<1>2. /\ pc = "wait" /\ children'[awaited].st = "dead" /\ children'[awaited].cmd = Cmd(then)
      /\ DOMAIN children' = DOMAIN children /\ \A d \in DOMAIN children : children'[d].cmd = children[d].cmd
  BY PassEnds
<1>3. then \in Passes \cup Links3 /\ Cmd(then)' = Cmd(then)
  <2>1. then \in Passes \cup Links3 /\ then' = then
    BY <1>1, <1>2 DEF Alone
  <2>2. \A label \in Passes \cup Links3 : Cmd(label)' = Cmd(label)
    BY <1>1, SameCommands
  <2> QED
    BY <2>1, <2>2
<1>4. at' = at
  BY <1>1 DEF at
<1> QED
  BY <1>1, <1>2, <1>3, <1>4 DEF Alone

\* The pass that is waited for is the only child there is to wait for.
LEMMA PassReaped ==
  ASSUME JobInv, ChildInv, Alone, exit = NoExit, Wait
  PROVE  /\ pc' = then /\ then \in Passes \cup Links3 /\ status' = {Code(awaited)} /\ children[awaited].st = "dead"
         /\ \A d \in DOMAIN children' : children'[d].cmd = children[d].cmd
<1>1. PICK c \in DOMAIN children :
        /\ children[c].st = "dead" /\ Become(c, "reaped", Code(c))
        /\ status' = status \cup {Code(c)} /\ pc' = IF c = awaited THEN then ELSE "wait"
  BY DEF Wait
<1>2. pc = "wait" /\ c = awaited
  BY <1>1 DEF ChildInv, Alone, Wait
<1>3. \A d \in DOMAIN children' : children'[d].cmd = children[d].cmd
  BY <1>1, BecomeEffect
<1> QED
  BY <1>1, <1>2, <1>3 DEF Alone

LEMMA OnlyOneKeeps ==
  ASSUME IInv, OneAtATime, Next
  PROVE  OneAtATime'
<1> USE DEF IInv
<1>1. CASE Option \/ Output \/ File
  <2>1. exit' # NoExit \/ pc' = "options"
    BY <1>1 DEF Option, Output, File, Refuse, NoExit
  <2> QED
    BY <2>1 DEF OneAtATime
<1>2. CASE Sorted
  <2>1. UNCHANGED <<argv, flags, children>> /\ children = <<>> /\ pc' = "arg"
    BY <1>2 DEF Sorted, unsorted, callstate, Settings
  <2>2. outfile' # <<>> /\ (flags.S \/ flags.c) => OneSource
    BY <1>2 DEF Sorted
  <2>3. OneSource' <=> OneSource
    BY <2>1 DEF OneSource
  <2>4. Alone'
    BY <2>1 DEF Alone, at
  <2> QED
    BY <2>1, <2>2, <2>3, <2>4 DEF OneAtATime
<1>3. ASSUME Frozen, exit' = NoExit => exit = NoExit, pc # "options",
             exit = NoExit /\ Alone /\ ~flags.E /\ ~flags.pipe => Alone'
      PROVE  OneAtATime'
  <2>1. OneSource' <=> OneSource
    BY <1>3 DEF Frozen, OneSource
  <2> QED
    BY <1>3, <2>1 DEF OneAtATime, Frozen
<1>4. CASE filename
  <2>1. pc # "options"
    BY <1>4, FilenameMoves DEF InFile
  <2> QED
    BY <1>3, <1>4, <2>1, FilenameMoves, FilenameAlone
<1>5. CASE NextFile \/ xlate \/ xlate_done \/ xcc_done \/ ld_done
  <2>1. UNCHANGED exit
    BY <1>5, MainEffect
  <2> QED
    BY <1>3, <1>5, <2>1, MainMoves, MainAlone
<1>6. CASE Quit \/ interrupt
  BY <1>6 DEF Quit, interrupt, OneAtATime, NoExit
<1>7. CASE Wait
  <2>1. Frozen /\ UNCHANGED exit /\ pc = "wait"
    BY <1>7 DEF Wait, Frozen
  <2>2. ASSUME exit = NoExit, Alone
        PROVE  Alone'
    <3>1. pc' = then /\ then \in Passes \cup Links3 /\ \A d \in DOMAIN children' : children'[d].cmd = children[d].cmd
      BY <1>7, <2>2, PassReaped
    <3>2. DOMAIN children' = DOMAIN children
      BY <1>7, BecomeEffect DEF Wait
    <3> QED
      BY <2>2, <3>1, <3>2 DEF Alone, at, Passes, Links3
  <2> QED
    BY <1>3, <2>1, <2>2
<1>8. CASE ChildStep
  <2>1. Frozen /\ UNCHANGED <<exit, pc>>
    BY <1>8, ChildEffect
  <2>2. ASSUME pc = "options"
        PROVE  FALSE
    BY <1>8, <2>2 DEF ChildStep, Settings
  <2> QED
    BY <1>3, <1>8, <2>1, <2>2, ChildAlone
<1> QED
  BY <1>1, <1>2, <1>4, <1>5, <1>6, <1>7, <1>8 DEF Next, Driver, main

\* No step forgets that something went wrong.
LEMMA FineStays ==
  ASSUME IInv, OneAtATime, "coptfailed" \in DOMAIN ghost, Next, pc # "options", Fine'
  PROVE  Fine /\ Alone /\ Frozen
<1> USE DEF IInv
<1>1. Frozen /\ Good /\ ~flags.E /\ ~flags.pipe
  BY GoodStays DEF Fine, Good, Excused
<1>2. exit' = NoExit /\ errcnt' = 0 /\ errcnt \in Nat
  BY DEF Fine, TempInv
<1>3. ASSUME pc # "wait", exit = NoExit, errcnt = 0,
             pc \in {"cpp_done", "rcc_done", "cc2_done", "as_done", "xcc_done", "ld_done"} => Succeeded,
             pc = "xlate_done" => NothingToDo
      PROVE  Fine /\ Alone
  BY <1>1, <1>3 DEF Fine, OneAtATime
<1>4. CASE filename
  <2>1. UNCHANGED exit /\ pc \in InFile
    BY <1>4, FilenameMoves
  <2>2. UNCHANGED errcnt /\ (pc \in {"cpp_done", "rcc_done", "cc2_done", "as_done"} => Succeeded)
    <3>1. ~Fails(1)
      BY <1>2 DEF Fails
    <3>2. CASE cpp_done \/ pipe_done \/ rcc_done \/ as_done \/ arg_status
      BY <3>1, <3>2 DEF cpp_done, pipe_done, rcc_done, as_done, arg_status, NextIf, Goto
    <3>3. CASE cpp \/ pipe \/ rcc \/ cc2 \/ object \/ library
      BY <3>1, <3>3 DEF cpp, pipe, rcc, cc2, object, library, Goto
    <3>4. CASE cc2_done
      BY <3>1, <3>4 DEF cc2_done
    <3> QED
      BY <1>4, <3>2, <3>3, <3>4 DEF filename
  <2> QED
    BY <1>1, <1>2, <1>3, <2>1, <2>2 DEF InFile
<1>5. CASE NextFile \/ xlate
  BY <1>1, <1>2, <1>3, <1>5 DEF NextFile, xlate, mainstate
<1>6. CASE xlate_done \/ xcc_done
  <2>1. errcnt' # errcnt + 1
    BY <1>2
  <2> QED
    BY <1>1, <1>2, <1>3, <1>6, <2>1 DEF xlate_done, xcc_done, mainstate
<1>7. CASE ld_done
  <2>1. Succeeded /\ errcnt = 0
    BY <1>2, <1>7 DEF ld_done
  <2> QED
    BY <1>1, <1>2, <1>3, <1>7, <2>1 DEF ld_done, mainstate
<1>8. CASE Quit \/ interrupt
  BY <1>2, <1>8 DEF Quit, interrupt, NoExit
<1>9. CASE Wait
  <2>1. UNCHANGED <<exit, errcnt>> /\ pc = "wait"
    BY <1>9 DEF Wait
  <2>2. Alone
    BY <1>1, <1>2, <2>1 DEF OneAtATime
  <2>3. pc' = then /\ then \in Passes \cup Links3 /\ status' = {Code(awaited)}
    BY <1>2, <1>9, <2>1, <2>2, PassReaped
  <2>4. Code(awaited) \in {"ok", "none"}
    <3>1. CASE then \in Passes \cup {"xcc_done", "ld_done"}
      BY <2>3, <3>1 DEF Fine, Passes, Succeeded
    <3>2. CASE then = "xlate_done"
      BY <2>3, <3>2 DEF Fine, NothingToDo
    <3> QED
      BY <2>3, <3>1, <3>2 DEF Links3
  <2> QED
    BY <1>1, <1>2, <2>1, <2>2, <2>4 DEF Fine
<1>10. CASE ChildStep
  <2>1. UNCHANGED <<exit, errcnt, pc, awaited>>
    BY <1>10, ChildEffect
  <2>2. Alone
    BY <1>1, <1>2, <2>1 DEF OneAtATime
  <2>3. pc = "wait" /\ children[awaited].st = "runs" /\ awaited \in DOMAIN children
    BY <1>2, <1>10, <2>1, <2>2, PassEnds
  <2>4. Code(awaited) = "ok"
    BY <2>3 DEF ChildInv, IsChild, Code
  <2> QED
    BY <1>1, <1>2, <2>1, <2>2, <2>3, <2>4 DEF Fine
<1>11. CASE Option \/ Output \/ File \/ Sorted
  BY <1>11 DEF Option, Output, File, Sorted
<1> QED
  BY <1>1, <1>4, <1>5, <1>6, <1>7, <1>8, <1>9, <1>10, <1>11 DEF Next, Driver, main

-----------------------------------------------------------------------------
(* Who writes what.                                                        *)

LEMMA AppendSame ==
  ASSUME NEW S, NEW b \in Seq(S), NEW c \in Seq(S), NEW s, Append(b, s) = Append(c, s)
  PROVE  b = c
<1>1. /\ Len(Append(b, s)) = Len(b) + 1 /\ Len(Append(c, s)) = Len(c) + 1
      /\ Len(b) \in Nat /\ Len(c) \in Nat
  OBVIOUS
<1>2. Len(b) = Len(c)
  BY <1>1
<1>3. /\ \A k \in 1 .. Len(b) : Append(b, s)[k] = b[k]
      /\ \A k \in 1 .. Len(c) : Append(c, s)[k] = c[k]
  OBVIOUS
<1>4. \A k \in 1 .. Len(b) : b[k] = c[k]
  BY <1>2, <1>3
<1>5. b = [k \in 1 .. Len(b) |-> b[k]] /\ c = [k \in 1 .. Len(c) |-> c[k]]
  OBVIOUS
<1> QED
  BY <1>2, <1>4, <1>5

LEMMA AppendRange ==
  ASSUME NEW s, s \in Seq(Range(s)), NEW x
  PROVE  Range(Append(s, x)) = Range(s) \cup {x} /\ Append(s, x) \in Seq(Range(Append(s, x)))
<1>1. /\ DOMAIN s = 1 .. Len(s) /\ Len(s) \in Nat /\ DOMAIN Append(s, x) = 1 .. Len(s) + 1
      /\ \A k \in 1 .. Len(s) : Append(s, x)[k] = s[k]
      /\ Append(s, x)[Len(s) + 1] = x
  OBVIOUS
<1>2. Range(Append(s, x)) = Range(s) \cup {x}
  BY <1>1 DEF Range
<1>3. Append(s, x) \in Seq(Range(s) \cup {x})
  OBVIOUS
<1> QED
  BY <1>2, <1>3

LEMMA Parts ==
  /\ \A base, end : concat(base, end)[2] = base /\ concat(base, end)[3] = end /\ concat(base, end)[1] \notin Own
  /\ \A base, end : Between(end, base)[3] = end
  /\ \A name, end : Dotted(name, end)[3] = end /\ Dotted(name, end)[1] = name[1]
  /\ \A base, end : Dotted(concat(base, "s"), end)[2] = Append(base, "s")
  /\ \A end : xname(end)[1] \in Own
BY DEF concat, Between, Temp, Dotted, xname, TempX, Own

LEMMA PassSource ==
  ASSUME Settings, JobInv, Good, Current, at \in Passes
  PROVE  /\ src \in Translated /\ next > 1 /\ job.base = basename(src) /\ next - 1 \in DOMAIN argv
         /\ at \in InFile /\ (at \in {"cc2_done", "as_done"} => suffix(job.name) = "s" /\ ~flags.S)
<1>1. at \in InFile
  BY DEF Passes, InFile
<1>2. next > 1 /\ job.base = basename(src)
  BY <1>1 DEF JobInv
<1>3. src \in Arguments /\ next - 1 \in DOMAIN argv /\ suffix(src) # "s"
  BY <1>2, SrcIsArgument DEF Good, Excused
<1>4. suffix(job.name) \in {"c", "i", "s"}
  BY DEF Passes, JobInv, Current
<1>5. suffix(src) \in {"c", "i"}
  BY <1>1, <1>3, <1>4 DEF JobInv
<1> QED
  BY <1>1, <1>2, <1>3, <1>5 DEF Translated, Current

\* No pass writes to the result of another source.
LEMMA TargetApart ==
  ASSUME Settings, JobInv, Good, Current, outfile # <<>> /\ (flags.S \/ flags.c) => OneSource, at \in Passes,
         NEW k \in 1 .. next - 2, argv[k] \in Translated, argv[k] # src
  PROVE  Target(argv[k]) \notin Cmd(at).outs \cup {Optimised}
<1> DEFINE g == argv[k]
<1>1. /\ src \in Translated /\ next > 1 /\ job.base = basename(src) /\ next - 1 \in DOMAIN argv
      /\ at \in {"cc2_done", "as_done"} => suffix(job.name) = "s" /\ ~flags.S
  BY PassSource
<1>2. k \in DOMAIN argv /\ k # next - 1
  BY DEF Settings
<1>3. ~(outfile # <<>> /\ (flags.S \/ flags.c))
  <2>1. suffix(g) \in Sources /\ suffix(src) \in Sources
    BY <1>1 DEF Translated, Sources
  <2> QED
    BY <1>1, <1>2, <2>1 DEF OneSource, src
<1>4. /\ g \in Arguments /\ src \in Arguments
      /\ basename(g) \in Seq(STRING) /\ basename(src) \in Seq(STRING)
  BY <1>1, ArgumentsAreGiven DEF Translated, basename
<1>5. basename(g) # basename(src)
  BY <1>4 DEF Good, Excused, Collide
<1>6. Append(basename(g), "s") # Append(basename(src), "s")
  BY <1>4, <1>5, AppendSame
<1>7. Cmd(at).outs = CASE at = "cpp_done" -> {Between("i", job.base)}
                        [] at = "rcc_done" -> {Listing, Ctext}
                        [] at = "cc2_done" -> {job.name}
                        [] at = "as_done" -> {Object}
  BY DEF Passes, Cmd, Command
<1>8. CASE flags.S
  <2>1. Target(g) = Dotted(concat(basename(g), "s"), "c")
    BY <1>3, <1>8 DEF Target, Product
  <2>2. Target(g)[3] = "c" /\ Target(g)[2] = Append(basename(g), "s")
    BY <2>1, Parts
  <2>3. Optimised[2] = Append(basename(src), "s")
    BY <1>1, <1>8, Parts DEF Optimised, Assembler
  <2>4. Listing = concat(basename(src), "s") /\ Listing[3] = "s"
    BY <1>1, <1>3, <1>8, Parts DEF Listing
  <2>5. Ctext[2] = Append(basename(src), "s")
    BY <1>3, <1>8, <2>4, Parts DEF Ctext
  <2>6. CASE at = "cpp_done"
    <3>1. Between("i", job.base)[3] = "i"
      BY Parts
    <3> QED
      BY <1>6, <1>7, <2>2, <2>3, <2>6, <3>1
  <2>7. CASE at = "rcc_done"
    BY <1>6, <1>7, <2>2, <2>3, <2>4, <2>5, <2>7
  <2> QED
    BY <1>1, <1>8, <2>6, <2>7 DEF Passes
<1>9. CASE ~flags.S
  <2>1. Target(g) = concat(basename(g), "o")
    BY <1>3, <1>9 DEF Target
  <2>2. Target(g)[3] = "o" /\ Target(g)[2] = basename(g)
    BY <2>1, Parts
  <2>3. Optimised[3] = "c" /\ Between("i", job.base)[3] = "i" /\ Between("s", job.base)[3] = "s"
    BY Parts DEF Optimised
  <2>4. Listing[3] = "s" /\ Ctext[3] \in {"b", "c"}
    BY <1>9, <2>3, Parts DEF Listing, Ctext
  <2>5. Object[2] = basename(src)
    BY <1>1, <1>3, <1>9, Parts DEF Object
  <2>6. CASE at = "cpp_done"
    BY <1>7, <2>2, <2>3, <2>6
  <2>7. CASE at = "rcc_done"
    BY <1>7, <2>2, <2>3, <2>4, <2>7
  <2>8. CASE at = "cc2_done"
    <3>1. suffix(Target(g)) = "o"
      BY <2>2 DEF suffix
    <3> QED
      BY <1>1, <1>7, <2>2, <2>3, <2>8, <3>1
  <2>9. CASE at = "as_done"
    BY <1>5, <1>7, <2>2, <2>3, <2>5, <2>9
  <2> QED
    BY <2>6, <2>7, <2>8, <2>9 DEF Passes
<1> QED
  BY <1>8, <1>9

LEMMA Writes ==
  ASSUME Kept, Clean, Frozen, UNCHANGED <<next, llist>>, NEW names, NEW text, files' = With(names, text),
         names \cap Translated = {}, flags.S \/ text \subseteq Arguments
  PROVE  /\ Kept' /\ Clean'
         /\ \A x \in names : x \in DOMAIN files' /\ files'[x] = text
         /\ \A x : x \notin names => (x \in DOMAIN files' <=> x \in DOMAIN files) /\ (x \in DOMAIN files => files'[x] = files[x])
         /\ \A f : Made(f) /\ (Target(f) \notin names \/ text = {f}) => Made(f)'
<1>1. /\ \A x \in names : x \in DOMAIN files' /\ files'[x] = text
      /\ \A x : x \notin names => (x \in DOMAIN files' <=> x \in DOMAIN files) /\ (x \in DOMAIN files => files'[x] = files[x])
  BY DEF With
<1>2. Arguments' = Arguments /\ Translated' = Translated /\ flags' = flags /\ llist' = llist
  BY SameArguments
<1>3. Kept'
  BY <1>1, <1>2 DEF Kept
<1>4. Clean'
  <2>1. ASSUME ~flags.S, NEW g \in (Arguments \cup Range(llist)) \cap DOMAIN files'
        PROVE  files'[g] \subseteq Arguments
    BY <1>1, <2>1 DEF Clean
  <2> QED
    BY <1>2, <2>1 DEF Clean
<1>5. ASSUME NEW f, Made(f), Target(f) \notin names \/ text = {f}
      PROVE  Made(f)'
  <2>1. Target(f)' = Target(f)
    BY DEF Frozen, Target, Product, Executable
  <2>2. Target(f) \in DOMAIN files' /\ files'[Target(f)] = {f}
    BY <1>1, <1>5 DEF Made, Holds
  <2> QED
    BY <1>2, <1>5, <2>1, <2>2 DEF Made, Holds
<1> QED
  BY <1>1, <1>3, <1>4, <1>5

\* What a step keeps that leaves the files alone and adds one to those to link.
LEMMA Quiet ==
  ASSUME Stages, Frozen, UNCHANGED files,
         \/ UNCHANGED llist
         \/ \E x : llist' = Append(llist, x) /\ (x \in DOMAIN files /\ ~flags.S => files[x] \subseteq Arguments),
         \A x \in rmlist' : x \in rmlist \/ x[1] = "tmp"
  PROVE  /\ Kept' /\ Clean' /\ Removable' /\ NoStray' /\ Range(llist) \subseteq Range(llist')
         /\ \A f : Made(f) => Made(f)'
<1>1. Arguments' = Arguments /\ Translated' = Translated /\ flags' = flags
  BY SameArguments
<1>2. Range(llist) \subseteq Range(llist') /\ Clean'
  <2>1. CASE UNCHANGED llist
    BY <1>1, <2>1 DEF Stages, Clean
  <2>2. CASE \E x : llist' = Append(llist, x) /\ (x \in DOMAIN files /\ ~flags.S => files[x] \subseteq Arguments)
    <3>1. PICK x : llist' = Append(llist, x) /\ (x \in DOMAIN files /\ ~flags.S => files[x] \subseteq Arguments)
      BY <2>2
    <3>2. Range(llist') = Range(llist) \cup {x} /\ llist' \in Seq(Range(llist'))
      BY <3>1, AppendRange DEF Stages, Clean
    <3> QED
      BY <1>1, <3>1, <3>2 DEF Stages, Clean
  <2> QED
    BY <2>1, <2>2
<1>3. Kept' /\ NoStray'
  BY <1>1 DEF Stages, Kept, NoStray, Frozen
<1>4. Removable'
  BY <1>1, <1>2 DEF Stages, Removable
<1>5. ASSUME NEW f, Made(f)
      PROVE  Made(f)'
  <2>1. Target(f)' = Target(f)
    BY DEF Frozen, Target, Product, Executable
  <2> QED
    BY <1>1, <1>2, <1>5, <2>1 DEF Made, Holds
<1> QED
  BY <1>2, <1>3, <1>4, <1>5

\* The next pass is started: what it reads was there before.
LEMMA StartKeeps ==
  ASSUME IInv, Stages, Frozen, UNCHANGED <<next, job, files, llist>>, Fine', at \in InFile,
         \A x \in rmlist' : x \in rmlist \/ x[1] = "tmp",
         NEW cmd, NEW label \in Passes, callsys(cmd, label),
         label \in {"cc2_done", "as_done"} => suffix(job.name) = "s" /\ ~flags.S,
         label = "as_done" => Holds(job.name, src)
  PROVE  Stages'
<1>1. /\ pc' = "wait" /\ at' = label
      /\ children' = Append(children, Child(cmd)) /\ awaited' = Len(children) + 1
  BY CallsysFine DEF IInv, Links3
<1>2. ~Ended'
  <2>1. children'[awaited'].st = "runs"
    BY <1>1 DEF IInv, ChildInv, Child
  <2> QED
    BY <1>1, <2>1 DEF Ended
<1>3. /\ Kept' /\ Clean' /\ Removable' /\ NoStray'
      /\ \A f : Made(f) => Made(f)'
  BY Quiet
<1>4. src' = src /\ Optimised' = Optimised /\ argv' = argv /\ Translated' = Translated
  BY SameArguments DEF src, Frozen, Optimised, Assembler, Between
<1>5. at' \in InFile /\ Finished' = Finished
  BY <1>1 DEF InFile, Passes, Finished
<1>6. Done'
  BY <1>3, <1>4, <1>5 DEF Stages, Done
<1>7. Current'
  BY <1>1, <1>4 DEF Stages, Current, Holds, suffix, Frozen
<1>8. Written' /\ Linking'
  BY <1>1, <1>2 DEF Written, Linking, Links3, Passes
<1> QED
  BY <1>3, <1>6, <1>7, <1>8 DEF Stages

\* filename returns: the source is done with.
LEMMA ReturnKeeps ==
  ASSUME Settings, at \in InFile, next > 1, Frozen, UNCHANGED next, pc' = "arg",
         Kept', Clean', Removable', NoStray',
         \A k \in 1 .. next - 2 : argv[k] \in Translated => Made(argv[k])',
         src \in Translated => Made(src)'
  PROVE  Stages'
<1>1. at' = "arg" /\ Finished' = next - 1
  BY DEF at, InFile, Finished
<1>2. Done'
  <2>1. Translated' = Translated /\ argv' = argv /\ next \in Nat
    BY SameArguments DEF Frozen, Settings
  <2>2. \A k \in 1 .. next - 1 : argv[k] \in Translated => Made(argv[k])'
    <3> SUFFICES ASSUME NEW k \in 1 .. next - 1, argv[k] \in Translated
                 PROVE  Made(argv[k])'
      OBVIOUS
    <3>1. CASE k = next - 1
      BY <3>1 DEF src
    <3>2. CASE k # next - 1
      <4>1. k \in 1 .. next - 2
        BY <2>1, <3>2
      <4> QED
        BY <4>1
    <3> QED
      BY <3>1, <3>2
  <2> QED
    BY <1>1, <2>1, <2>2 DEF Done
<1>3. Current' /\ Written' /\ Linking'
  BY <1>1 DEF Current, Written, Linking, InFile, Passes, Links3
<1> QED
  BY <1>2, <1>3 DEF Stages

-----------------------------------------------------------------------------
(* filename, when nothing goes wrong.                                      *)

LEMMA SameNames ==
  ASSUME Frozen
  PROVE  /\ UNCHANGED next => src' = src
         /\ UNCHANGED job => Optimised' = Optimised
         /\ \A f : Target(f)' = Target(f)
BY DEF Frozen, src, Optimised, Assembler, Between, Target, Product, Executable

LEMMA SourceRead ==
  ASSUME Settings, Kept, next > 1, src \in Translated, src \in DOMAIN files
  PROVE  files[src] = {src}
BY DEF Kept

\* The file of a source that is done with is linked.
LEMMA ListedHas ==
  ASSUME NEW x, llist \in Seq(Range(llist))
  PROVE  /\ Listed(x) = llist \/ Listed(x) = Append(llist, x)
         /\ x \in Range(Listed(x))
<1>1. CASE \E i \in DOMAIN llist : llist[i] = x
  BY <1>1 DEF Listed, Range
<1>2. CASE ~ \E i \in DOMAIN llist : llist[i] = x
  BY <1>2, AppendRange DEF Listed
<1> QED
  BY <1>1, <1>2

\* copt may read a file that rcc did not write, but then what it writes is not
\* the result.
LEMMA CoptSpares ==
  ASSUME Settings, Good, NoStray, flags.S, outfile # <<>>, src \in Arguments, job.base = basename(src),
         Unoptimised \in DOMAIN files
  PROVE  Optimised # Target(src)
<1>1. SUFFICES ASSUME Optimised = Target(src)
               PROVE  FALSE
  OBVIOUS
<1>2. /\ Unoptimised = Dotted(concat(basename(src), "s"), "b") /\ Optimised = Dotted(concat(basename(src), "s"), "c")
      /\ Target(src) = Dotted(outfile, "c") /\ Product(src) = Dotted(outfile, "c")
  BY DEF Unoptimised, Optimised, Assembler, Target, Product
<1>3. CASE Unoptimised \in Disk
  BY <1>1, <1>2, <1>3 DEF Good, Excused, Stale
<1>4. CASE Unoptimised \notin Disk
  <2>1. Unoptimised[3] = "b"
    BY <1>2, Parts
  <2>2. Unoptimised = outfile
    BY <1>4, <2>1 DEF NoStray
  <2>3. outfile[3] = "b" /\ outfile[2] = Append(basename(src), "s") /\ Optimised[2] = Append(basename(src), "s")
    BY <1>2, <2>1, <2>2, Parts
  <2>4. Dotted(outfile, "c")[2] = Append(outfile[2], "b")
    BY <2>3 DEF Dotted
  <2>5. outfile[2] \in Seq(STRING)
    BY DEF Settings, Given, Names
  <2> QED
    BY <1>1, <1>2, <2>3, <2>4, <2>5, AppendGrows
<1> QED
  BY <1>3, <1>4

\* After rcc and copt the result of -S, or the file cc2 reads, holds the source.
LEMMA RccStages ==
  ASSUME IInv, OneAtATime, "coptfailed" \in DOMAIN ghost, Fine, Stages, Fine', rcc_done
  PROVE  Stages'
<1> USE DEF IInv
<1>1. /\ Frozen /\ UNCHANGED <<next, llist, rmlist>> /\ at = "rcc_done" /\ pc = "rcc_done" /\ Ended /\ Succeeded
      /\ outfile # <<>> /\ (flags.S \/ flags.c) => OneSource
      /\ ~flags.pipe /\ ~flags.E /\ Good
  <2>1. ~Fails(1)
    BY DEF Fine, TempInv, Fails
  <2> QED
    BY <2>1 DEF rcc_done, Frozen, mainstate, at, Ended, Fine, Good, Excused, OneAtATime
<1>2. /\ src \in Translated /\ next > 1 /\ job.base = basename(src) /\ src \in Arguments
      /\ Holds(Listing, src) /\ Holds(Ctext, src)
  <2>1. src \in Translated /\ next > 1 /\ job.base = basename(src)
    BY <1>1, PassSource DEF Stages, Passes
  <2>2. Cmd("rcc_done").outs = {Listing, Ctext}
    BY DEF Cmd, Command
  <2> QED
    BY <1>1, <2>1, <2>2 DEF Stages, Written, Passes, Translated
<1>3. /\ Optimised \notin Translated
      /\ \A k \in 1 .. next - 2 : argv[k] \in Translated /\ argv[k] # src => Target(argv[k]) # Optimised
      /\ \A k \in 1 .. next - 2 : argv[k] \in Translated => Made(argv[k])
  <2>1. ~Collide /\ ~Shadows /\ suffix(src) \in {"c", "i"}
    BY <1>1, <1>2 DEF Good, Excused, Translated
  <2>2. Optimised \notin Translated
    BY <1>1, <1>2, <2>1, FileOutputs DEF TempInv, InFile
  <2>3. \A k \in 1 .. next - 2 : argv[k] \in Translated /\ argv[k] # src => Target(argv[k]) # Optimised
    BY <1>1, TargetApart DEF Stages, Passes
  <2> QED
    BY <1>1, <2>2, <2>3 DEF Stages, Done, Finished, InFile
<1>4. /\ src' = src /\ \A f : Target(f)' = Target(f)
      /\ Arguments' = Arguments /\ Translated' = Translated /\ flags' = flags /\ argv' = argv
  BY <1>1, SameNames, SameArguments DEF Frozen
<1>5. \/ UNCHANGED files /\ (flags.peephole => Unoptimised \notin DOMAIN files)
      \/ flags.peephole /\ Unoptimised \in DOMAIN files /\ files' = With({Optimised}, files[Unoptimised])
  <2>1. ghost' # [ghost EXCEPT !.coptfailed = TRUE]
    BY DEF Fine, Good, Excused
  <2> QED
    BY <1>1, <2>1 DEF rcc_done, copt
<1>6. Removable'
  BY <1>1, <1>4 DEF Stages, Removable
\* What holds whether or not copt wrote a file.
<1>7. ASSUME flags.peephole /\ Unoptimised \in DOMAIN files =>
               files[Unoptimised] = {src} \/ (flags.S /\ Target(src) # Optimised)
      PROVE  /\ Kept' /\ Clean' /\ NoStray'
             /\ \A k \in 1 .. next - 2 : argv[k] \in Translated => Made(argv[k])'
             /\ Made(src) => Made(src)'
             /\ flags.peephole /\ Holds(Unoptimised, src) => Optimised \in DOMAIN files' /\ files'[Optimised] = {src}
  <2>1. CASE UNCHANGED files /\ (flags.peephole => Unoptimised \notin DOMAIN files)
    <3>1. Kept' /\ Clean' /\ NoStray' /\ \A f : Made(f) => Made(f)'
      BY <1>1, <2>1, Quiet
    <3> QED
      BY <1>3, <1>4, <2>1, <3>1 DEF Holds
  <2>2. CASE flags.peephole /\ Unoptimised \in DOMAIN files /\ files' = With({Optimised}, files[Unoptimised])
    <3>1. /\ {Optimised} \cap Translated = {} /\ (flags.S \/ files[Unoptimised] \subseteq Arguments)
      BY <1>2, <1>3, <1>7, <2>2
    <3>2. /\ Kept' /\ Clean' /\ files'[Optimised] = files[Unoptimised] /\ Optimised \in DOMAIN files'
          /\ \A f : Made(f) /\ (Target(f) \notin {Optimised} \/ files[Unoptimised] = {f}) => Made(f)'
      <4>1. Kept /\ Clean /\ Frozen /\ UNCHANGED <<next, llist>>
        BY <1>1 DEF Stages
      <4> DEFINE text == files[Unoptimised]
                 names == {Optimised}
      <4>2. files' = With(names, text) /\ names \cap Translated = {} /\ (flags.S \/ text \subseteq Arguments)
        BY <2>2, <3>1, Zenon
      <4>3. Optimised \in names
        OBVIOUS
      <4> HIDE DEF text, names
      <4>4. /\ Kept' /\ Clean'
            /\ \A x \in names : x \in DOMAIN files' /\ files'[x] = text
            /\ \A f : Made(f) /\ (Target(f) \notin names \/ text = {f}) => Made(f)'
        BY <4>1, <4>2, Writes
      <4>5. Optimised \in DOMAIN files' /\ files'[Optimised] = text
        BY <4>3, <4>4, Zenon
      <4> QED
        BY <4>4, <4>5, Zenon DEF text, names
    <3>3. NoStray'
      <4>1. DOMAIN files' = DOMAIN files \cup {Optimised} /\ Optimised[3] = "c"
        BY <2>2, Parts DEF With, Optimised
      <4> QED
        BY <1>1, <4>1 DEF Stages, NoStray, Frozen
    <3>4. Made(src) => Made(src)'
      BY <1>4, <1>7, <2>2, <3>2
    <3>5. \A k \in 1 .. next - 2 : argv[k] \in Translated => Made(argv[k])'
      <4> SUFFICES ASSUME NEW k \in 1 .. next - 2, argv[k] \in Translated
                   PROVE  Made(argv[k])'
        OBVIOUS
      <4>1. Target(argv[k]) \notin {Optimised} \/ files[Unoptimised] = {argv[k]}
        BY <1>3, <1>7, <2>2
      <4> QED
        BY <1>3, <1>4, <3>2, <4>1
    <3> QED
      BY <2>2, <3>2, <3>3, <3>4, <3>5 DEF Holds
  <2> QED
    BY <1>5, <2>1, <2>2
<1>8. CASE ~flags.S
  <2>1. Listing = Assembler /\ Listing = Between("s", job.base)
    BY <1>8 DEF Listing, Assembler
  <2>2. IF flags.peephole THEN Unoptimised = Ctext ELSE Optimised = Ctext
    BY <1>1, <1>8, <2>1 DEF Ctext, Unoptimised, Optimised
  <2>3. /\ Kept' /\ Clean' /\ NoStray'
        /\ \A k \in 1 .. next - 2 : argv[k] \in Translated => Made(argv[k])'
        /\ Optimised \in DOMAIN files' /\ files'[Optimised] = {src}
    <3>1. CASE flags.peephole
      BY <1>2, <1>7, <2>2, <3>1 DEF Holds
    <3>2. CASE ~flags.peephole
      BY <1>2, <1>5, <1>7, <2>2, <3>2 DEF Holds
    <3> QED
      BY <3>1, <3>2
  <2>4. pc' = "file" /\ job'.name = Listing /\ job'.base = job.base
    <3>1. {"name", "base"} \subseteq DOMAIN job
      BY <1>2 DEF JobInv
    <3> QED
      BY <1>1, <1>8, <3>1 DEF rcc_done, Goto
  <2>5. at' = "file" /\ Finished' = next - 2
    BY <1>1, <2>4 DEF at, Finished, InFile
  <2>6. Done'
    BY <1>4, <2>3, <2>5 DEF Done
  <2>7. Optimised' = Optimised /\ job'.name[3] = "s"
    BY <1>1, <2>1, <2>4, Parts DEF Optimised, Assembler, Between, Frozen
  <2>8. Current'
    BY <1>4, <2>3, <2>5, <2>7 DEF Current, Holds, suffix
  <2>9. Written' /\ Linking'
    BY <2>4, <2>5 DEF Written, Linking, Links3, Passes
  <2> QED
    BY <1>6, <2>3, <2>6, <2>8, <2>9 DEF Stages
<1>9. CASE flags.S
  <2>1. pc' = "arg"
    BY <1>1, <1>9 DEF rcc_done, Goto
  <2>2. Made(src)' /\ Kept' /\ Clean' /\ NoStray' /\ \A k \in 1 .. next - 2 : argv[k] \in Translated => Made(argv[k])'
    <3>1. CASE outfile # <<>>
      <4>1. Made(src)
        BY <1>2, <1>9, <3>1 DEF Made, Target, Product, Ctext
      <4>2. Unoptimised \in DOMAIN files => Target(src) # Optimised
        BY <1>1, <1>2, <1>9, <3>1, CoptSpares DEF Stages
      <4> QED
        BY <1>7, <1>9, <4>1, <4>2
    <3>2. CASE outfile = <<>>
      <4>1. Listing = Assembler /\ Target(src) = Optimised
        BY <1>2, <1>9, <3>2 DEF Listing, Assembler, Target, Product, Optimised
      <4>2. IF flags.peephole THEN Unoptimised = Ctext ELSE Optimised = Ctext
        BY <1>1, <3>2, <4>1 DEF Ctext, Unoptimised, Optimised
      <4>3. CASE flags.peephole
        <5>1. Optimised \in DOMAIN files' /\ files'[Optimised] = {src}
          BY <1>2, <1>7, <4>2, <4>3 DEF Holds
        <5>2. Made(src)'
          BY <1>4, <1>9, <4>1, <5>1 DEF Made, Holds
        <5> QED
          BY <1>2, <1>7, <4>2, <4>3, <5>2 DEF Holds
      <4>4. CASE ~flags.peephole
        BY <1>2, <1>7, <1>9, <4>1, <4>2, <4>4 DEF Made
      <4> QED
        BY <4>3, <4>4
    <3> QED
      BY <3>1, <3>2
  <2> QED
    BY <1>1, <1>2, <1>6, <2>1, <2>2, ReturnKeeps DEF InFile
<1> QED
  BY <1>8, <1>9

LEMMA FilenameStages ==
  ASSUME IInv, OneAtATime, Alone, "coptfailed" \in DOMAIN ghost, Fine, Stages, Fine', filename
  PROVE  Stages'
<1> USE DEF IInv
<1>1. /\ Frozen /\ UNCHANGED <<next, exit>> /\ pc \in InFile /\ at = pc /\ Ended
      /\ next > 1 /\ src \in Arguments
  <2>1. Frozen /\ UNCHANGED <<next, exit>> /\ pc \in InFile
    BY FilenameMoves
  <2>2. at = pc /\ Ended
    BY <2>1 DEF at, InFile, Ended
  <2> QED
    BY <2>1, <2>2, SrcIsArgument DEF JobInv
<1>2. /\ errcnt' = 0 /\ errcnt \in Nat /\ ~Fails(1)
      /\ ~flags.E /\ ~flags.pipe /\ ~(flags.verbose > 1) /\ Good
  BY DEF Fine, TempInv, Fails, Good, Excused, Settings, Flags
<1>3. /\ Kept /\ Clean /\ Done /\ Current /\ Written /\ Removable /\ NoStray
      /\ llist \in Seq(Range(llist))
  BY DEF Stages, Clean
<1>4. /\ src' = src /\ (UNCHANGED job => Optimised' = Optimised) /\ \A f : Target(f)' = Target(f)
  BY <1>1, SameNames
<1>5. /\ Arguments' = Arguments /\ Translated' = Translated /\ flags' = flags /\ argv' = argv
  BY <1>1, SameArguments DEF Frozen
<1>6. \A k \in 1 .. next - 2 : argv[k] \in Translated => Made(argv[k])
  BY <1>1, <1>3 DEF Done, Finished
<1>7. suffix(src) # "s"
  BY <1>1, <1>2 DEF Excused, Good
<1>8. pc \in Passes => src \in Translated /\ job.base = basename(src) /\ \A o \in Cmd(pc).outs : Holds(o, src)
  BY <1>1, <1>2, <1>3, PassSource DEF Written
<1> USE DEF Passes
<1>10. CASE cpp
  <2>1. /\ UNCHANGED <<job, files, llist>> /\ suffix(job.name) = "c"
        /\ rmlist' \subseteq rmlist \cup {Temp("i")}
        /\ callsys(Command("cpp", {job.name}, {Between("i", job.base)}), "cpp_done")
    BY <1>2, <1>10 DEF cpp
  <2>2. \A x \in rmlist' : x \in rmlist \/ x[1] = "tmp"
    BY <2>1 DEF Temp
  <2> QED
    BY <1>1, <2>1, <2>2, StartKeeps
<1>11. CASE rcc
  <2>1. /\ UNCHANGED <<job, files, llist, rmlist>>
        /\ callsys(Command("rcc", {job.name}, {Listing, Ctext}), "rcc_done")
    BY <1>2, <1>11 DEF rcc, compile
  <2> QED
    BY <1>1, <2>1, StartKeeps
<1>12. CASE cc2
  <2>1. UNCHANGED <<job, files, llist, rmlist>> /\ suffix(job.name) = "s"
    BY <1>12 DEF cc2
  <2>2. ~flags.S
    <3>1. job.name # src
      BY <1>7, <2>1
    <3>2. Between("i", job.base)[3] = "i"
      BY Parts
    <3> QED
      BY <1>1, <2>1, <3>1, <3>2 DEF JobInv, suffix
  <2>3. callsys(Command("cc2", {Optimised}, {job.name}), "cc2_done")
    BY <1>2, <1>12, <2>2 DEF cc2
  <2> QED
    BY <1>1, <2>1, <2>2, <2>3, StartKeeps
<1>13. CASE cc2_done
  <2>1. /\ UNCHANGED <<job, files, llist, rmlist>> /\ pc = "cc2_done"
        /\ callsys(Command("as", {job.name}, {Object}), "as_done")
    BY <1>2, <1>13 DEF cc2_done
  <2>2. suffix(job.name) = "s" /\ ~flags.S
    BY <1>1, <1>3, <2>1 DEF Current
  <2>3. Holds(job.name, src)
    BY <1>8, <2>1 DEF Cmd, Command
  <2> QED
    BY <1>1, <2>1, <2>2, <2>3, StartKeeps
<1>14. CASE cpp_done
  <2>1. /\ UNCHANGED <<files, llist, rmlist>> /\ pc = "cpp_done" /\ pc' = "file"
        /\ job'.name = Between("i", job.base)
    <3>1. "name" \in DOMAIN job
      BY <1>1 DEF JobInv
    <3> QED
      BY <1>2, <1>14, <3>1 DEF cpp_done, NextIf, Goto
  <2>2. /\ Kept' /\ Clean' /\ Removable' /\ NoStray'
        /\ \A f : Made(f) => Made(f)'
    BY <1>1, <2>1, Quiet
  <2>3. at' = "file" /\ Finished' = next - 2
    BY <1>1, <2>1 DEF at, Finished, InFile
  <2>4. Done'
    BY <1>5, <1>6, <2>2, <2>3 DEF Done
  <2>5. Holds(job'.name, src) /\ job'.name[3] = "i"
    BY <1>8, <2>1, Parts DEF Cmd, Command
  <2>6. Current'
    BY <1>4, <2>1, <2>3, <2>5 DEF Current, Holds, suffix
  <2>7. Written' /\ Linking'
    BY <2>1, <2>3 DEF Written, Linking, Links3
  <2> QED
    BY <2>2, <2>4, <2>6, <2>7 DEF Stages
<1>15. CASE as_done
  <2>1. UNCHANGED <<files, rmlist, job>> /\ pc = "as_done" /\ pc' = "arg" /\ llist' = Listed(Object)
    BY <1>2, <1>15 DEF as_done, NextIf, Goto
  <2>2. Holds(Object, src) /\ ~flags.S
    BY <1>1, <1>3, <1>8, <2>1 DEF Cmd, Command, Current
  <2>3. (llist' = llist \/ llist' = Append(llist, Object)) /\ Object \in Range(llist')
    BY <1>3, <2>1, ListedHas
  <2>4. /\ Kept' /\ Clean' /\ Removable' /\ NoStray'
        /\ \A f : Made(f) => Made(f)'
    <3>1. files[Object] \subseteq Arguments
      BY <1>1, <2>2 DEF Holds
    <3> QED
      BY <1>1, <2>1, <2>3, <3>1, Quiet
  <2>5. Made(src)'
    <3>1. Target(src) = Object
      BY <1>8, <2>1, <2>2 DEF Target, Object
    <3> QED
      BY <1>4, <1>5, <2>1, <2>2, <2>3, <3>1 DEF Made, Holds
  <2>6. \A k \in 1 .. next - 2 : argv[k] \in Translated => Made(argv[k])'
    BY <1>5, <1>6, <2>4
  <2> QED
    BY <1>1, <2>1, <2>4, <2>5, <2>6, ReturnKeeps
<1>16. CASE object \/ library
  <2>1. UNCHANGED <<files, rmlist>> /\ pc' = "arg" /\ suffix(job.name) \notin Sources
        /\ (llist' = Listed(job.name) \/ llist' = Append(llist, job.name))
    BY <1>2, <1>16 DEF object, library, Goto, Sources
  <2>2. job.name = src /\ src \notin Translated
    <3>1. Between("i", job.base)[3] = "i" /\ Between("s", job.base)[3] = "s"
      BY Parts
    <3>2. suffix(Between("i", job.base)) = "i" /\ suffix(Between("s", job.base)) = "s"
      BY <3>1 DEF suffix
    <3>3. job.name = src
      BY <1>1, <2>1, <3>2 DEF JobInv, Sources
    <3> QED
      BY <2>1, <3>3 DEF Translated, Sources
  <2>3. llist' = llist \/ llist' = Append(llist, src)
    BY <1>3, <2>1, <2>2, ListedHas
  <2>4. /\ Kept' /\ Clean' /\ Removable' /\ NoStray'
        /\ \A f : Made(f) => Made(f)'
    <3>1. src \in DOMAIN files /\ ~flags.S => files[src] \subseteq Arguments
      BY <1>1, <1>3 DEF Clean
    <3> QED
      BY <1>1, <2>1, <2>3, <3>1, Quiet
  <2>5. \A k \in 1 .. next - 2 : argv[k] \in Translated => Made(argv[k])'
    BY <1>5, <1>6, <2>4
  <2> QED
    BY <1>1, <2>1, <2>2, <2>4, <2>5, ReturnKeeps
<1>17. CASE pipe \/ pipe_done \/ arg_status
  BY <1>1, <1>17 DEF pipe, pipe_done, arg_status, Alone
<1>18. CASE rcc_done
  BY <1>18, RccStages
<1> QED
  BY <1>10, <1>11, <1>12, <1>13, <1>14, <1>15, <1>16, <1>17, <1>18 DEF filename

-----------------------------------------------------------------------------
(* main and the children, when nothing goes wrong.                         *)

LEMMA MainStages ==
  ASSUME IInv, Fine, Stages, Fine', NextFile \/ xlate \/ xlate_done \/ xcc_done \/ ld_done
  PROVE  Stages'
<1> USE DEF IInv
<1>1. /\ Frozen /\ at = pc /\ Ended /\ argv \in Seq(Named) /\ next \in 1 .. Len(argv) + 1
      /\ Translated' = Translated /\ flags' = flags /\ argv' = argv /\ Arguments' = Arguments
  <2>1. Frozen /\ at = pc /\ Ended
    BY MainMoves DEF at, Ended
  <2> QED
    BY <2>1, SameArguments DEF Frozen, Settings
<1>2. /\ errcnt' = 0 /\ errcnt = 0 /\ errcnt' # errcnt + 1 /\ Good /\ ~flags.E
  BY DEF Fine, Good
<1>3. /\ Kept /\ Clean /\ Done /\ Linking /\ Removable /\ NoStray /\ UNCHANGED files
  BY MainEffect DEF Stages
<1>4. xname("c")' = xname("c") /\ xname("o")' = xname("o") /\ Executable' = Executable
  BY <1>1 DEF Frozen, xname, Executable
\* While it links, main is not in a file and the pass it starts has not ended.
<1>5. ASSUME UNCHANGED next, pc \notin InFile, pc' = "wait", then' \in Links3, ~Ended', Clean', Removable',
             \A f : Made(f) => Made(f)', next > Len(argv), ~flags.S, ~flags.c,
             then' = "xcc_done" => xname("c") \in DOMAIN files /\ files[xname("c")] = {}
      PROVE  Stages'
  <2>1. at' = then' /\ at' \notin InFile /\ at' \notin Passes
    BY <1>5 DEF at, Links3, InFile, Passes
  <2>2. Done'
    BY <1>1, <1>3, <1>5, <2>1 DEF Done, Finished
  <2>3. Kept' /\ NoStray'
    BY <1>1, <1>3 DEF Kept, NoStray, Frozen
  <2>4. Current' /\ Written'
    BY <2>1 DEF Current, Written, InFile
  <2>5. Linking'
    BY <1>1, <1>3, <1>4, <1>5, <2>1 DEF Linking, Links3
  <2> QED
    BY <1>5, <2>2, <2>3, <2>4, <2>5 DEF Stages
<1>6. ASSUME NEW cmd, NEW label \in Links3, callsys(cmd, label)
      PROVE  pc' = "wait" /\ then' = label /\ ~Ended'
  <2>1. /\ pc' = "wait" /\ then' = label /\ awaited' = Len(children) + 1 /\ children' = Append(children, Child(cmd))
    BY <1>1, <1>6, CallsysFine
  <2>2. children'[awaited'].st = "runs"
    BY <2>1 DEF ChildInv, Child
  <2> QED
    BY <2>1, <2>2 DEF Ended
<1>10. CASE NextFile
  <2>1. /\ UNCHANGED llist /\ pc = "arg" /\ pc' = "file" /\ next' = next + 1 /\ job'.name = argv[next]
        /\ \A x \in rmlist' : x \in rmlist \/ x[1] = "tmp"
        /\ next \in DOMAIN argv
    BY <1>1, <1>10, Parts DEF NextFile, TempsOf, Temp
  <2>2. /\ Kept' /\ Clean' /\ Removable' /\ NoStray' /\ \A f : Made(f) => Made(f)'
    BY <1>1, <1>3, <2>1, Quiet
  <2>3. at' = "file" /\ Finished' = next - 1 /\ Finished = next - 1
    BY <1>1, <2>1 DEF at, Finished, InFile
  <2>4. Done'
    BY <1>1, <1>3, <2>2, <2>3 DEF Done
  <2>5. Current'
    <3>1. src' = argv[next] /\ argv[next] \in Arguments
      BY <1>1, <2>1 DEF src, Arguments, Range
    <3>2. suffix(argv[next]) # "s"
      BY <1>2, <3>1 DEF Good, Excused
    <3>3. suffix(argv[next]) = "i" /\ argv[next] \in DOMAIN files => files[argv[next]] = {argv[next]}
      BY <1>3, <3>1 DEF Kept, Translated
    <3> QED
      BY <1>3, <2>1, <2>3, <3>1, <3>2, <3>3 DEF Current, suffix
  <2>6. Written' /\ Linking'
    BY <2>1, <2>3 DEF Written, Linking, Links3, Passes
  <2> QED
    BY <2>2, <2>4, <2>5, <2>6 DEF Stages
<1>11. CASE xlate
  <2>1. /\ UNCHANGED <<llist, next>> /\ pc = "arg" /\ next > Len(argv) /\ ~flags.S /\ ~flags.c
        /\ callsys(Command("xlate", Range(llist), {xname("c")}), "xlate_done")
        /\ rmlist' = IF OnlySource THEN rmlist \cup {concat(basename(argv[1]), "o")} ELSE rmlist
    BY <1>11 DEF xlate, Links, mainstate
  <2>2. pc' = "wait" /\ then' = "xlate_done" /\ ~Ended'
    BY <1>6, <2>1 DEF Links3
  <2>3. /\ Clean' /\ \A f : Made(f) => Made(f)'
    <3>1. Clean'
      BY <1>1, <1>3, <2>1 DEF Clean
    <3>2. \A f : Target(f)' = Target(f)
      BY <1>1, SameNames
    <3> QED
      BY <1>1, <1>3, <2>1, <3>1, <3>2 DEF Made, Holds
  <2>4. OnlySource => concat(basename(argv[1]), "o") \in Range(llist)
    <3> SUFFICES ASSUME OnlySource
                 PROVE  concat(basename(argv[1]), "o") \in Range(llist)
      OBVIOUS
    <3>1. argv[1] \in Arguments /\ 1 \in 1 .. next - 1
      BY <1>1, <2>1 DEF OnlySource, Arguments, Range
    <3>2. argv[1] \in Translated
      BY <1>2, <3>1 DEF OnlySource, Sources, Translated, Good, Excused
    <3>3. Finished = next - 1
      BY <1>1, <2>1 DEF Finished, InFile
    <3>4. Made(argv[1])
      BY <1>3, <3>1, <3>2, <3>3 DEF Done
    <3> QED
      BY <2>1, <3>4 DEF Made, Target
  <2>5. Removable'
    BY <1>1, <1>3, <2>1, <2>4 DEF Removable
  <2> QED
    BY <1>5, <2>1, <2>2, <2>3, <2>5 DEF InFile, Links3
<1>12. CASE xlate_done
  <2>1. /\ UNCHANGED <<llist, rmlist, next>> /\ pc = "xlate_done"
        /\ callsys(Command("cc2", {xname("c")}, {xname("o")}), "xcc_done")
    BY <1>2, <1>12 DEF xlate_done, mainstate
  <2>2. pc' = "wait" /\ then' = "xcc_done" /\ ~Ended'
    BY <1>6, <2>1 DEF Links3
  <2>3. Clean' /\ Removable' /\ \A f : Made(f) => Made(f)'
    BY <1>1, <1>3, <2>1, Quiet
  <2>4. next > Len(argv) /\ ~flags.S /\ ~flags.c /\ xname("c") \in DOMAIN files /\ files[xname("c")] = {}
    BY <1>1, <1>3, <2>1 DEF Linking, Links3
  <2> QED
    BY <1>5, <2>1, <2>2, <2>3, <2>4 DEF InFile, Links3
<1>13. CASE xcc_done
  <2>1. /\ UNCHANGED next /\ pc = "xcc_done" /\ llist' = Append(llist, xname("o"))
        /\ rmlist' = IF flags.keep THEN rmlist ELSE rmlist \cup {xname("c"), xname("o")}
        /\ callsys(Command("ld", Range(llist'), {Executable}), "ld_done")
    BY <1>2, <1>13 DEF xcc_done, mainstate
  <2>2. pc' = "wait" /\ then' = "ld_done" /\ ~Ended'
    BY <1>6, <2>1 DEF Links3
  <2>3. /\ next > Len(argv) /\ ~flags.S /\ ~flags.c /\ files[xname("o")] \subseteq Arguments
    BY <1>1, <1>3, <2>1 DEF Linking, Links3
  <2>4. \A x \in rmlist' : x \in rmlist \/ x[1] = "tmp"
    BY <2>1 DEF xname, TempX
  <2>5. Clean' /\ Removable' /\ \A f : Made(f) => Made(f)'
    BY <1>1, <1>3, <2>1, <2>3, <2>4, Quiet
  <2> QED
    BY <1>5, <2>1, <2>2, <2>3, <2>5 DEF InFile, Links3
<1>14. CASE ld_done
  <2>1. /\ UNCHANGED <<llist, rmlist, next>> /\ pc = "ld_done" /\ pc' = "quit"
    BY <1>14 DEF ld_done, mainstate
  <2>2. Kept' /\ Clean' /\ Removable' /\ NoStray' /\ \A f : Made(f) => Made(f)'
    BY <1>1, <1>3, <2>1, Quiet
  <2>3. at' = "quit" /\ Finished' = Finished
    BY <1>1, <2>1 DEF at, Finished, InFile
  <2>4. Done'
    BY <1>1, <1>3, <2>2, <2>3 DEF Done
  <2>5. Current' /\ Written'
    BY <2>3 DEF Current, Written, InFile, Passes
  <2>6. Linking'
    BY <1>1, <1>3, <1>4, <2>1, <2>3 DEF Linking, Links3
  <2> QED
    BY <2>2, <2>4, <2>5, <2>6 DEF Stages
<1> QED
  BY <1>10, <1>11, <1>12, <1>13, <1>14

LEMMA WaitStages ==
  ASSUME IInv, Alone, Fine, Stages, Fine', Wait
  PROVE  Stages'
<1> USE DEF IInv
<1>1. /\ Frozen /\ UNCHANGED <<next, job, llist, files, rmlist, then>> /\ pc = "wait" /\ exit = NoExit
  BY DEF Wait, Frozen, Fine
<1>2. pc' = then /\ then \in Passes \cup Links3 /\ children[awaited].st = "dead"
  BY <1>1, PassReaped
<1>3. at' = at /\ Ended /\ Ended' /\ pc' \notin {"wait", "quit"}
  BY <1>1, <1>2 DEF at, Ended, Passes, Links3
<1>4. /\ src' = src /\ Optimised' = Optimised /\ argv' = argv /\ Translated' = Translated /\ flags' = flags
      /\ Arguments' = Arguments
      /\ xname("c")' = xname("c") /\ xname("o")' = xname("o") /\ Executable' = Executable
  BY <1>1, SameNames, SameArguments DEF Frozen, xname, Executable
<1>5. Kept' /\ Clean' /\ Removable' /\ NoStray' /\ \A f : Made(f) => Made(f)'
  BY <1>1, Quiet
<1>6. Done'
  BY <1>1, <1>3, <1>4, <1>5 DEF Stages, Done, Finished
<1>7. Current'
  BY <1>1, <1>3, <1>4 DEF Stages, Current, Holds, suffix
<1>8. Written'
  <2>1. \A label \in Passes : Cmd(label)' = Cmd(label)
    BY <1>1, SameCommands
  <2> QED
    BY <1>1, <1>3, <1>4, <2>1 DEF Stages, Written, Holds
<1>9. Linking'
  BY <1>1, <1>3, <1>4 DEF Stages, Linking
<1> QED
  BY <1>5, <1>6, <1>7, <1>8, <1>9 DEF Stages

LEMMA TextOfOne ==
  ASSUME NEW x \in DOMAIN files
  PROVE  Text({x}) = files[x]
<1>1. {x} \cap DOMAIN files = {x}
  OBVIOUS
<1>2. Text({x}) = UNION {files[f] : f \in {x}}
  BY <1>1 DEF Text
<1> QED
  BY <1>2

\* A pass that ends well leaves the source in progress in all its outputs.
LEMMA PassStages ==
  ASSUME IInv, OneAtATime, Alone, Fine, Stages, Fine', ChildStep, then \in Passes
  PROVE  Stages'
<1> USE DEF IInv
<1> DEFINE outs == Cmd(then).outs
<1>1. /\ Frozen /\ UNCHANGED <<next, job, pc, then, awaited, rmlist, llist, exit>> /\ exit = NoExit /\ pc = "wait"
      /\ at = then /\ at' = at /\ at \in InFile /\ Good
      /\ outfile # <<>> /\ (flags.S \/ flags.c) => OneSource
  <2>1. Frozen /\ UNCHANGED <<next, job, pc, then, awaited, rmlist, llist, exit>> /\ exit = NoExit /\ Good
    BY ChildEffect DEF Fine
  <2>2. pc = "wait"
    BY <2>1, PassEnds
  <2> QED
    BY <2>1, <2>2 DEF at, Passes, InFile, OneAtATime
<1>2. /\ src \in Translated /\ next > 1 /\ job.base = basename(src) /\ src \in Arguments
      /\ at \in {"cc2_done", "as_done"} => suffix(job.name) = "s" /\ ~flags.S
  BY <1>1, PassSource DEF Stages, Translated
<1>3. /\ children[awaited].st = "runs" /\ awaited \in DOMAIN children /\ children[awaited].cmd = Cmd(then)
      /\ Ready(Cmd(then)) /\ files' = With(outs, Produced(Cmd(then)))
  <2>1. children'[awaited].code \in {"ok", "none"}
    BY <1>1 DEF Fine, Code
  <2> QED
    BY <1>1, <2>1, PassEnds DEF Alone, Passes
<1>4. \E x : x \in DOMAIN files /\ files[x] = {src} /\ Cmd(then).ins = {x} /\ Cmd(then).tool # "xlate"
  <2>1. Cmd(then).tool # "xlate" /\ \E x : Cmd(then).ins = {x}
    BY DEF Passes, Cmd, Command
  <2>2. ~ReadsPipe(Cmd(then))
    BY <2>1 DEF ReadsPipe
  <2>3. Cmd(then).ins \subseteq DOMAIN files
    BY <1>3, <2>2 DEF Ready
  <2>4. CASE at = "cpp_done"
    <3>1. Cmd(then).ins = {job.name} /\ suffix(job.name) = "c"
      BY <1>1, <2>4 DEF Cmd, Command, JobInv
    <3>2. Between("i", job.base)[3] = "i" /\ Between("s", job.base)[3] = "s"
      BY Parts
    <3>3. job.name = src
      BY <1>1, <3>1, <3>2 DEF JobInv, suffix
    <3> QED
      BY <1>2, <2>1, <2>3, <3>1, <3>3 DEF Stages, Kept
  <2>5. CASE at = "rcc_done"
    <3>1. Cmd(then).ins = {job.name} /\ suffix(job.name) = "i"
      BY <1>1, <2>5 DEF Cmd, Command, JobInv
    <3> QED
      BY <1>1, <2>1, <2>3, <3>1 DEF Stages, Current
  <2>6. CASE at = "cc2_done"
    <3>1. Cmd(then).ins = {Optimised}
      BY <1>1, <2>6 DEF Cmd, Command
    <3> QED
      BY <1>1, <1>2, <2>1, <2>6, <3>1 DEF Stages, Current, Holds
  <2>7. CASE at = "as_done"
    <3>1. Cmd(then).ins = {job.name}
      BY <1>1, <2>7 DEF Cmd, Command
    <3> QED
      BY <1>1, <2>1, <2>7, <3>1 DEF Stages, Current, Holds
  <2> QED
    BY <1>1, <2>4, <2>5, <2>6, <2>7 DEF Passes
<1>5. files' = With(outs, {src})
  <2>1. PICK x : x \in DOMAIN files /\ files[x] = {src} /\ Cmd(then).ins = {x} /\ Cmd(then).tool # "xlate"
    BY <1>4
  <2>2. ~ReadsPipe(Cmd(then))
    BY <2>1 DEF ReadsPipe
  <2>3. Text({x}) = {src}
    BY <2>1, TextOfOne
  <2>4. Produced(Cmd(then)) = {src}
    BY <2>1, <2>2, <2>3 DEF Produced
  <2> QED
    BY <1>3, <2>4
<1>6. outs \cap Translated = {}
  BY <1>1, <1>3 DEF SourceInv, Produces, Good, Excused
<1>7. /\ src' = src /\ Optimised' = Optimised /\ argv' = argv /\ Translated' = Translated /\ flags' = flags
  BY <1>1, SameNames, SameArguments DEF Frozen
<1>8. /\ Kept' /\ Clean'
      /\ \A x \in outs : x \in DOMAIN files' /\ files'[x] = {src}
      /\ \A x : x \notin outs => (x \in DOMAIN files' <=> x \in DOMAIN files) /\ (x \in DOMAIN files => files'[x] = files[x])
      /\ \A f : Made(f) /\ (Target(f) \notin outs \/ {src} = {f}) => Made(f)'
  <2>1. Kept /\ Clean /\ (flags.S \/ {src} \subseteq Arguments)
    BY <1>2 DEF Stages
  <2>2. Frozen /\ UNCHANGED <<next, llist>>
    BY <1>1
  <2> HIDE DEF outs
  <2> QED
    BY <1>5, <1>6, <2>1, <2>2, Writes
<1>9. Done'
  <2>1. Finished = next - 2 /\ Finished' = next - 2
    BY <1>1 DEF Finished
  <2>2. ASSUME NEW k \in 1 .. next - 2, argv[k] \in Translated
        PROVE  Made(argv[k])'
    <3>1. Made(argv[k])
      BY <2>1, <2>2 DEF Stages, Done
    <3>2. Target(argv[k]) \notin outs \/ {src} = {argv[k]}
      BY <1>1, <2>2, TargetApart DEF Stages
    <3> QED
      BY <1>7, <1>8, <3>1, <3>2
  <2> QED
    BY <1>7, <2>1, <2>2 DEF Done
<1>10. Current'
  <2>1. \A x : Holds(x, src) => x \in DOMAIN files' /\ files'[x] = {src}
    BY <1>8 DEF Holds
  <2>2. suffix(job.name) = "i" /\ job.name \in DOMAIN files' => files'[job.name] = {src}
    BY <1>1, <1>8 DEF Stages, Current
  <2> QED
    BY <1>1, <1>7, <2>1, <2>2 DEF Stages, Current, Holds, suffix
<1>11. Written'
  <2>1. Cmd(at)' = Cmd(at)
    <3>1. \A label \in Passes : Cmd(label)' = Cmd(label)
      BY <1>1, SameCommands
    <3> QED
      BY <1>1, <3>1
  <2> QED
    BY <1>1, <1>7, <1>8, <2>1 DEF Written, Holds
<1>12. Linking'
  BY <1>1 DEF Linking, Passes, Links3
<1>13. Removable'
  BY <1>1, <1>7 DEF Stages, Removable
<1>14. NoStray'
  <2>1. flags.S /\ outfile # <<>> => \A x \in outs : x[3] = "b" => x = outfile
    <3> SUFFICES ASSUME flags.S, outfile # <<>>
                 PROVE  \A x \in outs : x[3] = "b" => x = outfile
      OBVIOUS
    <3>1. then \in {"cpp_done", "rcc_done"}
      BY <1>1, <1>2 DEF Passes
    <3>2. outs = {Between("i", job.base)} \/ outs = {Listing, Ctext}
      BY <3>1 DEF Cmd, Command
    <3>3. Between("i", job.base)[3] = "i" /\ Listing = outfile /\ Ctext[3] = "c"
      BY Parts DEF Listing, Ctext
    <3> QED
      BY <3>2, <3>3
  <2>2. DOMAIN files' = DOMAIN files \cup outs
    BY <1>5 DEF With
  <2> QED
    BY <1>1, <1>7, <2>1, <2>2 DEF Stages, NoStray, Frozen
<1> QED
  BY <1>8, <1>9, <1>10, <1>11, <1>12, <1>13, <1>14 DEF Stages

\* The passes that link leave the objects alone.
LEMMA LinkStages ==
  ASSUME IInv, OneAtATime, Alone, Fine, Stages, Fine', ChildStep, then \in Links3
  PROVE  Stages'
<1> USE DEF IInv
<1>1. /\ Frozen /\ UNCHANGED <<next, job, pc, then, awaited, rmlist, llist, exit>> /\ exit = NoExit /\ pc = "wait"
      /\ at = then /\ at' = at /\ at \notin InFile /\ at \notin Passes /\ Good
  <2>1. Frozen /\ UNCHANGED <<next, job, pc, then, awaited, rmlist, llist, exit>> /\ exit = NoExit /\ Good
    BY ChildEffect DEF Fine
  <2>2. pc = "wait"
    BY <2>1, PassEnds
  <2> QED
    BY <2>1, <2>2 DEF at, Links3, InFile, Passes
<1>2. next > Len(argv) /\ ~flags.S /\ ~flags.c /\ next - 1 = Len(argv) /\ Finished = next - 1 /\ Finished' = next - 1
  BY <1>1 DEF Stages, Linking, Settings, Finished
<1>3. /\ children[awaited].st = "runs" /\ awaited \in DOMAIN children /\ children[awaited].cmd = Cmd(then)
      /\ \/ Ready(Cmd(then)) /\ files' = With(Cmd(then).outs, Produced(Cmd(then)))
         \/ then = "xlate_done" /\ files' = With(Cmd(then).outs, {})
  <2>1. children'[awaited].code \in {"ok", "none"}
    BY <1>1 DEF Fine, Code
  <2> QED
    BY <1>1, <2>1, PassEnds DEF Alone
<1>4. Cmd(then).outs \cap Translated = {}
  BY <1>1, <1>3 DEF SourceInv, Produces, Good, Excused
<1>5. /\ argv' = argv /\ Translated' = Translated /\ flags' = flags /\ Arguments' = Arguments
      /\ xname("c")' = xname("c") /\ xname("o")' = xname("o") /\ Executable' = Executable
  BY <1>1, SameArguments DEF Frozen, xname, Executable
<1>6. \A f \in Translated : Made(f) /\ Target(f) = concat(basename(f), "o") /\ Target(f) \in Range(llist)
  <2> SUFFICES ASSUME NEW f \in Translated
               PROVE  Made(f) /\ Target(f) = concat(basename(f), "o") /\ Target(f) \in Range(llist)
    OBVIOUS
  <2>1. PICK k \in DOMAIN argv : f = argv[k]
    BY DEF Translated, Arguments, Range
  <2>2. k \in 1 .. next - 1
    BY <1>2, <2>1 DEF Settings
  <2>3. Made(f)
    BY <1>2, <2>1, <2>2 DEF Stages, Done
  <2> QED
    BY <1>2, <2>3 DEF Made, Target
\* What is left to show of a pass that writes one file.
<1>7. ASSUME NEW out, NEW text, files' = With({out}, text), Cmd(then).outs = {out}, text \subseteq Arguments,
             \A f \in Translated : Target(f) # out,
             then = "xlate_done" => out = xname("c") /\ text = {},
             then = "xcc_done" => out = xname("o") /\ text = {},
             then = "ld_done" => out = Executable /\ Translated \subseteq text /\ Executable \notin Range(llist)
      PROVE  Stages'
  <2>1. /\ Kept' /\ Clean'
        /\ out \in DOMAIN files' /\ files'[out] = text
        /\ \A x : x # out => (x \in DOMAIN files' <=> x \in DOMAIN files) /\ (x \in DOMAIN files => files'[x] = files[x])
        /\ \A f : Made(f) /\ Target(f) # out => Made(f)'
    <3>1. {out} \cap Translated = {}
      BY <1>4, <1>7
    <3>2. /\ Kept' /\ Clean'
          /\ \A x \in {out} : x \in DOMAIN files' /\ files'[x] = text
          /\ \A x : x \notin {out} => (x \in DOMAIN files' <=> x \in DOMAIN files) /\ (x \in DOMAIN files => files'[x] = files[x])
          /\ \A f : Made(f) /\ (Target(f) \notin {out} \/ text = {f}) => Made(f)'
      BY <1>1, <1>7, <3>1, Writes DEF Stages
    <3> QED
      BY <3>2
  <2>2. Done'
    BY <1>1, <1>2, <1>5, <1>6, <1>7, <2>1 DEF Done
  <2>3. Current' /\ Written'
    BY <1>1 DEF Current, Written, InFile
  <2>4. Linking'
    BY <1>1, <1>2, <1>5, <1>7, <2>1 DEF Stages, Linking, Links3
  <2>5. Removable' /\ NoStray'
    BY <1>1, <1>2, <1>5 DEF Stages, Removable, NoStray
  <2> QED
    BY <2>1, <2>2, <2>3, <2>4, <2>5 DEF Stages
<1>8. \A f \in Translated : Target(f) # xname("c") /\ Target(f) # xname("o")
  <2>1. xname("c")[1] \in Own /\ xname("o")[1] \in Own
    BY Parts
  <2>2. \A f \in Translated : Target(f)[1] \notin Own
    BY <1>6, Parts
  <2> QED
    BY <2>1, <2>2
<1>9. CASE then = "xlate_done"
  <2>1. Cmd(then).outs = {xname("c")} /\ Cmd(then).tool = "xlate"
    BY <1>9 DEF Cmd, Command
  <2>2. Produced(Cmd(then)) = {}
    BY <2>1 DEF Produced, ReadsPipe
  <2>3. files' = With({xname("c")}, {})
    BY <1>3, <2>1, <2>2
  <2> QED
    BY <1>7, <1>8, <1>9, <2>1, <2>3
<1>10. CASE then = "xcc_done"
  <2>1. Cmd(then).outs = {xname("o")} /\ Cmd(then).tool = "cc2" /\ Cmd(then).ins = {xname("c")}
    BY <1>10 DEF Cmd, Command
  <2>2. xname("c") \in DOMAIN files /\ files[xname("c")] = {}
    BY <1>1, <1>10 DEF Stages, Linking
  <2>3. Produced(Cmd(then)) = {}
    BY <2>1, <2>2, TextOfOne DEF Produced, ReadsPipe
  <2>4. files' = With({xname("o")}, {})
    BY <1>3, <1>10, <2>1, <2>3
  <2> QED
    BY <1>7, <1>8, <1>10, <2>1, <2>4
<1>11. CASE then = "ld_done"
  <2>1. Cmd(then).outs = {Executable} /\ Cmd(then).tool = "ld" /\ Cmd(then).ins = Range(llist)
    BY <1>11 DEF Cmd, Command
  <2>2. /\ Range(llist) \subseteq DOMAIN files /\ Executable \notin Range(llist)
        /\ files' = With({Executable}, Text(Range(llist)))
    BY <1>3, <1>11, <2>1 DEF Ready, Produced, ReadsPipe
  <2>3. Translated \subseteq Text(Range(llist))
    <3> SUFFICES ASSUME NEW f \in Translated
                 PROVE  f \in Text(Range(llist))
      OBVIOUS
    <3>1. Target(f) \in Range(llist) \cap DOMAIN files /\ f \in files[Target(f)]
      BY <1>6, <2>2 DEF Made, Holds
    <3> QED
      BY <3>1 DEF Text
  <2>4. Text(Range(llist)) \subseteq Arguments
    <3>1. \A x \in Range(llist) \cap DOMAIN files : files[x] \subseteq Arguments
      BY <1>2 DEF Stages, Clean
    <3> QED
      BY <3>1 DEF Text
  <2>5. \A f \in Translated : Target(f) # Executable
    BY <1>6, <2>2
  <2> QED
    BY <1>7, <1>11, <2>1, <2>2, <2>3, <2>4, <2>5
<1> QED
  BY <1>9, <1>10, <1>11 DEF Links3

-----------------------------------------------------------------------------
(* The exit status.                                                        *)

\* At first every file holds itself.
LEMMA SortedStages ==
  ASSUME IInv, Sorted
  PROVE  Stages'
<1> USE DEF IInv
<1>1. /\ UNCHANGED <<next, files, rmlist, llist, argv, flags>> /\ pc = "options" /\ pc' = "arg"
      /\ next = 1 /\ files = [f \in Disk |-> {f}] /\ rmlist = {} /\ llist = <<>>
  BY DEF Sorted, unsorted, Settings
<1>2. at' = "arg" /\ Finished' = 0
  BY <1>1 DEF at, Finished, InFile
<1>3. Arguments' = Arguments /\ Translated' = Translated /\ llist' = <<>> /\ flags' = flags
  BY <1>1 DEF Arguments, Translated
<1>4. Kept' /\ NoStray' /\ Removable'
  BY <1>1, <1>3 DEF Kept, NoStray, Removable
<1>5. Clean'
  <2>1. llist \in Seq(Range(llist)) /\ Range(llist) = {}
    BY <1>1 DEF Range
  <2> QED
    BY <1>1, <1>3, <2>1 DEF Clean
<1>6. Done'
  BY <1>2 DEF Done
<1>7. Current' /\ Written' /\ Linking'
  BY <1>1, <1>2 DEF Current, Written, Linking, InFile, Passes, Links3
<1> QED
  BY <1>4, <1>5, <1>6, <1>7 DEF Stages

LEMMA StagesKept ==
  ASSUME IInv, TruthInv, Next, Fine'
  PROVE  Stages'
<1>1. CASE pc = "options"
  <2>1. CASE Sorted
    BY <2>1, SortedStages
  <2>2. CASE Option \/ Output \/ File
    <3>1. exit' # NoExit \/ pc' = "options"
      BY <2>2 DEF Option, Output, File, Refuse, NoExit
    <3> QED
      BY <3>1 DEF Fine
  <2>3. CASE interrupt
    BY <2>3 DEF interrupt, Fine, NoExit
  <2>4. CASE ChildStep
    BY <1>1, <2>4 DEF ChildStep, IInv, Settings
  <2>5. CASE filename
    BY <1>1, <2>5, FilenameMoves DEF InFile
  <2>6. CASE NextFile \/ xlate \/ xlate_done \/ xcc_done \/ ld_done \/ Quit
    BY <1>1, <2>6, MainMoves
  <2> QED
    BY <1>1, <2>1, <2>2, <2>3, <2>4, <2>5, <2>6 DEF Next, Driver, main, Wait
<1>2. CASE pc # "options"
  <2>1. OneAtATime /\ "coptfailed" \in DOMAIN ghost /\ Fine /\ Alone /\ Stages
    <3>1. OneAtATime /\ "coptfailed" \in DOMAIN ghost
      BY DEF TruthInv
    <3>2. Fine /\ Alone
      BY <1>2, <3>1, FineStays
    <3> QED
      BY <3>1, <3>2 DEF TruthInv
  <2>2. CASE filename
    BY <2>1, <2>2, FilenameStages
  <2>3. CASE NextFile \/ xlate \/ xlate_done \/ xcc_done \/ ld_done
    BY <2>1, <2>3, MainStages
  <2>4. CASE Quit \/ interrupt
    BY <2>4 DEF Quit, interrupt, Fine, NoExit
  <2>5. CASE Wait
    BY <2>1, <2>5, WaitStages
  <2>6. CASE ChildStep
    <3>1. pc = "wait"
      BY <2>1, <2>6, PassEnds DEF IInv, Fine
    <3>2. then \in Passes \/ then \in Links3
      BY <2>1, <3>1 DEF Alone
    <3> QED
      BY <2>1, <2>6, <3>2, PassStages, LinkStages
  <2>7. CASE Option \/ Output \/ File \/ Sorted
    BY <1>2, <2>7 DEF Option, Output, File, Sorted
  <2> QED
    BY <2>2, <2>3, <2>4, <2>5, <2>6, <2>7 DEF Next, Driver, main
<1> QED
  BY <1>1, <1>2

\* When main ends well, what it was asked for is not among what it removes.
LEMMA QuitTruth ==
  ASSUME IInv, TruthInv, Quit, exit' = 0, Good
  PROVE  /\ \A c \in DOMAIN children : children[c].st = "reaped"
         /\ \A f \in Translated : /\ Product(f) \in DOMAIN files' /\ f \in files'[Product(f)]
                                  /\ Garbage \notin files'[Product(f)]
                                  /\ files'[Product(f)] \subseteq (IF flags.S \/ flags.c THEN {f} ELSE Arguments)
<1> USE DEF IInv
<1>1. /\ pc = "quit" \/ (pc = "arg" /\ next > Len(argv) /\ ~Links)
      /\ files' = Without(rmlist) /\ errcnt = 0 /\ exit = NoExit /\ ~flags.E /\ ~flags.pipe
  BY DEF Quit, TempInv, Good, Excused
<1>2. Fine /\ Alone /\ Stages
  BY <1>1 DEF Fine, TruthInv, OneAtATime
<1>3. \A c \in DOMAIN children : children[c].st = "reaped"
  BY <1>1, <1>2 DEF Alone, ChildInv
<1>4. \A x : x \in DOMAIN files /\ x \notin rmlist => x \in DOMAIN files' /\ files'[x] = files[x]
  BY <1>1 DEF Without
<1>5. \A f \in Arguments : f # Garbage
  <2>1. \A f \in Arguments : f = <<f[1], f[2], f[3]>>
    BY ArgumentsAreGiven
  <2> QED
    BY <2>1 DEF Garbage
<1>6. \A f : f \in Translated => f \in Arguments
  BY DEF Translated
<1>7. outfile # <<>> => outfile[1] # "tmp"
  BY DEF Settings, Given, Own
<1> SUFFICES ASSUME NEW f \in Translated
             PROVE  /\ Product(f) \in DOMAIN files' /\ f \in files'[Product(f)]
                    /\ Garbage \notin files'[Product(f)]
                    /\ files'[Product(f)] \subseteq (IF flags.S \/ flags.c THEN {f} ELSE Arguments)
  BY <1>3
<1>8. CASE pc = "quit"
  <2>1. /\ ~flags.S /\ ~flags.c /\ Product(f) = Executable
        /\ Executable \in DOMAIN files /\ Translated \subseteq files[Executable] /\ files[Executable] \subseteq Arguments
        /\ Executable \notin Range(llist)
    BY <1>2, <1>8 DEF Stages, Linking, Product
  <2>2. Executable[1] # "tmp"
    BY <1>7, Parts DEF Executable, Own
  <2>3. Executable \notin rmlist
    BY <1>2, <2>1, <2>2 DEF Stages, Removable
  <2> QED
    BY <1>4, <1>5, <2>1, <2>3
<1>9. CASE pc = "arg" /\ next > Len(argv) /\ ~Links
  <2>1. Made(f)
    <3>1. PICK k \in DOMAIN argv : f = argv[k]
      BY DEF Translated, Arguments, Range
    <3>2. k \in 1 .. Finished
      BY <1>9, <3>1 DEF Settings, Finished, at, InFile
    <3> QED
      BY <1>2, <3>1, <3>2 DEF Stages, Done
  <2>2. flags.S \/ flags.c
    <3>1. Range(<<>>) = {}
      BY DEF Range
    <3> QED
      BY <1>1, <1>9, <2>1, <3>1 DEF Links, Made
  <2>3. Product(f) = Target(f)
    BY <2>2 DEF Product, Target
  <2>4. Target(f)[1] # "tmp"
    BY <1>7, <2>2, <2>3, Parts DEF Product, Own
  <2>5. Target(f) \in DOMAIN files' /\ files'[Target(f)] = {f}
    BY <1>2, <1>4, <2>1, <2>2, <2>4 DEF Stages, Removable, Made, Holds
  <2> QED
    BY <1>5, <1>6, <2>2, <2>3, <2>5
<1> QED
  BY <1>1, <1>8, <1>9

\* Once tcc and its children are gone, nothing happens any more.
LEMMA OverStops ==
  ASSUME IInv, exit = 0, \A c \in DOMAIN children : children[c].st = "reaped"
  PROVE  ~Next
<1>1. pc = "over"
  BY DEF IInv, TempInv, NoExit
<1>2. ~ChildStep
  BY DEF ChildStep, ChildSucceeds, ChildFails, PipeWriterExits
<1>3. ~filename
  BY <1>1, FilenameMoves DEF InFile
<1>4. ~(NextFile \/ xlate \/ xlate_done \/ xcc_done \/ ld_done \/ Quit)
  BY <1>1, MainMoves
<1> QED
  BY <1>1, <1>2, <1>3, <1>4 DEF Next, Driver, main, Wait, Option, Output, File, Sorted, interrupt

LEMMA TruthKeeps == IInv /\ TruthInv /\ [Next]_vars => TruthInv'
<1> SUFFICES ASSUME IInv, TruthInv, [Next]_vars
             PROVE  TruthInv'
  OBVIOUS
<1> DEFINE AllReaped == exit = 0 /\ ~flags.E /\ ~flags.pipe => \A c \in DOMAIN children : children[c].st = "reaped"
<1>1. CASE UNCHANGED vars
  <2> USE <1>1 DEF vars
  <2>1. Translated' = Translated /\ Arguments' = Arguments /\ at' = at /\ src' = src /\ OneSource' = OneSource
        /\ Excused' = Excused /\ (\A f : Product(f)' = Product(f)) /\ Executable' = Executable
    BY DEF Translated, Arguments, at, src, OneSource, Excused, Collide, Shadows, Stale, Product, Executable
  <2>2. Frozen /\ \A label \in Passes \cup Links3 : Cmd(label)' = Cmd(label)
    BY SameCommands DEF Frozen
  <2>3. (Alone => Alone') /\ (OneAtATime => OneAtATime')
    BY <2>1, <2>2 DEF Alone, OneAtATime
  <2>4. Fine' <=> Fine
    BY <2>1 DEF Fine, Good, Code, Succeeded, NothingToDo
  <2>5. Stages => Stages'
    <3>1. /\ Optimised' = Optimised /\ Finished' = Finished /\ (Ended' <=> Ended)
          /\ xname("c")' = xname("c") /\ xname("o")' = xname("o")
          /\ \A f : Target(f)' = Target(f)
      BY <2>1, <2>2, SameNames DEF Finished, Ended, xname
    <3>2. \A f : Made(f)' <=> Made(f)
      BY <3>1 DEF Made, Holds
    <3>3. (Done => Done') /\ (Kept => Kept') /\ (Clean => Clean') /\ (Removable => Removable') /\ (NoStray => NoStray')
      BY <2>1, <3>1, <3>2 DEF Done, Kept, Clean, Removable, NoStray
    <3>4. (Current => Current') /\ (Written => Written') /\ (Linking => Linking')
      BY <2>1, <2>2, <3>1 DEF Current, Written, Linking, Holds, suffix
    <3> QED
      BY <3>3, <3>4 DEF Stages
  <2>6. ExitTellsTruth => ExitTellsTruth'
    BY <2>1 DEF ExitTellsTruth
  <2> QED
    BY <2>3, <2>4, <2>5, <2>6 DEF TruthInv
<1>2. CASE Next
  <2>1. "coptfailed" \in DOMAIN ghost' /\ (pc # "options" => Frozen /\ (Good' => Good))
    <3>1. CASE pc # "options"
      BY <1>2, <3>1, GoodStays DEF TruthInv, IInv
    <3>2. CASE pc = "options"
      <4>1. ~filename /\ ~(NextFile \/ xlate \/ xlate_done \/ xcc_done \/ ld_done \/ Quit)
        BY <3>2, FilenameMoves, MainMoves DEF InFile
      <4> QED
        BY <1>2, <3>2, <4>1 DEF TruthInv, Next, Driver, main, Wait, Option, Output, File, Sorted, unsorted, ChildStep, interrupt
    <3> QED
      BY <3>1, <3>2
  <2>2. OneAtATime' /\ (Fine' => Stages')
    BY <1>2, OnlyOneKeeps, StagesKept DEF TruthInv
  <2>3. exit' = 0 => exit = 0 \/ Quit
    BY <1>2, FilenameMoves, MainEffect
      DEF Next, Driver, main, Wait, Option, Output, File, Sorted, Refuse, unsorted, ChildStep, interrupt, IInv
  <2>4. exit' = 0 => pc # "options" /\ Frozen
    BY <2>1, <2>3, MainMoves DEF IInv, TempInv, NoExit
  <2>5. ExitTellsTruth'
    <3> SUFFICES ASSUME exit' = 0, Good'
                 PROVE  \A f \in Translated' :
                          /\ Product(f)' \in DOMAIN files' /\ f \in files'[Product(f)']
                          /\ Garbage \notin files'[Product(f)']
                          /\ files'[Product(f)'] \subseteq (IF flags'.S \/ flags'.c THEN {f} ELSE Arguments')
      BY DEF ExitTellsTruth, Good
    <3>1. Good /\ ~flags.E /\ ~flags.pipe
      BY <2>1, <2>4 DEF Good, Excused
    <3>2. Quit
      BY <1>2, <2>3, <3>1, OverStops DEF TruthInv
    <3>3. Translated' = Translated /\ Arguments' = Arguments /\ flags' = flags /\ \A f : Product(f)' = Product(f)
      BY <2>4, SameArguments DEF Frozen, Product, Executable
    <3> QED
      BY <3>1, <3>2, <3>3, QuitTruth
  <2>6. ASSUME exit' = 0, ~flags'.E, ~flags'.pipe
        PROVE  \A c \in DOMAIN children' : children'[c].st = "reaped"
    <3>1. ~flags.E /\ ~flags.pipe
      BY <2>4, <2>6 DEF Frozen
    <3>2. Quit
      BY <1>2, <2>3, <2>6, <3>1, OverStops DEF TruthInv
    <3>3. exit = NoExit /\ pc \notin {"options", "wait"} /\ UNCHANGED children
      BY <3>2 DEF Quit, callstate, IInv, TempInv
    <3> QED
      BY <3>1, <3>3 DEF TruthInv, OneAtATime, Alone, IInv, ChildInv
  <2> QED
    BY <2>1, <2>2, <2>5, <2>6 DEF TruthInv
<1> QED
  BY <1>1, <1>2

\* When tcc reports success, what it was asked for exists and holds what it
\* should, whatever the command line and however the passes ended (callsys,
\* filename, main); the known ways to a wrong result are those of Excused.
THEOREM ExitIsTrue == Spec => []ExitTellsTruth
<1>1. Init => TruthInv
  <2> SUFFICES ASSUME Init
               PROVE  TruthInv
    OBVIOUS
  <2>1. pc = "options" /\ exit = NoExit /\ "coptfailed" \in DOMAIN ghost
    BY DEF Init
  <2> QED
    BY <2>1 DEF TruthInv, OneAtATime, Fine, ExitTellsTruth, NoExit
<1>2. IInv /\ TruthInv /\ [Next]_vars => TruthInv'
  BY TruthKeeps
<1>3. TruthInv => ExitTellsTruth
  BY DEF TruthInv
<1> QED
  BY <1>1, <1>2, <1>3, DriverInvariant, PTL DEF Spec
=============================================================================
