------------------------------ MODULE TaskDump ------------------------------
(***************************************************************************)
(* The task dump utility of uspace/app/taskdump/taskdump.c: main parses  *)
(* argv, connects to the target's kernel box, reads its name, loads a    *)
(* symbol table, dumps every thread (registers and a frame-pointer walk) *)
(* and every address space area, and may write a core file. Every udebug *)
(* read that returns a variable-size list is a pair of calls, a size     *)
(* query and the read. The program is sequential; the target's threads,  *)
(* name, areas and stack memory are inputs fixed at Init (udebug_begin   *)
(* holds the target), and every kernel, file and allocation call may     *)
(* fail when Failures is TRUE.                                           *)
(***************************************************************************)
EXTENDS Integers, Sequences

CONSTANTS
    Argvs,       \* argument vectors (argv[1..argc]) main may be given
    MaxThreads,  \* the target has 0..MaxThreads threads
    NameLens,    \* lengths the target's task name may have
    Frames,      \* frame addresses 1..Frames of the target's stacks (0 ends)
    Failures     \* whether kernel, file and allocation calls may fail

\* Argument tokens: options, a task id, task id 0 and a non-number.
Numeral == [n \in {"0", "7"} |-> IF n = "0" THEN 0 ELSE 7]

Unmapped == -1

VARIABLES
    pc,        \* the step of main about to run
    argv,      \* the argument vector
    taskId,    \* task_id after parse_args
    writeCore, \* write_core_file
    appName,   \* app_name: "NULL" or "name"
    symtab,    \* app_symtab loaded
    threads,   \* the target's thread count
    nameLen,   \* the target's task name length
    mem,       \* mem[fp]: the saved frame pointer at fp, or Unmapped
    start,     \* start[t]: the frame pointer in thread t's registers
    i,         \* index of the thread being dumped
    fp,        \* fp of the stack walk of thread_dump
    crash,     \* "none", or the fault that ended the program
    exitCode   \* main's return value, or exit()'s argument

vars == <<pc, argv, taskId, writeCore, appName, symtab, threads, nameLen, mem,
          start, i, fp, crash, exitCode>>

Fail == IF Failures THEN {TRUE, FALSE} ELSE {FALSE}

\* End of the program: main returns or exit() is called.
Exit(code) == pc' = "exit" /\ exitCode' = code

Crash(why) == pc' = "exit" /\ crash' = why

-----------------------------------------------------------------------------
(* parse_args, as a function of argv.                                      *)

\* The checks after the loop; left is argc when the loop stops.
ParseEnd(tid, core, left) ==
    IF tid = 0 THEN [res |-> "error", tid |-> tid, core |-> core]
    ELSE IF left # 0 THEN [res |-> "error", tid |-> tid, core |-> core]
    ELSE [res |-> "ok", tid |-> tid, core |-> core]

\* The while loop at argv[k]. "-t" reads *argv after --argc, which is
\* argv[argc] = NULL when "-t" is last, and strtol dereferences it. "-c"
\* last takes the NULL as the file name and leaves argc at -1.
RECURSIVE ParseLoop(_, _, _, _)
ParseLoop(av, k, tid, core) ==
    LET left == Len(av) - k + 1 IN
    IF left <= 0 THEN ParseEnd(tid, core, left)
    ELSE IF av[k] \notin {"-t", "-c", "-z"} THEN ParseEnd(tid, core, left)
    ELSE IF av[k] = "-t"
         THEN IF left = 1 THEN [res |-> "crash", tid |-> tid, core |-> core]
              ELSE IF av[k + 1] \in DOMAIN Numeral
                   THEN ParseLoop(av, k + 2, Numeral[av[k + 1]], core)
                   ELSE [res |-> "error", tid |-> tid, core |-> core]
    ELSE IF av[k] = "-c" THEN ParseLoop(av, k + 2, tid, TRUE)
    ELSE [res |-> "error", tid |-> tid, core |-> core]

parse_args(av) == ParseLoop(av, 1, 0, FALSE)

-----------------------------------------------------------------------------
(* main and the functions it calls                                         *)

ParseArgs ==
    /\ pc = "parse"
    /\ LET r == parse_args(argv) IN
       /\ taskId' = r.tid
       /\ writeCore' = r.core
       /\ CASE r.res = "crash" -> Crash("strtol(NULL)") /\ UNCHANGED exitCode
            [] r.res = "error" -> Exit(1) /\ UNCHANGED crash
            [] OTHER -> pc' = "connect" /\ UNCHANGED <<crash, exitCode>>
    /\ UNCHANGED <<argv, appName, symtab, threads, nameLen, mem, start, i, fp>>

\* connect_task: ipc_connect_kbox, then udebug_begin.
connect_task ==
    /\ pc = "connect"
    /\ \E fails \in Fail :
          IF fails THEN Exit(1) ELSE pc' = "name" /\ UNCHANGED exitCode
    /\ UNCHANGED <<argv, taskId, writeCore, appName, symtab, threads, nameLen, mem,
                   start, i, fp, crash>>

(* get_app_task_name: udebug_name_read of 0 bytes for the size, malloc of *)
(* name_size + 1 (unchecked), the read, then name[copied] = '\0'. A NULL  *)
(* buffer makes a read of name_size > 0 bytes fail, and one of 0 bytes    *)
(* succeed, so the terminator is written through NULL.                    *)
get_app_task_name ==
    /\ pc = "name"
    /\ \E sizeFails, mallocFails, readFails \in Fail :
          CASE sizeFails -> appName' = "NULL" /\ pc' = "syms" /\ UNCHANGED crash
            [] mallocFails /\ nameLen = 0 -> Crash("name[0] = 0 through NULL") /\ UNCHANGED appName
            [] mallocFails \/ readFails -> appName' = "NULL" /\ pc' = "syms" /\ UNCHANGED crash
            [] OTHER -> appName' = "name" /\ pc' = "syms" /\ UNCHANGED crash
    /\ UNCHANGED <<argv, taskId, writeCore, symtab, threads, nameLen, mem, start, i, fp, exitCode>>

(* autoload_syms: assert(app_name != NULL), then symtab_load of /app/name *)
(* and of /srv/name; a failing asprintf exits with 1.                     *)
autoload_syms ==
    /\ pc = "syms"
    /\ IF appName = "NULL"
       THEN Crash("assert(app_name != NULL)") /\ UNCHANGED <<symtab, exitCode>>
       ELSE /\ \E oom1, app, oom2, srv \in Fail :
                  CASE oom1 -> Exit(1) /\ UNCHANGED symtab
                    [] ~app -> symtab' = TRUE /\ pc' = "threads" /\ UNCHANGED exitCode
                    [] oom2 -> Exit(1) /\ UNCHANGED symtab
                    [] OTHER -> symtab' = ~srv /\ pc' = "threads" /\ UNCHANGED exitCode
            /\ UNCHANGED crash
    /\ UNCHANGED <<argv, taskId, writeCore, appName, threads, nameLen, mem, start, i, fp>>

(* threads_dump up to its loop: the size query, "No threads." when none,  *)
(* malloc (unchecked: the read into NULL fails), the read. The target is  *)
(* held, so the read returns the queried size and both asserts hold.      *)
threads_dump ==
    /\ pc = "threads"
    /\ \E sizeFails, readFails \in Fail :
          IF sizeFails \/ threads = 0 \/ readFails
          THEN pc' = "areas" /\ UNCHANGED i
          ELSE pc' = "thread" /\ i' = 1
    /\ UNCHANGED <<argv, taskId, writeCore, appName, symtab, threads, nameLen, mem,
                   start, fp, crash, exitCode>>

\* The next thread of the loop, or the end of threads_dump.
NextThread == IF i < threads THEN pc' = "thread" /\ i' = i + 1
              ELSE pc' = "areas" /\ UNCHANGED i

(* thread_dump up to its loop: udebug_regs_read (failing: return EIO,     *)
(* which threads_dump ignores) and fmt_sym_address of the PC, whose       *)
(* failing asprintf exits with 1.                                         *)
thread_dump ==
    /\ pc = "thread"
    /\ \E regsFail, oom \in Fail :
          CASE regsFail -> NextThread /\ UNCHANGED <<fp, exitCode>>
            [] oom -> Exit(1) /\ UNCHANGED <<i, fp>>
            [] OTHER -> pc' = "walk" /\ fp' = start[i] /\ UNCHANGED <<i, exitCode>>
    /\ UNCHANGED <<argv, taskId, writeCore, appName, symtab, threads, nameLen, mem,
                   start, crash>>

(* One iteration of while (stacktrace_fp_valid(&st, fp)): fmt_sym_address *)
(* (may exit), stacktrace_ra_get and stacktrace_fp_prev through           *)
(* td_read_uintptr, whose udebug_mem_read fails on unmapped memory and    *)
(* ends thread_dump; then fp = nfp. A zero fp ends the walk.              *)
WalkFrame ==
    /\ pc = "walk"
    /\ IF fp = 0
       THEN NextThread /\ UNCHANGED <<fp, exitCode>>
       ELSE \E oom \in Fail :
               CASE oom -> Exit(1) /\ UNCHANGED <<i, fp>>
                 [] mem[fp] = Unmapped -> NextThread /\ UNCHANGED <<fp, exitCode>>
                 [] OTHER -> fp' = mem[fp] /\ UNCHANGED <<pc, i, exitCode>>
    /\ UNCHANGED <<argv, taskId, writeCore, appName, symtab, threads, nameLen, mem,
                   start, crash>>

(* areas_dump: the size query, malloc, the read (asserts hold as above),  *)
(* then elf_core_save when -c was given, which may fail (return EIO).     *)
(* main ignores the result, then udebug_end, ipc_hangup and return 0.     *)
areas_dump ==
    /\ pc = "areas"
    /\ Exit(0)
    /\ UNCHANGED <<argv, taskId, writeCore, appName, symtab, threads, nameLen, mem,
                   start, i, fp, crash>>

-----------------------------------------------------------------------------

Init ==
    /\ pc = "parse"
    /\ argv \in Argvs
    /\ taskId = 0
    /\ writeCore = FALSE
    /\ appName = "NULL"
    /\ symtab = FALSE
    /\ threads \in 0..MaxThreads
    /\ nameLen \in NameLens
    /\ mem \in [1..Frames -> (0..Frames) \cup {Unmapped}]
    /\ start \in [1..MaxThreads -> 0..Frames]
    /\ i = 0
    /\ fp = 0
    /\ crash = "none"
    /\ exitCode = 0

Next ==
    \/ ParseArgs
    \/ connect_task
    \/ get_app_task_name
    \/ autoload_syms
    \/ threads_dump
    \/ thread_dump
    \/ WalkFrame
    \/ areas_dump

\* taskdump is one sequential program: while it has a step to take, it
\* takes it.
Spec == Init /\ [][Next]_vars /\ WF_vars(Next)

-----------------------------------------------------------------------------
(* Properties                                                              *)

\* taskdump always ends, and ends cleanly: whatever its arguments and
\* whatever udebug, malloc and the symbol table loader return, and whatever
\* the target's stacks hold, it ends by returning from main or by exit(),
\* never by an assertion or a NULL dereference, and never by walking a
\* chain of frame pointers forever.
CleanExit == <>(pc = "exit" /\ crash = "none")

=============================================================================
