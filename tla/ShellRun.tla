------------------------------ MODULE ShellRun ------------------------------
(***************************************************************************)
(* The shell running commands (userland/sh.c:545) under init (init.c): the *)
(* processes it forks, their file descriptors, the pipes between them, and *)
(* the foreground process group of the terminal.  A process that still     *)
(* runs the shell's code has a stack of the calls of run_command() it is   *)
(* in; one that has become a program has none.  A step is the code between *)
(* two system calls that wait or that another process can see.             *)
(*                                                                         *)
(* Programs: "true" exits; "die" is killed by a signal; "cat" reads its    *)
(* input up to the end; "src" writes until nobody can read it any more.    *)
(* The kernel's side (fork, wait, pipes) is as in Scheduler and Fifo.      *)
(***************************************************************************)
EXTENDS Integers, Sequences, FiniteSets

CONSTANTS Commands,         \* the trees that are typed
          MaxPid, MaxFd,
          MaxPipe,
          MaxCommands,      \* bound: commands typed
          MaxFailures       \* bound: calls of fork() and open() that fail

ASSUME ShellAssumption ==
    {MaxPid, MaxFd, MaxPipe, MaxCommands, MaxFailures} \subseteq Nat

VARIABLES proc,      \* proc[p]
          shell,     \* pid of the shell init is waiting for
          tty,       \* the foreground process group
          pipeData,  \* pipeData[k]: whether there are bytes in the pipe
          typed, failures,
          abandoned  \* history: the left part of a pipe was not waited for

shellVars == <<proc, shell, tty, pipeData, typed, failures, abandoned>>

Pid == 1 .. MaxPid
Fd == 0 .. MaxFd
Closed == <<"closed", 0>>
Tty == <<"tty", 0>>
TtyOnly == [d \in Fd |-> IF d <= 2 THEN Tty ELSE Closed]
Free == [st |-> "free", parent |-> 0, stack |-> << >>, fds |-> TtyOnly,
         pgid |-> 0, ret |-> 0, prog |-> "sh"]

RUN_ERROR == -1
RUN_SIGNALED == -2

-----------------------------------------------------------------------------
(* Descriptors.                                                            *)

LowestFd(fds) == CHOOSE d \in Fd : /\ fds[d] = Closed
                                   /\ \A e \in 0 .. d - 1 : fds[e] # Closed
Open(fds, x) == [fds EXCEPT ![LowestFd(fds)] = x]
Dup2(fds, old, new) == [fds EXCEPT ![new] = fds[old]]
Close(fds, d) == [fds EXCEPT ![d] = Closed]

Holds(p, x) == proc[p].st = "run" /\ \E d \in Fd : proc[p].fds[d] = x
FreePipe(k) == ~\E p \in Pid : Holds(p, <<"r", k>>) \/ Holds(p, <<"w", k>>)

-----------------------------------------------------------------------------
(* Calls and returns of run_command().                                     *)

Frame(node, pgid, fg) == [node |-> node, pc |-> "start", pgid |-> pgid,
                          fg |-> fg, child |-> 0, r |-> 0, w |-> 0, saved |-> 0]
Top(p) == Head(proc[p].stack)
At(p, type, pc) ==
    /\ proc[p].st = "run" /\ proc[p].stack # << >>
    /\ Top(p).node.type = type /\ Top(p).pc = pc

(* The process record q after its call returned v, and after it goes on at *)
(* pc with a call of its own.                                              *)
Returned(q, v) == [q EXCEPT !.stack = Tail(@), !.ret = v]
Calling(q, f, node) ==
    [q EXCEPT !.stack = <<Frame(node, f.pgid, f.fg), f>> \o Tail(@)]

(* exit(), abort() and death by signal: descriptors close, and children    *)
(* become init's.                                                          *)
Exit(ps, p, how) ==
    [x \in Pid |->
       IF x = p THEN [ps[p] EXCEPT !.st = "zombie", !.ret = how,
                        !.fds = [d \in Fd |-> Closed], !.stack = << >>]
       ELSE IF ps[x].parent = p THEN [ps[x] EXCEPT !.parent = 0]
       ELSE ps[x]]

(* fork(): the parent goes on as q, the child as the same with frame f     *)
(* only.                                                                   *)
Fork(p, c, q, f) ==
    /\ proc[c] = Free /\ \A b \in 1 .. c - 1 : proc[b] # Free
    /\ proc' = [proc EXCEPT ![p] = q,
                            ![c] = [q EXCEPT !.parent = p, !.stack = <<f>>]]

ForkFails(p) ==
    /\ failures < MaxFailures
    /\ failures' = failures + 1
    /\ proc' = [proc EXCEPT ![p] = Returned(@, RUN_ERROR)]

-----------------------------------------------------------------------------
(* run_execute().                                                          *)

RunBuiltin(p) ==
    /\ At(p, "execute", "start")
    /\ \/ /\ Top(p).node.prog = "exit"
          /\ proc' = Exit(proc, p, 0)
          /\ abandoned' = (abandoned \/ \E i \in DOMAIN proc[p].stack :
                                         proc[p].stack[i].node.type = "pipe")
       \/ /\ Top(p).node.prog = "cd"
          /\ \E rc \in {0, RUN_ERROR} :
               proc' = [proc EXCEPT ![p] = Returned(@, rc)]
          /\ UNCHANGED abandoned
    /\ UNCHANGED <<shell, tty, pipeData, typed, failures>>

RunExecute(p) ==
    /\ At(p, "execute", "start") /\ Top(p).node.prog \notin {"exit", "cd"}
    /\ \/ /\ \E c \in Pid :
               Fork(p, c, [proc[p] EXCEPT !.stack =
                             <<[Top(p) EXCEPT !.pc = "wait", !.child = c]>>
                               \o Tail(@)],
                    [Top(p) EXCEPT !.pc = "child"])
          /\ UNCHANGED failures
       \/ ForkFails(p)
    /\ UNCHANGED <<shell, tty, pipeData, typed, abandoned>>

(* The child joins or starts its group and may take the terminal ...       *)
ExecuteSetpgid(p) ==
    /\ At(p, "execute", "child")
    /\ LET pgid == IF Top(p).pgid = 0 THEN p ELSE Top(p).pgid
       IN /\ proc' = [proc EXCEPT ![p].pgid = pgid,
                                  ![p].stack = <<[Top(p) EXCEPT !.pc = "exec"]>>]
          /\ tty' = IF Top(p).fg THEN pgid ELSE tty
    /\ UNCHANGED <<shell, pipeData, typed, failures, abandoned>>

(* ... and becomes the program; when there is none, it aborts.             *)
ExecuteExec(p) ==
    /\ At(p, "execute", "exec")
    /\ proc' = IF Top(p).node.prog = "missing" THEN Exit(proc, p, RUN_SIGNALED)
               ELSE [proc EXCEPT ![p].prog = Top(p).node.prog,
                                 ![p].stack = << >>]
    /\ UNCHANGED <<shell, tty, pipeData, typed, failures, abandoned>>

ExecuteWait(p) ==
    /\ At(p, "execute", "wait")
    /\ LET c == Top(p).child
       IN /\ proc[c].st = "zombie"
          /\ proc' = [proc EXCEPT ![p] = Returned(@, proc[c].ret), ![c] = Free]
    /\ UNCHANGED <<shell, tty, pipeData, typed, failures, abandoned>>

-----------------------------------------------------------------------------
(* run_juxtaposition().                                                    *)
RunJuxtaposition(p) ==
    /\ \/ /\ At(p, "juxtaposition", "start")
          /\ proc' = [proc EXCEPT ![p] =
               Calling(@, [Top(p) EXCEPT !.pc = "second"], Top(p).node.left)]
       \/ /\ At(p, "juxtaposition", "second")
          /\ proc' = [proc EXCEPT ![p] =
               IF @.ret < 0 THEN Returned(@, @.ret)
               ELSE Calling(@, [Top(p) EXCEPT !.pc = "done"], Top(p).node.right)]
       \/ /\ At(p, "juxtaposition", "done")
          /\ proc' = [proc EXCEPT ![p] = Returned(@, @.ret)]
    /\ UNCHANGED <<shell, tty, pipeData, typed, failures, abandoned>>

-----------------------------------------------------------------------------
(* run_pipe().                                                             *)

PipeFork(p) ==
    /\ At(p, "pipe", "start")
    /\ \E k \in 1 .. MaxPipe :
         LET fds1 == Open(proc[p].fds, <<"r", k>>)
             fds2 == Open(fds1, <<"w", k>>)
             f == [Top(p) EXCEPT !.r = LowestFd(proc[p].fds),
                                 !.w = LowestFd(fds1)]
         IN /\ FreePipe(k) /\ \A j \in 1 .. k - 1 : ~FreePipe(j)
            /\ pipeData' = [pipeData EXCEPT ![k] = FALSE]
            /\ \/ /\ \E c \in Pid :
                       Fork(p, c,
                            [proc[p] EXCEPT !.fds = fds2, !.stack =
                               <<[f EXCEPT !.pc = "right", !.child = c,
                                     !.pgid = IF @ = 0 THEN c ELSE @]>> \o Tail(@)],
                            [f EXCEPT !.pc = "left",
                                      !.pgid = IF @ = 0 THEN c ELSE @])
                  /\ UNCHANGED failures
               \/ /\ failures < MaxFailures
                  /\ failures' = failures + 1
                  /\ proc' = [proc EXCEPT ![p] =
                       Returned([@ EXCEPT !.fds = fds2], RUN_ERROR)]
    /\ UNCHANGED <<shell, tty, typed, abandoned>>

(* close(pipefd[0]) and close(pipefd[1]), in the child and in the parent.  *)
CloseReadEnd(fds, f) == Close(fds, f.r)                       \* fault
CloseEnds(fds, f) == Close(Close(fds, f.r), f.w)

PipeLeft(p) ==
    /\ At(p, "pipe", "left")
    /\ LET f == Top(p)
           fds == CloseEnds(Dup2(proc[p].fds, f.w, 1), f)
       IN proc' = [proc EXCEPT ![p] =
            Calling([@ EXCEPT !.fds = fds], [f EXCEPT !.pc = "leave"],
                    f.node.left)]
    /\ UNCHANGED <<shell, tty, pipeData, typed, failures, abandoned>>

(* The end of a forked part of a command, of run_background() too.         *)
ForkedPartExits(p) ==
    /\ At(p, "pipe", "leave") \/ At(p, "background", "leave")
    /\ proc' = Exit(proc, p, IF proc[p].ret = RUN_ERROR THEN RUN_SIGNALED ELSE 0)
    /\ UNCHANGED <<shell, tty, pipeData, typed, failures, abandoned>>

PipeRight(p) ==
    /\ At(p, "pipe", "right")
    /\ LET f == Top(p)
           fds1 == Open(proc[p].fds, proc[p].fds[0])
           fds == CloseEnds(Dup2(fds1, f.r, 0), f)
       IN proc' = [proc EXCEPT ![p] =
            Calling([@ EXCEPT !.fds = fds],
                    [f EXCEPT !.pc = "restore", !.saved = LowestFd(proc[p].fds)],
                    f.node.right)]
    /\ UNCHANGED <<shell, tty, pipeData, typed, failures, abandoned>>

RestoreInputOnSuccess(q, f) ==                                \* fault
    IF q.ret < 0 THEN q.fds ELSE Close(Dup2(q.fds, f.saved, 0), f.saved)
RestoreInput(q, f) == Close(Dup2(q.fds, f.saved, 0), f.saved)

PipeRestore(p) ==
    /\ At(p, "pipe", "restore")
    /\ LET q == [proc[p] EXCEPT !.fds = RestoreInput(proc[p], Top(p))]
       IN proc' = [proc EXCEPT ![p] =
            IF q.ret < 0 THEN Returned(q, q.ret)
            ELSE [q EXCEPT !.stack =
                    <<[Top(p) EXCEPT !.pc = "reap"]>> \o Tail(@)]]
    /\ abandoned' = (abandoned \/ proc[p].ret < 0)
    /\ UNCHANGED <<shell, tty, pipeData, typed, failures>>

PipeReap(p) ==
    /\ At(p, "pipe", "reap")
    /\ proc[Top(p).child].st = "zombie"
    /\ proc' = [proc EXCEPT ![p] = Returned(@, 0), ![Top(p).child] = Free]
    /\ UNCHANGED <<shell, tty, pipeData, typed, failures, abandoned>>

-----------------------------------------------------------------------------
(* run_redirect(): the descriptor 1 is another file during the command.    *)

RunRedirect(p) ==
    /\ At(p, "redirect", "start")
    /\ \/ LET fds1 == Open(proc[p].fds, <<"file", 0>>)
              fd == LowestFd(proc[p].fds)
              saved == LowestFd(fds1)
              fds == Close(Dup2(Open(fds1, proc[p].fds[1]), fd, 1), fd)
          IN /\ proc' = [proc EXCEPT ![p] =
                  Calling([@ EXCEPT !.fds = fds],
                          [Top(p) EXCEPT !.pc = "undo", !.saved = saved],
                          Top(p).node.from)]
             /\ UNCHANGED failures
       \/ ForkFails(p)
    /\ UNCHANGED <<shell, tty, pipeData, typed, abandoned>>

RedirectUndo(p) ==
    /\ At(p, "redirect", "undo")
    /\ LET f == Top(p)
           fds == Close(Dup2(proc[p].fds, f.saved, 1), f.saved)
       IN proc' = [proc EXCEPT ![p] = Returned([@ EXCEPT !.fds = fds], @.ret)]
    /\ UNCHANGED <<shell, tty, pipeData, typed, failures, abandoned>>

(* run_background().                                                       *)
RunBackground(p) ==
    /\ At(p, "background", "start")
    /\ \/ /\ \E c \in Pid :
               Fork(p, c, Returned(proc[p], 0),
                    [Top(p) EXCEPT !.pc = "inner", !.pgid = c, !.fg = FALSE])
          /\ UNCHANGED failures
       \/ ForkFails(p)
    /\ UNCHANGED <<shell, tty, pipeData, typed, abandoned>>

BackgroundInner(p) ==
    /\ At(p, "background", "inner")
    /\ proc' = [proc EXCEPT ![p] =
         Calling(@, [Top(p) EXCEPT !.pc = "leave"], Top(p).node.inner)]
    /\ UNCHANGED <<shell, tty, pipeData, typed, failures, abandoned>>

-----------------------------------------------------------------------------
(* main().  At the prompt the shell's stack is empty.  It reaps what it    *)
(* left running, runs the command, and takes the terminal back.            *)

AtPrompt ==
    shell # 0 /\ proc[shell].st = "run" /\ proc[shell].stack = << >>

TypeCommand ==
    /\ AtPrompt /\ typed < MaxCommands
    /\ \E n \in Commands :
         proc' = [p \in Pid |->
           IF proc[p].st = "zombie" /\ proc[p].parent = shell THEN Free
           ELSE IF p = shell
           THEN [proc[p] EXCEPT !.stack = <<Frame(n, 0, TRUE),
                   Frame([type |-> "main"], 0, TRUE)>>]
           ELSE proc[p]]
    /\ typed' = typed + 1
    /\ UNCHANGED <<shell, tty, pipeData, failures, abandoned>>

TakeTerminalNot == tty                                        \* fault
TakeTerminal == shell

CommandDone ==
    /\ shell # 0 /\ At(shell, "main", "start")
    /\ IF proc[shell].ret = RUN_ERROR
       THEN proc' = Exit(proc, shell, 0) /\ UNCHANGED tty
       ELSE /\ proc' = [proc EXCEPT ![shell].stack = << >>]
            /\ tty' = TakeTerminal
    /\ UNCHANGED <<shell, pipeData, typed, failures, abandoned>>

(* init.c: wait for anybody, and start the shell again when it was it.     *)
InitReaps(p) ==
    /\ proc[p].st = "zombie" /\ proc[p].parent = 0
    /\ proc' = [proc EXCEPT ![p] = Free]
    /\ shell' = IF p = shell THEN 0 ELSE shell
    /\ UNCHANGED <<tty, pipeData, typed, failures, abandoned>>

InitSpawns ==
    /\ shell = 0
    /\ \E p \in Pid :
         /\ proc[p] = Free /\ \A b \in 1 .. p - 1 : proc[b] # Free
         /\ proc' = [proc EXCEPT ![p].st = "run", ![p].pgid = p]
         /\ shell' = p /\ tty' = p
    /\ UNCHANGED <<pipeData, typed, failures, abandoned>>

-----------------------------------------------------------------------------
(* The programs.                                                           *)

Program(p, prog) == proc[p].st = "run" /\ proc[p].prog = prog

ProgramExits(p) ==
    /\ \/ Program(p, "true") /\ proc' = Exit(proc, p, 0)
       \/ Program(p, "die") /\ proc' = Exit(proc, p, RUN_SIGNALED)
    /\ UNCHANGED <<shell, tty, pipeData, typed, failures, abandoned>>

(* A pipe is at its end when it is empty and nobody can write to it; a     *)
(* terminal or file is taken to end at once.                               *)
CatReads(p) ==
    /\ Program(p, "cat")
    /\ LET in == proc[p].fds[0]
       IN IF in[1] = "r" /\ pipeData[in[2]]
          THEN /\ pipeData' = [pipeData EXCEPT ![in[2]] = FALSE]
               /\ UNCHANGED proc
          ELSE /\ in[1] = "r" => \A x \in Pid : ~Holds(x, <<"w", in[2]>>)
               /\ proc' = Exit(proc, p, 0)
               /\ UNCHANGED pipeData
    /\ UNCHANGED <<shell, tty, typed, failures, abandoned>>

SrcWrites(p) ==
    /\ Program(p, "src")
    /\ LET k == proc[p].fds[1][2]
       IN IF \A x \in Pid : ~Holds(x, <<"r", k>>)
          THEN /\ proc' = Exit(proc, p, RUN_SIGNALED)
               /\ UNCHANGED pipeData
          ELSE /\ ~pipeData[k]
               /\ pipeData' = [pipeData EXCEPT ![k] = TRUE]
               /\ UNCHANGED proc
    /\ UNCHANGED <<shell, tty, typed, failures, abandoned>>

-----------------------------------------------------------------------------
ShellInit ==
    /\ proc = [p \in Pid |-> IF p = 1 THEN [Free EXCEPT !.st = "run", !.pgid = 1]
                             ELSE Free]
    /\ shell = 1 /\ tty = 1
    /\ pipeData = [k \in 1 .. MaxPipe |-> FALSE]
    /\ typed = 0 /\ failures = 0 /\ abandoned = FALSE

ShellStep(p) ==
    \/ RunBuiltin(p) \/ RunExecute(p) \/ ExecuteSetpgid(p) \/ ExecuteExec(p)
    \/ ExecuteWait(p) \/ RunJuxtaposition(p)
    \/ PipeFork(p) \/ PipeLeft(p) \/ PipeRight(p) \/ PipeRestore(p) \/ PipeReap(p)
    \/ ForkedPartExits(p) \/ RunRedirect(p) \/ RedirectUndo(p)
    \/ RunBackground(p) \/ BackgroundInner(p)
    \/ ProgramExits(p) \/ CatReads(p) \/ SrcWrites(p) \/ InitReaps(p)

ShellNext == TypeCommand \/ CommandDone \/ InitSpawns \/ \E p \in Pid : ShellStep(p)

(* Every process that can run does (the scheduler's promise), and so does  *)
(* init; nobody has to type.                                               *)
ShellFairness ==
    /\ WF_shellVars(CommandDone) /\ WF_shellVars(InitSpawns)
    /\ \A p \in Pid : WF_shellVars(ShellStep(p))

-----------------------------------------------------------------------------
(* Whatever a command did, at the prompt the shell has the terminal on its *)
(* three descriptors and nothing else open: each dup() of run_pipe() and   *)
(* run_redirect() is undone on every path (sh.c:632, 638, 655).            *)
DescriptorsRestored == AtPrompt => proc[shell].fds = TtyOnly

(* At the prompt the terminal belongs to the shell, so that the next       *)
(* interrupt key does not go to a group that is gone.  This needs every    *)
(* pipe to have been waited for: after its right-hand side was killed or   *)
(* failed, run_pipe() returns at once, and a child of the left-hand side   *)
(* may take the terminal later (sh.c:572, 635).                            *)
PromptOwnsTerminal == AtPrompt /\ ~abandoned => tty = shell

(* A command comes to an end, and the prompt or another shell comes back:  *)
(* no pipe end that the shell or one of its children forgot to close       *)
(* leaves a reader waiting for an end of file, or a writer for room, for   *)
(* ever (sh.c:607, 627).                                                   *)
PromptReturns == (typed > 0 /\ ~AtPrompt) ~> AtPrompt
=============================================================================
