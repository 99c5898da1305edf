------------------------------- MODULE Logging -------------------------------
(***************************************************************************)
(* The path through spdlog that the program takes: spdlog::info, warn and  *)
(* error on the default logger, whose one sink colours the level on the    *)
(* terminal.  All threads log: messages are made without a lock, printed   *)
(* under the console's mutex, with one formatter and its two caches of     *)
(* the date.  In v1 main joins the threads; in v2 it does not, and the     *)
(* registry that owns the logger is destroyed when main has returned.      *)
(*                                                                         *)
(* The time is the system clock's.  It may be set back, and a thread can   *)
(* be late at the mutex, so a message may have any time whatever.          *)
(***************************************************************************)
EXTENDS Integers, FiniteSets, SequencesExt

CONSTANTS
    Main, Workers,    \* the threads
    MaxCalls,         \* calls a thread makes: a bound of the model
    MaxLost,          \* pieces that writes fail for: a bound of the model
    Times             \* seconds since the epoch

ASSUME LoggingInputs ==
    /\ Main \notin Workers
    /\ "nobody" \notin {Main} \cup Workers
    /\ IsFiniteSet(Workers)
    /\ MaxCalls \in Nat /\ MaxLost \in Nat
    /\ Times \subseteq Nat \ {0}

VARIABLES
    joined,                  \* whether main joins the workers: v1, not v2
    colours,                 \* should_do_colors_: stdout is a terminal
    at,                      \* where each thread is in its call
    message,                 \* the message it is logging
    calls,                   \* calls it has begun
    console,                 \* owner of the console mutex, or "nobody"
    last_log_secs, cached_tm,            \* pattern_formatter's cache
    cache_timestamp, cached_datetime,    \* full_formatter's cache
    output,                  \* history: the pieces written to stdout
    lost,                    \* history: positions of those that have not got there
    err_counter, last_report_time, reports,    \* the error handler
    registry,                \* "alive" or "destroyed"
    exit                     \* "none", "exited" or "crashed"

threadVars == <<at, message, calls>>
cacheVars == <<last_log_secs, cached_tm, cache_timestamp, cached_datetime>>
errorVars == <<err_counter, last_report_time, reports>>
endVars == <<registry, exit>>
vars == <<joined, colours, threadVars, console, cacheVars, output, lost, errorVars, endVars>>

Threads == {Main} \cup Workers
NoTime == 0    \* a zeroed tm, an empty string

\* The pieces a line is written in: with colours, the date, the colour, the
\* level, the colour reset, and the rest.
Parts == IF colours THEN 5 ELSE 1

\* Main has logged before it creates threads: the registry is there.
Init ==
    /\ joined \in BOOLEAN
    /\ colours \in BOOLEAN
    /\ at = [t \in Threads |-> "idle"]
    /\ message = [t \in Threads |-> [call |-> 0, time |-> NoTime, stamp |-> NoTime, part |-> 0]]
    /\ calls = [t \in Threads |-> 0]
    /\ console = "nobody"
    /\ last_log_secs = 0 /\ cached_tm = NoTime
    /\ cache_timestamp = 0 /\ cached_datetime = NoTime
    /\ output = <<>> /\ lost = {}
    /\ err_counter = 0 /\ last_report_time = 0 /\ reports = <<>>
    /\ registry = "alive"
    /\ exit = "none"

Go(t, from, to) ==
    /\ at[t] = from
    /\ at' = [at EXCEPT ![t] = to]

-----------------------------------------------------------------------------
(* logger::log_ *)

\* The text is formatted, and the message gets its time.
Call(t) ==
    /\ calls[t] < MaxCalls
    /\ Go(t, "idle", "called")
    /\ calls' = [calls EXCEPT ![t] = @ + 1]
    /\ \E now \in Times :
           message' = [message EXCEPT ![t] =
               [call |-> calls'[t], time |-> now, stamp |-> NoTime, part |-> 0]]
    /\ UNCHANGED <<joined, colours, console, cacheVars, output, lost, errorVars, endVars>>

\* Formatting throws.
CallFails(t) ==
    /\ calls[t] < MaxCalls
    /\ Go(t, "idle", "failed")
    /\ calls' = [calls EXCEPT ![t] = @ + 1]
    /\ UNCHANGED <<joined, colours, message, console, cacheVars, output, lost, errorVars, endVars>>

-----------------------------------------------------------------------------
(* ansicolor_sink::log *)

\* Mutant: a sink without a mutex.
LockNothing(t) ==
    /\ Go(t, "called", "locked")
    /\ console' = t
    /\ UNCHANGED <<joined, colours, message, calls, cacheVars, output, lost, errorVars, endVars>>

Lock(t) ==
    /\ console = "nobody"
    /\ Go(t, "called", "locked")
    /\ console' = t
    /\ UNCHANGED <<joined, colours, message, calls, cacheVars, output, lost, errorVars, endVars>>

\* Mutant: a cache is only renewed by a later time.
CachesForLater(secs) ==
    LET tm == IF secs > last_log_secs THEN secs ELSE cached_tm
    IN  /\ last_log_secs' = IF secs > last_log_secs THEN secs ELSE last_log_secs
        /\ cached_tm' = tm
        /\ cache_timestamp' = secs
        /\ cached_datetime' = IF cache_timestamp # secs \/ cached_datetime = NoTime
                              THEN tm ELSE cached_datetime

\* pattern_formatter renews its broken-down time if the second is another one,
\* full_formatter its text if the second is another one or there is none.
Caches(secs) ==
    LET tm == IF secs # last_log_secs THEN secs ELSE cached_tm
    IN  /\ last_log_secs' = secs
        /\ cached_tm' = tm
        /\ cache_timestamp' = secs
        /\ cached_datetime' = IF cache_timestamp # secs \/ cached_datetime = NoTime
                              THEN tm ELSE cached_datetime

Format(t) ==
    /\ Go(t, "locked", "printing")
    /\ Caches(message[t].time)
    /\ message' = [message EXCEPT ![t].stamp = cached_datetime']
    /\ UNCHANGED <<joined, colours, calls, console, output, lost, errorVars, endVars>>

\* The text does not fit and memory runs out.  lock_guard releases the mutex.
FormatFails(t) ==
    /\ Go(t, "locked", "failed")
    /\ Caches(message[t].time)
    /\ console' = "nobody"
    /\ UNCHANGED <<joined, colours, message, calls, output, lost, errorVars, endVars>>

\* print_range_ or print_ccode_.  What fwrite returns is not looked at, and nor is
\* what fflush does: a piece may get lost, and nobody is told.
Write(t) ==
    /\ message' = [message EXCEPT ![t].part = @ + 1]
    /\ output' = Append(output, [thread |-> t, call |-> message[t].call,
                                 part |-> message'[t].part, stamp |-> message[t].stamp])
    /\ \/ UNCHANGED lost
       \/ /\ Cardinality(lost) < MaxLost
          /\ lost' = lost \cup {Len(output')}
    /\ UNCHANGED <<joined, colours, at, calls, console, cacheVars, errorVars, endVars>>

WritePiece(t) == at[t] = "printing" /\ message[t].part < Parts /\ Write(t)

\* The line is flushed and the mutex released.
Return(t) ==
    /\ message[t].part >= Parts
    /\ Go(t, "printing", "idle")
    /\ console' = "nobody"
    /\ UNCHANGED <<joined, colours, message, calls, cacheVars, output, lost, errorVars, endVars>>

-----------------------------------------------------------------------------
(* logger::err_handler_, under a mutex of its own *)

\* Mutants: an error too early is not counted; the time is not kept; the call is
\* made again.
ReportUncounted(t) ==
    /\ Go(t, "failed", "idle")
    /\ \E now \in Times :
           IF now - last_report_time < 1
           THEN UNCHANGED errorVars
           ELSE /\ err_counter' = err_counter + 1
                /\ last_report_time' = now
                /\ reports' = Append(reports, [number |-> err_counter', time |-> now])
    /\ UNCHANGED <<joined, colours, message, calls, console, cacheVars, output, lost, endVars>>

ReportAlways(t) ==
    /\ Go(t, "failed", "idle")
    /\ err_counter' = err_counter + 1
    /\ \E now \in Times :
           IF now - last_report_time < 1
           THEN UNCHANGED <<last_report_time, reports>>
           ELSE /\ reports' = Append(reports, [number |-> err_counter', time |-> now])
                /\ UNCHANGED last_report_time
    /\ UNCHANGED <<joined, colours, message, calls, console, cacheVars, output, lost, endVars>>

ReportByRetrying(t) ==
    /\ Go(t, "failed", "called")
    /\ UNCHANGED <<joined, colours, message, calls, console, cacheVars, output, lost, errorVars,
                   endVars>>

\* Every error is counted, but within a second of the last report not reported.
Report(t) ==
    /\ Go(t, "failed", "idle")
    /\ err_counter' = err_counter + 1
    /\ \E now \in Times :
           IF now - last_report_time < 1
           THEN UNCHANGED <<last_report_time, reports>>
           ELSE /\ last_report_time' = now
                /\ reports' = Append(reports, [number |-> err_counter', time |-> now])
    /\ UNCHANGED <<joined, colours, message, calls, console, cacheVars, output, lost, endVars>>

-----------------------------------------------------------------------------
(* The end of the process *)

Finished(t) == calls[t] = MaxCalls /\ at[t] = "idle"

\* Mutant: v1 does not wait either.
MainReturnsAtOnce ==
    /\ Finished(Main)
    /\ registry = "alive"
    /\ registry' = "destroyed"
    /\ UNCHANGED <<joined, colours, threadVars, console, cacheVars, output, lost, errorVars, exit>>

\* Main has returned, and static objects are destroyed.
MainReturns ==
    /\ Finished(Main)
    /\ joined => \A t \in Workers : Finished(t)
    /\ registry = "alive"
    /\ registry' = "destroyed"
    /\ UNCHANGED <<joined, colours, threadVars, console, cacheVars, output, lost, errorVars, exit>>

Exit ==
    /\ registry = "destroyed"
    /\ exit' = "exited"
    /\ UNCHANGED <<joined, colours, threadVars, console, cacheVars, output, lost, errorVars, registry>>

\* A worker that still logs uses a logger that is gone: undefined behaviour,
\* which may also go unnoticed.
UseDestroyed(t) ==
    /\ registry = "destroyed"
    /\ ~Finished(t)
    /\ exit' = "crashed"
    /\ UNCHANGED <<joined, colours, threadVars, console, cacheVars, output, lost, errorVars, registry>>

ThreadStep(t) ==
    /\ exit = "none"
    /\ \/ Call(t) \/ CallFails(t) \/ Lock(t) \/ Format(t) \/ FormatFails(t)
       \/ WritePiece(t) \/ Return(t) \/ Report(t)
       \/ UseDestroyed(t)

MainEnds == exit = "none" /\ (MainReturns \/ Exit)

Ended == exit # "none" /\ UNCHANGED vars

Next == (\E t \in Threads : ThreadStep(t)) \/ MainEnds \/ Ended

\* Threads are scheduled; the mutex may be taken by any of those that wait.
Spec ==
    /\ Init /\ [][Next]_vars
    /\ \A t \in Threads : WF_vars(ThreadStep(t))
    /\ WF_vars(MainEnds)

-----------------------------------------------------------------------------
(* Properties *)

Message == [call : 0..MaxCalls, time : Times \cup {NoTime}, stamp : Times \cup {NoTime},
            part : 0..5]
Piece == [thread : Threads, call : 1..MaxCalls, part : 1..5, stamp : Times]

\* Type invariant.
TypeOK ==
    /\ joined \in BOOLEAN /\ colours \in BOOLEAN
    /\ at \in [Threads -> {"idle", "called", "locked", "printing", "failed"}]
    /\ message \in [Threads -> Message]
    /\ calls \in [Threads -> 0..MaxCalls]
    /\ console \in Threads \cup {"nobody"}
    /\ last_log_secs \in Times \cup {0} /\ cached_tm \in Times \cup {NoTime}
    /\ cache_timestamp \in Times \cup {0} /\ cached_datetime \in Times \cup {NoTime}
    /\ output \in Seq(Piece) /\ lost \subseteq DOMAIN output
    /\ err_counter \in Nat /\ last_report_time \in Times \cup {0}
    /\ reports \in Seq([number : Nat, time : Times])
    /\ registry \in {"alive", "destroyed"}
    /\ exit \in {"none", "exited", "crashed"}

\* The piece a line goes on with, or begins with.
Follows(p, q) == p.thread = q.thread /\ p.call = q.call /\ q.part = p.part + 1

\* Lines are printed whole, one after the other; only the owner of the console can
\* be in the middle of one.  Unless a write fails, no colour is left on and no line
\* is cut.
LinesAreWhole ==
    /\ \A i \in 2..Len(output) :
           IF output[i].part = 1 THEN output[i - 1].part = Parts
           ELSE Follows(output[i - 1], output[i])
    /\ console = "nobody" /\ output # <<>> => Last(output).part = Parts

\* A line shows the second of its own message, though the date comes out of
\* caches that all threads share and later messages may have been printed.
StampsAreOwn ==
    \A t \in Threads :
        at[t] = "printing" =>
            /\ message[t].stamp = message[t].time
            /\ \A i \in DOMAIN output :
                   output[i].thread = t /\ output[i].call = message[t].call =>
                       output[i].stamp = message[t].time

\* Where a line begins, those lines of which all pieces have got to the terminal,
\* the calls that a write has failed for, and those that have been begun.
Lines == {i \in DOMAIN output : output[i].part = 1}
WholeLines == {i \in Lines : i..(i + Parts - 1) \cap lost = {}}
Damaged == {<<output[i].thread, output[i].call>> : i \in lost}
CallsBegun == {c \in Threads \X (1..MaxCalls) : c[2] <= calls[c[1]]}

\* A thread's lines come in the order of its calls.  Of all calls that have returned
\* each has its line on the terminal, or had a write fail for it, or is counted as
\* an error: the three never overlap, so what fails to be written is not counted.
CallsAreAccounted ==
    /\ \A i, j \in Lines :
           i < j /\ output[i].thread = output[j].thread =>
               output[i].call < output[j].call
    /\ (\A t \in Threads : at[t] = "idle") =>
           Cardinality(WholeLines) + Cardinality(Damaged) + err_counter
               = Cardinality(CallsBegun)

\* Reports are a second apart at least, and each has the number of the error.
ReportsAreApart ==
    \A i, j \in DOMAIN reports :
        i < j => /\ reports[i].time + 1 <= reports[j].time
                 /\ reports[i].number < reports[j].number

\* Joined threads never meet a logger that is gone.
LoggerOutlivesJoined == joined => exit # "crashed"

\* Every call returns, unless the process has ended.
CallsReturn ==
    \A t \in Threads : at[t] # "idle" ~> (at[t] = "idle" \/ exit # "none")

=============================================================================
