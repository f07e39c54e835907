----------------------------- MODULE BGMessageSink -----------------------------
(***************************************************************************)
(* BGMessageSink (message_sinks.h and .cpp): the background thread         *)
(* publishes its lines here; the foreground thread prints them between its *)
(* own, until it lets the background thread print for itself.  Each step   *)
(* but PrintSwapped is one critical section of m_published_lock.           *)
(***************************************************************************)
EXTENDS Naturals, Sequences

VARIABLES
    m_published,                 \* lines published and not printed
    m_print_directly_to_out_sink,
    tmp,                         \* the lines print_published has swapped out
    console                      \* the lines of the background thread that out_sink has printed

sinkVars == <<m_published, m_print_directly_to_out_sink, tmp, console>>

InitSink ==
    /\ m_published = <<>>
    /\ m_print_directly_to_out_sink = FALSE
    /\ tmp = <<>>
    /\ console = <<>>

\* println, on the background thread.
Println(line) ==
    /\ IF m_print_directly_to_out_sink
       THEN console' = Append(console, line) /\ UNCHANGED m_published
       ELSE m_published' = Append(m_published, line) /\ UNCHANGED console
    /\ UNCHANGED <<m_print_directly_to_out_sink, tmp>>

\* print_published swaps the lines out under the lock and prints them after it.
SwapPublished ==
    /\ tmp' = m_published
    /\ m_published' = <<>>
    /\ UNCHANGED <<m_print_directly_to_out_sink, console>>

PrintSwapped ==
    /\ console' = console \o tmp
    /\ tmp' = <<>>
    /\ UNCHANGED <<m_published, m_print_directly_to_out_sink>>

\* publish_directly_to_out_sink.
PublishDirectly ==
    /\ m_print_directly_to_out_sink' = TRUE
    /\ console' = console \o m_published
    /\ m_published' = <<>>
    /\ UNCHANGED tmp

================================================================================
