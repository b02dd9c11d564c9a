--------------------------- MODULE MCScrapeClient ---------------------------
(* TLC instance of ScrapeClient: families in several spellings, one of them
   nothing but suffixes, overrides of either role, and caps on both sides of
   every limit, the largest integer included. *)
EXTENDS ScrapeClient

CpuTimeSeconds == <<"k8s_pod_cpu_time", "_seconds">>
CpuTimeTotal   == <<"k8s_pod_cpu_time", "_seconds", "_total">>
CpuUsage       == <<"container_cpu_usage">>
CpuUsageTotal  == <<"container_cpu_usage", "_seconds", "_total">>
CpuRatio       == <<"container_cpu_usage", "_ratio">>
Total          == <<"_seconds", "_total">>

MCNames == {CpuTimeSeconds, CpuTimeTotal, CpuUsage, CpuUsageTotal, CpuRatio, Total}
MCRows  == {<<"finite">>, <<"NaN", "finite">>, <<"finite", "finite", "finite">>}

MCOverrides == {[cpu |-> NoOverride,    memory |-> NoOverride],
                [cpu |-> CpuUsageTotal, memory |-> NoOverride],
                [cpu |-> NoOverride,    memory |-> Total]}

MCCaps == {-1, 3, 4, 15}
=============================================================================
