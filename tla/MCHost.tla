------------------------------- MODULE MCHost -------------------------------
(***************************************************************************)
(* Instances of the parts of the barrel process that share no state: its   *)
(* services, a forwarded response, an upgraded connection, the removal of  *)
(* a container's mounts and a batch of writes to etcd.  A behaviour is that*)
(* of one of them; the others stay in one initial state.                   *)
(***************************************************************************)
EXTENDS ServiceStarter, BodyForward, LinkConn, MountRecycling, EtcdBatch

VARIABLE active

Default == [mode |-> "default", enableCNMAgent |-> TRUE, hosts |-> {"unix"}, disposeTimeout |-> 1]
ProxyOnly == [mode |-> "proxy-only", enableCNMAgent |-> FALSE, hosts |-> {"http", "unix"},
              disposeTimeout |-> 2]
PluginOnly == [mode |-> "network-plugin-only", enableCNMAgent |-> FALSE, hosts |-> {},
               disposeTimeout |-> 0]
Unknown == [PluginOnly EXCEPT !.mode = "unknown"]

StarterSettings == {Default, ProxyOnly, PluginOnly, Unknown}

\* /1, /1/1, /1/2, /1/1/2, /12, /2 and /2/1; the prefixes are /1/ and /2.
MCPaths == {<<0, 1>>, <<0, 1, 0, 1>>, <<0, 1, 0, 2>>, <<0, 1, 0, 1, 0, 2>>, <<0, 1, 2>>, <<0, 2>>,
            <<0, 2, 0, 1>>}
MCPathPrefixes == {<<0, 1, 0>>, <<0, 2>>}

MCInit ==
    /\ active \in {"services", "body", "link", "mounts", "batch"}
    /\ active = "services" \/ setting = Unknown
    /\ active = "mounts" \/ mounts = <<>>
    /\ active = "batch" \/ codecs = <<>>
    /\ Init /\ BodyInit /\ LinkInit /\ RecycleInit /\ BatchInit

MCNext ==
    \/ active = "services" /\ Next
         /\ UNCHANGED <<active, bodyVars, linkVars, recycleVars, batchVars>>
    \/ active = "body" /\ BodyNext
         /\ UNCHANGED <<active, vars, linkVars, recycleVars, batchVars>>
    \/ active = "link" /\ LinkNext
         /\ UNCHANGED <<active, vars, bodyVars, recycleVars, batchVars>>
    \/ active = "mounts" /\ RecycleNext
         /\ UNCHANGED <<active, vars, bodyVars, linkVars, batchVars>>
    \/ active = "batch" /\ BatchNext
         /\ UNCHANGED <<active, vars, bodyVars, linkVars, recycleVars>>

\* The fairness of ServiceStarter and LinkConn, each where it is active.
MCFairness ==
    /\ WF_state(active = "services" /\ MainStep) /\ WF_state(active = "services" /\ Tick)
    /\ \A s \in AllServices :
         /\ WF_state(active = "services" /\ ServiceGoes(s))
         /\ \A p \in AllParts : WF_state(active = "services" /\ PartGoes(s, p))
    /\ WF_linkVars(active = "link" /\ Link)
    /\ \A s \in Side : WF_linkVars(active = "link" /\ Goroutine(s))

MCSpec ==
    MCInit /\ [][MCNext]_<<active, vars, bodyVars, linkVars, recycleVars, batchVars>> /\ MCFairness
=============================================================================
