----------------------------- MODULE MCLedgerTx -----------------------------
(***************************************************************************)
(* Two scenes of LedgerTx: the router plane closing a reservation beside a *)
(* retry and another reservation, and two reservations of a capped key     *)
(* beside the streaming planes.                                            *)
(***************************************************************************)
EXTENDS LedgerTx

CONSTANTS s1, s2, s3, s4, s5, r1, r2, p1,
          Scenes  \* those looked at

VARIABLE scene

Call(kind, request, tokens) == [kind |-> kind, request |-> request, tokens |-> tokens]

(* Two reservations, the router plane closing the first one twice, and a   *)
(* retry of the first.                                                     *)
RouterPlan ==
    [s \in Sessions |->
        CASE s = s1 -> Call("reserve", r1, 3)
          [] s = s2 -> Call("reserve", r2, 2)
          [] s = s3 -> Call("routerSettle", r1, 2)
          [] s = s4 -> Call("routerRelease", r1, 0)
          [] OTHER -> Call("reserve", r1, 3)]

(* Two reservations, and the streaming plane closing the first one twice. *)
Streamers == Sessions \ {s5}

StreamPlan ==
    [s \in Streamers |->
        CASE s = s1 -> Call("reserve", r1, 3)
          [] s = s2 -> Call("reserve", r2, 2)
          [] s = s3 -> Call("streamSettle", r1, 2)
          [] OTHER -> Call("streamRelease", r1, 0)]

(* The requests are there, and no session of the router scene is a stream. *)
ASSUME SceneAssumption ==
    /\ {r1, r2} \subseteq Requests
    /\ \A s \in Sessions : ~ Streaming(s)

Stream == INSTANCE LedgerTx WITH
    Sessions <- Streamers, Expiring <- {r1}, Periods <- {p1},
    Plan <- StreamPlan, Total0 <- 2, CreditLimit <- 4

SceneInit ==
    /\ scene \in Scenes
    /\ scene = "router" => Init
    /\ scene = "stream" => Stream!Init

SceneNext ==
    /\ \/ scene = "router" /\ Next
       \/ scene = "stream" /\ Stream!Next
    /\ UNCHANGED scene

(* A statement of the stream scene that can run does run. *)
Goes(s) == scene = "stream" /\ Stream!Step(s) /\ UNCHANGED scene

ScenesSpec == SceneInit /\ [][SceneNext]_<<vars, scene>>

FairScenesSpec == ScenesSpec /\ \A s \in Streamers : WF_<<vars, scene>>(Goes(s))

-----------------------------------------------------------------------------
(* Through the router plane, wallet tokens are neither made nor lost and   *)
(* never run short, whatever transactions overlap, fail or crash.          *)
(* (usage.py: settle_router_usage, release_router_reservation.)            *)
RouterConservesWallet == scene = "router" => WalletConservation /\ NoOverdraft

(* Through the router plane a reservation is closed once.                  *)
RouterClosesOnce == [][scene = "router" => ClosedStay]_vars

(* Reservations that lock one period row are not jointly past the cap of   *)
(* their key, also beside streams.                                         *)
CapHolds == scene = "stream" => Stream!KeyWithinLimitPerPeriod

(* Every transaction comes to its end: the streaming planes and the        *)
(* reservations lock rows in different orders, but a deadlock costs one    *)
(* transaction and blocks none for ever.  (usage.py: _lock_period,         *)
(* _lock_or_create_wallet; product_routes.py: _event_stream.)              *)
StreamsFinish == scene = "stream" => \A s \in Streamers : <>(pc[s] = "done")

=============================================================================
