----------------------------- MODULE VerbsSetup -----------------------------
(* How the programs make and release what they need. A set-up table says in     *)
(* which order objects are made, to which label a failure jumps, and what each  *)
(* label releases before it falls through to the next. A verb refuses to        *)
(* release an object that others still depend on.                               *)
EXTENDS Naturals, FiniteSetsExt, SequencesExt

Qps == {"qp", "qp2"}

(* What only YMPI_Init makes: memory. The queues of vbufs are one object, and   *)
(* so are the lists of receive WRs and those of addresses.                      *)
YmpiMemory == {"dev_list", "qp_pending_send_wr", "buf_bytes", "vbuf_queues", "qp_rank",
               "recv_wr_lists", "address_lists"}

(* What pp_init_ctx makes, or YMPID_Init, and the connections of xsrq. (The list *)
(* of devices is among them for YMPI only: the main of the others frees it when *)
(* it ends well, and the addresses of the peers too.)                           *)
Object == {"ctx", "arrays", "buf", "tx_buf", "rx_buf", "context", "channel", "pd", "ah",
           "mr", "tx_mr", "rx_mr", "xrcd", "cq", "tx_cq", "rx_cq", "srq", "qp_list"}
          \cup Qps \cup YmpiMemory

(* Which objects must be gone before one can be released (the driver counts     *)
(* references; to close the device is not refused).                             *)
Dependents == [
  pd      |-> {"mr", "tx_mr", "rx_mr", "srq", "ah"} \cup Qps,
  cq      |-> Qps,
  tx_cq   |-> Qps,
  rx_cq   |-> {"srq"} \cup Qps,
  srq     |-> Qps,
  xrcd    |-> {"srq"} \cup Qps,
  channel |-> {"cq", "rx_cq"}]

refused(made, o) == o \in DOMAIN Dependents /\ Dependents[o] \cap made # {}

(* ibv_destroy_..., free: what is left of made after each of a series of calls. *)
Left(made, objects) ==
  LET left[i \in 0 .. Len(objects)] ==
        IF i = 0 THEN made
        ELSE LET before == left[i - 1]
             IN IF refused(before, objects[i]) THEN before ELSE before \ {objects[i]}
  IN left

(* The whole series, whatever the results.                                      *)
ReleasedAll(made, objects) == Left(made, objects)[Len(objects)]

(* The series in a function that returns 1 at the first refusal.                *)
Closed(made, objects) ==
  LET left == Left(made, objects)
      refusals == {i \in DOMAIN objects : refused(left[i - 1], objects[i])}
  IN [left |-> IF refusals = {} THEN left[Len(objects)] ELSE left[Min(refusals) - 1],
      ok |-> refusals = {}]

(* A step of a table makes objects, or fails with a part of them made and jumps *)
(* to a label (two objects: both are asked for, then tested together).          *)
Step(objects, label) == [makes |-> objects, label |-> label]
Label(name, objects) == [name |-> name, frees |-> objects]

Made(create, i) == UNION {create[j].makes : j \in 1 .. i}

(* What remains when step i of a set-up fails with part of it made. A label     *)
(* that is not in the table releases nothing.                                   *)
AfterFailure(table, i, part) ==
  LET k == SelectInSeq(table.cleanup, LAMBDA l : l.name = table.create[i].label)
      run == IF k = 0 THEN <<>> ELSE SubSeq(table.cleanup, k, Len(table.cleanup))
  IN ReleasedAll(Made(table.create, i - 1) \cup part,
                 FlattenSeq([j \in DOMAIN run |-> run[j].frees]))

(* Mutant: a label that was forgotten.                                          *)
CommonLabels_mr_kept == <<Label("clean_cq", <<"cq">>), Label("clean_mr", <<>>),
  Label("clean_pd", <<"pd">>), Label("clean_comp_channel", <<"channel">>),
  Label("clean_device", <<"context">>), Label("clean_buffer", <<"buf">>),
  Label("clean_ctx", <<"ctx">>)>>

(* The labels that rc, uc, ud and srq have in common.                           *)
CommonLabels == <<Label("clean_cq", <<"cq">>), Label("clean_mr", <<"mr">>),
  Label("clean_pd", <<"pd">>), Label("clean_comp_channel", <<"channel">>),
  Label("clean_device", <<"context">>), Label("clean_buffer", <<"buf">>),
  Label("clean_ctx", <<"ctx">>)>>
=============================================================================
