---- MODULE MCSubscriber ----
(* Two messages, one of them not parseable, for each of the subscribers. *)
EXTENDS Subscriber, TLC

AllKinds == {"sqs", "gcs", "gocloud"}
OnlyGcs == {"gcs"}
====
