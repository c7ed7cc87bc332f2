------------------------------- MODULE MCQuota -------------------------------
(* Model values and bounds for Quota: quotas scaled down from 3 and 10.    *)
EXTENDS Quota, TLC

MCQuotaMap == [free |-> 2, basic |-> 3]
=============================================================================
