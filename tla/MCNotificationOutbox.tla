------------------------ MODULE MCNotificationOutbox -----------------------
(* One notification a user may turn off, and one that always goes out.     *)
EXTENDS NotificationOutbox, Pages   \* and what Pages assumes

MCNotes == {<<"u1", "subscription_trial_ending">>,
            <<"u2", "subscription_payment_failed">>}
=============================================================================
