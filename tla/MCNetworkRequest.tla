--------------------------- MODULE MCNetworkRequest ---------------------------
(* Instances of NetworkRequest for TLC.                                    *)
EXTENDS APIRequest, TLC

\* A GET with parameters: the one shape of request that is sent as asked.
GETDiary      == params(GET(URL(NewRequest, TRUE)), "json")
OneCall       == {GETDiary}
UserInfo      == {requestUserInfoWithParams("none")}

\* Chains that raise nothing on the network queue: a GET, a POST, an upload.
SafeCalls == {GETDiary, loginWithType, upload(URL(NewRequest, TRUE))}
=============================================================================
