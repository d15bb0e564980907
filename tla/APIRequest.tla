------------------------------ MODULE APIRequest ------------------------------
(***************************************************************************)
(* The chains of calls by which the class methods of APIRequest build their *)
(* requests; the string a URL gets and the values of parameters are left    *)
(* out.  editUserInfo submits nothing.                                      *)
(***************************************************************************)
EXTENDS NetworkRequest

requestCloudUpdate == GET(URL(NewRequest, TRUE))

requestUserInfoWithParams(given) == params(POST(URL(NewRequest, TRUE)), given)

\* The second URL is the empty string.
loginWithType == URL(params(POST(URL(NewRequest, TRUE)), "json"), FALSE)

requestDiaryList(lastId) ==
    IF lastId THEN params(POST(URL(NewRequest, TRUE)), "json")
              ELSE URL(GET(NewRequest), TRUE)

\* addDiary, updateDiary and deleteDiary: strings only.
editDiary == params(POST(URL(NewRequest, TRUE)), "json")

\* The parameter is an array of UIImage, or a string when there is none.
uploadImages(images) ==
    params(POST(URL(NewRequest, TRUE)), IF images THEN "other" ELSE "json")
=============================================================================
